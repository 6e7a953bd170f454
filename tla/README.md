# V2bX: TLA+ models, model checks and proofs

V2bX is a proxy node server. It polls a panel (an HTTP service that is not part of the
repository) for the configuration and the users of each of its nodes, serves these nodes
on one or more proxy cores (xray, sing-box, hysteria2), limits users, and reports their
traffic and online devices back to the panel. This directory holds TLA+ modules of the
parts that decide whether that works: tasks, controllers, polls, limits, accounting, the
path of a connection, core selection, reloads, the config file.

Contents: [Inventory](#1-inventory) · [Modules](#2-modules) · [Runs](#3-runs) ·
[Findings](#4-findings) · [Proofs](#5-proofs) · [Model-checked
only](#6-model-checked-only) · [Not modelled](#7-not-modelled) · [Plan](#8-plan)

Run everything from this directory: `tlc -config X.cfg MCm.tla`, `tlapm MProofs.tla`.
`PROJECT.json` lists the runs, the source lines of every definition, the hazards with
the properties that cover them, and the theorems.

## 1. Inventory

| Component | State | Operations | Hard behaviours | What makes it correct |
|---|---|---|---|---|
| Periodic task (`common/task`) | `running`, `stop` channel, one goroutine per Start | Start, Close, the loop | the goroutine reads `t.stop` without the lock at each turn; its error path closes `t.stop` | one flag, one open channel, one goroutine; no channel closed twice; a closed task drains |
| Controller (`node/controller.go`, `node/task.go`) | tag, info, userList, limiter, tasks with their intervals | Start, reload, Close | the reload restarts the task it runs on; Close comes from the watcher's goroutine | Close is final; tasks keep executing at the panel's interval |
| Panel client (`api/panel`) | `responseBodyHash`, `nodeEtag`, `userEtag`, alive map | GetNodeInfo, GetUserList, GetUserAlive, two reports | remembers an answer before it has been applied, or even before its status is checked | "unchanged" means applied; "changed" means changed |
| Node and user sync (`nodeInfoMonitor`, `compareUserList`) | three tables of users: core, limiter, userList | one poll | each call can fail between two others | the tables agree; they converge to the panel's |
| Device limiter (`limiter/limiter.go`) | `UserLimitInfo`, `UserOnlineIP`, `OldUserOnline`, `AliveList` | CheckLimit, GetOnlineDevice, UpdateUser | lock-free maps under concurrent connections and reports | admitted devices are recorded and reported; refused ones are not |
| Traffic accounting (`common/counter`, hooks of the cores) | counters per tag and user, uid maps, link managers | connect, count, GetUserTrafficSlice, DelUsers, DelNode | load-then-store, deletion under live connections | no byte billed twice; none lost silently |
| Core selector (`core/selector.go`) | `nodes` routes, the nodes' Options | AddNode, DelNode, routed calls | map order decides; the choice rewrites the options; two-step calls | one core per node, the one its options are decoded for |
| Server and watcher (`cmd/server.go`, `conf/watch.go`, `node/node.go`) | Conf, core, controllers | start, reload | a ten-second window, overlapping and failing reloads | what runs is what the file says, or nothing is out of reach |
| Certificates (`node/cert.go`, `node/lego.go`) | the files of account, certificate and key | request, daily renewal | three files written by truncation, crashes between, nodes that share them | the pair served matches; it is renewed; the account is kept |
| xray connections (`core/xray/app/dispatcher`, `limiter/rule.go`) | the link's two ends, the cachedReader, the sniffer's attempts and deadline, the rules' slice | Dispatch, DispatchLink, Cache, Sniff, CheckDomainRule, UpdateRule, CloseAll | client, deadline, handler and monitor act on one link at once; rules are filled in while they are read | the handler reads what was written; who is turned away is cut off; no connection is stuck; what is handled passed the rules |
| hysteria2 users, limits, nodes (`core/hy2`) | `Hy2nodes`, the core's one `usersMap`, OverLimit of the limiters | AddNode, DelNode, AddUsers, DelUsers, Authenticate, the logger's events, LogTraffic | both maps are shared by all nodes; a goroutine per user; a logger that panics; an answer that travels as a flag | a listed user connects; who was refused is cut; what ends the process for a node is that node's doing |
| Config stripper (`common/json5`) | one buffer, edited in place | TrimNodeReader | one pass, indices off by one | what is decoded is the file without comments and trailing commas |
| Speed buckets, builders, decoding, CLI | see [section 7](#7-not-modelled) | | | |

How they interact: `cmd/server.go` makes a core (a Selector when the config has several)
and a `node.Node`, which makes a panel client and a Controller per node. The Controller
registers a Limiter under its tag, adds the node and its users to the core, and starts
two Tasks: one calls `nodeInfoMonitor`, the other `reportUserTrafficTask`. Connections
run in goroutines of the core and call into the Limiter and the counters through hooks.
The watcher calls `Node.Close` and starts everything again from a goroutine of its own.
Nothing is persisted except the certificate files.

## 2. Modules

| Module | Models | Composition |
|---|---|---|
| `Task` | `common/task/task.go` | |
| `Controller` | `Controller.Start`, reload and `Close` | `EXTENDS Task` with the tasks `"monitor"` and `"report"`, by whose actions it starts and closes them |
| `NodeSync` | a poll with the panel client, against core, limiter and userList | |
| `DeviceGate` | what the limiter promises: the abstract specification | |
| `Limiter` | CheckLimit, GetOnlineDevice, UpdateUser, one map operation a step | implements `DeviceGate` through a refinement mapping |
| `Traffic` | connections, counters, reports and deletions of the three cores | |
| `Selector` | `core/selector.go` with `Options.UnmarshalJSON` | |
| `Server` | watcher, reload, `Node.Start` and `Close` | |
| `CertStore` | `requestCert`, `renewCertTask` and the ACME account, a file operation a step | |
| `Stream` | what a handler may rely on when it reads an uplink: the abstract specification | |
| `Dispatch` | one xray connection from getLink to its handler, its client, and the monitor that cuts it and replaces its rules | implements `Stream` through a refinement mapping |
| `Hy2` | the nodes of one hysteria2 core, their monitors and closes, and the connections | |
| `Trim` | `prep` and `consumeComment`, a character a step, and what a file means | |
| `MC*` | constants, symmetry and definitions for TLC | extend the module they name |
| `SelectorProofs`, `NodeSyncProofs`, `DispatchProofs`, `Hy2Proofs`, `LimiterProofs`, `CertStoreProofs` | theorems | extend the module they name |
| `ControllerProofs` | theorems about what runs for one node | extends `Controller` (so `Task`) and `Traffic` |
| `ConfigProofs` | theorems about the config file | extends `Server` and `Trim` |

Correspondence of state and code, where it is not by name:

- **Task.** `made[t]` counts Starts that made a channel; channel and goroutine number
  `made[t]` belong to the same Start. `closed[t]` are the channels closed. `pc[t][g]` is
  a goroutine's place: `select` (about to evaluate `t.stop` and arm the timer), `wait`,
  `exec`. `waitsOn[t][g]` is the channel its `select` evaluated. Intervals are abstract:
  an armed timer may fire at any moment.
- **Controller.** `ctl` is the place of Start or Close; `step[g]` that of the
  `nodeInfoMonitor` call on goroutine `g` of the monitor. `node` and `limited` say
  whether core and limiter registry have the tag. A reload whose interval differs does
  `Close(monitor)` and `Start(monitor)` from inside Execute. Close waits for no poll, as
  `Controller.Close` and `Task.Close` do not. Each call of a reload may fail: rules that
  do not compile and a failing AddNode end the process, a certificate ends the reload,
  AddUsers skips what follows. `faulty` and `met` are history: what has failed, and that
  a reload was under way while Close was.
- **NodeSync.** A config is a value of `Configs`, a user list a function from uuids to
  profiles. `nodeSeen` and `userSeen` are what the client's hash and ETags stand for.
  `pc` is the place in `nodeInfoMonitor`; every request to the panel and every call into
  core or limiter is a step of its own, between which the panel may change. `hy2`
  chooses the core whose user map outlives a node, `named` a node with Options.Name. A
  config in `BadRules` has a rule that does not compile; RebuildLimiter and AddNode end
  the process where the code does.
- **Limiter.** `table[u] = c` says that the ipMap that connection `c` made is installed
  for `u`; `ips[c]` is its content. `seen[c]` is what the connection has read so far.
  `removal` is the user whom UpdateUser is taking out, between its deletions.
- **Traffic.** `stage[c]` is the place of a connection. A storage is a number with `up`
  and `down`; `entry[ctr][u]` is the storage a TrafficCounter has for a user; a counter
  and a link manager are named by the connection that made them. `listed` is userList
  (and who may connect to xray or sing), `known` the uid map: a reload of an xray node
  replaces the first and leaves the second with whoever it has dropped. `produced`,
  `billed`, `dropped` are history, and so is `raced`, the users whose first connections
  have met each other or a DelUsers.
- **Selector.** `file` is what an operator wrote, `option` the node's Options as the
  process has changed them. `pc[n]["monitor"]` and `pc[n]["closer"]` are the places of
  the two goroutines that call for node `n`; `raced` (history) has the nodes whose Close
  met its monitor at work.
- **Server.** A reload is a number, and names the core and the slice of controllers that
  it makes; `controllers` is the slice that the Node holds, `ranged[g]` the one that a
  Close ranges over. `running` are the controllers with live tasks, reachable from
  `controllers` or not. Whatever another reload can come between is a step: `ResetConf`
  and `Load` of the one Conf; `MakeController`, which writes a slot of the slice, and
  `StartController`, which reads it again; the two halves of a Start (`StartTasks`), with
  `starting[g]` the controller in hand; `GoOn`, which looks at the shared `err`. `regime`
  is what the behaviour's environment may do, with the number of its edits.
- **CertStore.** `cert` and `key` hold a number each, the same for a pair that belongs
  together; `Torn` is a file that has been truncated and not yet written.
  `pc[n]["main"]` is Start and later `nodeInfoMonitor`, `pc[n]["renew"]` the renewal
  task. A process that ends is started again. `lost` remembers which files a failure has
  left half-written. A core that is `strict` (hysteria2, sing) looks whether the pair
  matches as it starts a node; xray does not.
- **Dispatch.** `place` is where the connection's goroutine is. `up` is what the client
  has written and nobody has read, with the state of the pipe or of the inbound's reader
  (`via`); `cache` is the cachedReader's. Chunks are numbered in the order they are
  written. `down` stands for the other end, `managed` for its place in the LinkManager,
  `cutting` for CloseAll between its two calls. `meta`, `pending`, `attempts`, `left`
  are the locals of `sniffer`; what a sniffer recognises is chosen freely. `rules` is
  the slice that readers see, `fresh` the list that UpdateRule is copying into it,
  `None` an element not yet copied; `at` and `count` are the loop of CheckDomainRule,
  whose length is read once. A pattern `"invalid"` ends the process where UpdateRule
  compiles it. `inForce` and `raced` are history: the lists whose rules were in force as
  the connection looked, and what of an update came meanwhile.
- **Hy2.** `monitor[n]` and `closer[n]` are the places of the two goroutines that call
  for node `n`, `todo[n]` the users whose goroutine of AddUsers or DelUsers has not run.
  A write of `Hy2nodes` has two steps; whoever looks into it in between may end the
  process (`crashed = "map"`, for the node in `blamed`). `bare` are the nodes whose last
  reload stopped at the certificate, `back` those that a reload has finished although
  Close had begun. The calls of the logger come per connection and per stream, so they
  have names of their own: `at[k]` is the place of a call for user `uuid[k]` of node
  `tag[k]`, `answer[k]` what CheckLimit has told it; looking up the entry and writing its
  flag are two steps. `over` is the OverLimit flag of the entries, `stale` the calls that
  hold a limiter or an entry that was replaced, `flags` (history) the answers that a flag
  may stand for.
- **Trim.** `mode` is the loop that `prep` is in, `comma` its variable j while it looks
  behind a comma. `Kinds` is the reference: an automaton that says of each character
  where it is.

Definitions named `X_Something`, directly before `X`, are mutants: `X` with a plausible
bug, with which a run must fail. They are no part of a specification.

## 3. Runs

| Run | Distinct states | Question |
|---|---|---|
| `task` | 2 k | Every interleaving of up to four Starts, Closes and loops of a task whose Execute may fail: until the process dies a running task has a loop; a running task executes, a closed one drains |
| `controller` | 270 k | Two reloads that restart the running tasks, each call of which may fail, and a Close at any moment: Close undoes Start but for what a reload that it meets does, the process dies only of what has failed or of such a meeting, and until Close no task stops executing |
| `node_sync` | 1.7 M | Three edits on the panel, rules that do not compile, two failing calls, any node and core: core, limiter and userList in step as far as these failures allow, with hysteria2 as far as its map does; every poll does what the answers say and no more, and users, speed limits and config converge to the panel's |
| `limiter` | 7.0 M | Overlapping calls, reports and updates and a shared IP: no refused device stays in the table; calls one at a time by users that share no IP implement `DeviceGate` |
| `traffic` | 3.2 M | Three cores: in any overlap no byte is reported twice, and every live xray link can be closed unless its user's first connections raced; without overlap every byte is billed, waiting, or knowingly dropped |
| `selector` | 6 k | Whatever is written in the file, however cores fail and whenever Close comes: one core at most, options that fit it, a reload that finds it again; the route leads to it unless the node's own Close met its monitor at work |
| `server` | 119 k | Paced, unpaced, failing and overlapping reloads: what is loaded in the end is the file; what runs is what the file says if nothing fails or overlaps, and is within the next reload's reach if something fails |
| `certs` | 677 k | One node or two with the same files, a core that looks at the pair or not, a failure and a crash anywhere: a node with files of its own serves a certificate with its key and has it renewed unless a file was left half-written; the account is registered once |
| `dispatch` | 473 k | Every kind of link and of sniffing, a client that writes, stops or is silent, a user who is deleted and rules that are replaced before or while they are looked at: the handler reads a `Stream`; a connection that is turned away is cut at both ends; no rule is passed that was in force throughout; every connection settles |
| `hy2` | 2.5 M | Two nodes, one user whom they share and one of the first, two changes, reloads (whose certificate may fail) or closes of them, and a connection with two requests at once: who is on one node only is never lost to another's deletions; a panic for want of a node or a limiter is that node's doing; the flag is one of the answers |
| `trim` | 2.6 M | Every file of up to six characters: what is decoded is the file without comments and trailing commas |

The twelfth run, `node_sync_lost`, expects a violation; it is the first finding.

**Circumstances.** What holds often depends on what the environment does, and the weaker
the environment, the more holds. Such a choice is a variable that `Init` fixes, so that
one run covers all of them, and each property says for which it is meant: `serial`
(Limiter, Traffic: calls do not overlap; in Limiter also, users share no IP), `named` and
`hy2` (NodeSync: Options.Name is given; the user map outlives a node), `kind` (Traffic:
the core), `mode`, `literal`, `members` and `strict` (CertStore: where certificates come
from, whether paths have placeholders, who shares the files, whether the core looks at
the pair), `regime` (Server: which contents the file may have, what may fail, whether
edits wait for the window and whether reloads may overlap). `mode` of Dispatch is the
kind of connection; its MC module leaves some combinations out to keep the run small; the
theorems of DispatchProofs are about all of them.

What harms a property is where possible not assumed away but recorded, as narrowly as the
code allows, in a history variable that the property names: calls that have failed
(`faults` in NodeSync, `faulty` in Controller, `lost` in CertStore, `bare` in Hy2), and
actors that have met (`met` in Controller, `back` in Hy2, `raced` in Selector, Traffic
and Dispatch). Nothing else depends on these variables.

**Bounds.** `MaxStarts`: a fault of Task needs a goroutine left over by a Close and a
Start during Execute and one more restart, three Starts; four are checked of one task
(tasks share nothing), three of two in Controller, where a Close may come at any of their steps. `MaxReloads` 2: the second reload
meets what the first restart has left behind. `MaxEdits` 3 and `MaxFaults` 2 in
NodeSync: a change that a failure hides, and one after the recovery. Two users tell a
user's own entry from another's; two values of a limit tell changed from not. Limiter:
two connections race, a third meets what they left; `MaxInFlight` 3 counts an UpdateUser
among those that overlap; two reports make `OldUserOnline` matter. Traffic: two connections of one user, four storages, two bytes (one to count,
one lost between load and store). Selector: two cores of one type and one of each other
make the choice matter twice; one node, for nodes share no state (the theorem has any
number). Server: an overlap takes two edits, and a third is for what a failure leaves;
two tags make files of no, one and two nodes, and one that names a node twice. CertStore: a second node is the first that can share; one failure
and one crash, since either alone leaves a file half-written and the other meets it;
four names are one for each file, one in another hand and one to take. Dispatch: two
chunks are one that sniffing took and one behind it; a deadline of one unit has passed
or not; lists of two rules have one that is copied and one that is not, and one list has a rule
that does not compile. Hy2: the
second node is the other with whom maps are shared; two operations are a change and the
change, reload or close that meets it; one user is on both nodes and one on the first
only; two calls overlap, on the connection of the first. In NodeSync and Hy2 polls of one
node do not overlap each other (two goroutines of one task may, section 4). Trim: six characters hold a block comment and
what is around it, or a comma, a comment and a bracket. The histories of Traffic are
bounded by `MaxBytes`; no run is cut by a state constraint. Environments are bounded,
and a closed controller or an edited-out panel rightly does nothing, so the runs switch
the deadlock check off, all but `trim`, which ends where `prep` does.

**Symmetry** is declared only for connections (Limiter, Traffic) and for calls (Hy2),
whose identities no action and no property tells apart, and never in a run with a
liveness property.

**Fairness.** Weak fairness per goroutine of Task and Controller: the Go scheduler runs
every runnable goroutine, timers fire, and every Execute returns because each of its
requests has a timeout (`api/panel/panel.go:43`). In NodeSync weak fairness of `Poll`:
the monitor task polls again and again, which `GoroutinesFollowTask` and
`TasksKeepExecuting` establish; the panel and failures are not fair. In Server weak
fairness of the window's end and of each reload, which are timers and a goroutine. In
CertStore weak fairness of each goroutine's next step and of the restart of a process
that has ended (a service manager's); the renewal task executes again and again by
`GoroutinesFollowTask`. In Dispatch weak fairness of the connection's goroutine, whose
timer fires and whose handler (external) reads, and of an UpdateRule that has begun; the
client, the monitor and the handler's end are not fair, so a silent client is among the
behaviours. No strong fairness is assumed anywhere.

## 4. Findings

A run that TLC finds violated, against a line of the repository:

| Run | What the code does | Against |
|---|---|---|
| `node_sync_lost` | a config whose poll fails at the user list is never applied | `node/task.go:174` |

The models also contain, as the code does, the following; the properties are stated so
as to hold with it, under the condition in the last column.

| What the code does | Where | What is left of the property |
|---|---|---|
| a reload that meets a Close may revive its task, which then polls for ever, and the limiter | `node/task.go:157`, `node/task.go:99` | `LifecycleIsSound` excepts these two then (`met`), and holds for any Close |
| a rule that is no regular expression, or a core that does not take the node, ends the process in a reload | `limiter/rule.go:33`, `node/task.go:133` | `NoPanic`, `LifecycleIsSound` name these causes |
| a reload whose certificate fails has deleted the node; the next reload ends the process | `node/task.go:122`, `node/task.go:82` | the same; `CrashNeedsClose`, `OwnUsersConnect` until then |
| a reload that changes the pull interval can leave two goroutines polling | `node/task.go:157` | each task keeps at least one, and all end after Close: `GoroutinesFollowTask` |
| a changed push interval is set to the pull interval | `node/task.go:162` | (modelled in `CheckInterval`, no property) |
| an interval of 0 from the panel makes a task execute without pause | `common/task/task.go:39` | (time is abstract) |
| hysteria2 goes on admitting, unlimited, a user who left the list in the poll of a reload | `core/hy2/node.go:70` | `UsersAreLimited` is for other cores; of this one `CoreInStep` says that who is listed can connect, and `PollFollowsAnswers` that who connects was once listed |
| a named node's limiter is not updated by a reload: its new users are rejected | `node/task.go:99` | `UsersAreLimited` for unnamed nodes |
| a changed device limit is not applied | `node/user.go:65` | `PanelIsFollowed` speaks of speed limits |
| a user whom a reload drops keeps his links and uid on xray and is billed on; with hysteria2 he may still connect | `node/task.go:82` | `LiveLinksAreManaged` says that his links stay in their manager |
| an error answer makes the unchanged config look changed | `api/panel/node.go:163` | no needless reload (in `PollFollowsAnswers`) until a request has failed |
| a refused first connection deletes the user's whole entry, and with it a device that was admitted and recorded in between | `limiter/limiter.go:181` | `ImplementsGate` for calls one at a time |
| behind a shared IP, a device of the last report is refused as new | `limiter/limiter.go:163` | `ImplementsGate` for users that share no IP |
| between two polls any number of IPs is admitted | `limiter/limiter.go:168` | `DeviceGate` compares the panel's last count |
| users without any traffic are reported online | `node/user.go:31` | (online users are not in `Traffic`) |
| UpdateRule under a connection that looks at the rules: a nil pattern ends the process, or a rule that moves is skipped | `limiter/rule.go:31` | `RulesHold`: a rule with its place in every list in force is not passed, and the process ends only during an update |
| with RouteOnly the rules see the sniffed name, which only picks the route; the handler dials the address, of which no rule is asked | `core/xray/app/dispatcher/default.go:341` | `RulesHold` is about the name that rules are asked about |
| a sniffer that needs more data is dropped, so the case that waits for it is never taken | `core/xray/app/dispatcher/sniffer.go:66`, `default.go:499` | (`Look` has it so) |
| a Close during DelUsers ends the process with hysteria2 | `core/hy2/user.go:48` | `RouteFindsNode` for nodes whose own Close met no poll; `CrashNeedsClose` |
| a client's request during a Close, or in a reload's gap, ends the process: the logger panics without a limiter | `core/hy2/logger.go:52` | `CrashNeedsClose` |
| the nodes' map of hysteria2 has no lock: starting or closing a node while another reports may end the process | `core/hy2/node.go:59` | (an outcome of `Hy2`, which nothing prevents) |
| a user on two hysteria2 nodes is lost to both when one deletes him | `core/hy2/user.go:55` | `OwnUsersConnect` for users of one node |
| of a user's calls that overlap any may have the last word: one that is admitted clears the flag by which another was to be cut | `core/hy2/logger.go:60` | `FlagFollowsAnswer`: the flag is what one of those that overlapped was answered |
| of two first connections of an xray user one keeps a manager that DelUsers does not find | `core/xray/app/dispatcher/default.go:198` | `LiveLinksAreManaged` unless that user's connections raced |
| an edit after a reload that failed ends the process | `cmd/server.go:90`, `node/node.go:42` | `ReloadServesConf` if nothing fails |
| reloads that overlap start each other's controllers, leave some that nothing can close, and may end the process | `conf/watch.go:31`, `node/node.go:27` | `NoOrphan`, `ReloadServesConf` if they do not overlap; `FileIsLoaded` if they do |
| an edit within the window, after the file was read, is never loaded | `conf/watch.go:27` | `FileIsLoaded` for paced edits |
| `/**doc*/` leaves characters of the comment, `/***/` does not end | `common/json5/json5.go:36` | `Cleans` for files without a star in a block comment (`Tame`) |
| a pair left half-written is taken for good: a node does not start until someone removes the files | `node/cert.go:43` | `FilesAreKept`, `OldIsRenewed` unless a file was left half-written |
| an account file cut short is an error for ever | `node/lego.go:194` | the same |
| nodes with the same files renew them at the same time and can leave a key beside the other's certificate | `node/lego.go:154` | `FilesAreKept`, `OldIsRenewed` for files of one node |
| with `{domain}` in a path the certificate is written where neither `requestCert` nor the core looks | `node/lego.go:154` | `FilesAreKept` for literal paths |
| a certificate that cannot be parsed counts as one that needs no renewal | `node/lego.go:114` | (such a file is one left half-written) |
| success is logged for a failed reload | `conf/watch.go:45` | (logging is not modelled) |

## 5. Proofs

All theorems hold for every value of the constants, under the named ASSUMEs of the
modules (bounds and counts are naturals, model values differ, kinds of core and contents
of a file are among those the code has, CertStore's nodes are finitely many) and nothing
else; what may fail is part of each property. Every invariant and action property of the
passing runs is proved, and both refinements (`ImplementsGate`, `ImplementsStream`).

**ControllerProofs: Task.** `Inductive` proves an invariant that ties flag, channel and
goroutine together: besides `TypeOK` and `FlagTracksStop` it says that channels are
closed in order, that a goroutine waits only on a channel that exists, and that a running
task has a goroutine that will read the open channel. `RunningHasLoop` alone is not
inductive: a Close and Start during Execute make the old goroutine the one that keeps the
task alive. From it follow `TypeCorrect`, `FlagTracksStopAlways`, `RunningHasLoopAlways`
and, if `~Failing`, `NoDoubleCloseAlways`.

**ControllerProofs: Controller.** The lemma `ControllerUsesTasks` (each action of
Controller is an action of Task or leaves its variables alone, as they are written) lets
the Task theorems carry over: `ControllerRunningHasLoop`, and `ControllerNoDoubleClose`
for `~Failing` (the callbacks of V2bX return nil on every path). `ControllerTypeCorrect`
adds the types of the controller's own variables. `LifecycleIsSoundAlways` assumes
nothing of Close, of what fails, or of how many polls overlap. It rests on `LifeInv`: a
lifecycle call that has begun is on a goroutine that executes (`CallsInv`); before a
controller is open there are none (`EarlyInv`); until a Close and a reload meet, one call
at a time is between DelNode and AddNode, and only there is the core without the node
(`NodeInv`); a node in the core has its limiter unless Close has begun (`LimiterInv`); a
Close that met no reload has closed what lies behind its place, and nothing starts it
again (`EndInv`); and a panic is one of the named (`CrashInv`).

**ControllerProofs: Traffic.** `BytesAreBilledAlways` says that no byte is billed twice,
however connections, reports and deletions overlap, and that each is accounted for if
they do not (for xray and hysteria2, as `EveryByteAccounted` says). The first half rests
on `Billing`. A storage serves one user (`OneOwner`), whatever counters and connections
still hold it, so bytes never pass from one user to another. What a user has produced is
then distributed over its storages (`Budget`): what a storage holds, and what has been
billed or is in the report's slice, draw on disjoint parts of it. Only while the report
has read a storage and not cleared it do the same bytes stand in both, and `Debt` says
how many: this is what goes wrong when the order of reading and clearing changes. The
parts are an existential, not a function of the state, because an addition to a counter
that races with its reset loses bytes or keeps them: how much of the budget a storage
uses is not determined. Sums over storages would need induction; `Covers` has prefix
sums `total` instead, which a step raises or lowers from one storage on. The second
half rests on `TakingTurns`: who has the turn finds the counters and storages that are in
the maps, and `Accounted` is an equation per place of the report. `LiveLinksAlways` is
about any overlap: by `LinkInv` the manager that a connection has found is the one the
maps have for its user, and a link is added to that one, unless the user has raced.

**ConfigProofs: Server.** `NoOrphanAlways`, if reloads do not overlap: one reload at a
time works (`Alone`), and its place says which controllers may still run (`Held`): those
that its Close has not reached, none, or those that its Start has filled in. It covers
any failure at any place. `ReloadServesConfAlways` is for reloads that do not overlap and of which nothing fails:
`CalmServes` says that there is a set of tags that one core, the limiter registry and the
running controllers agree on (`Hosts`), and the place says which tags these are, in the
middle of Close, of a Start or of one controller's Start too (`Stage`, `Busy`). Of
reloads that overlap only `TypeCorrect` is proved, and `FileIsLoaded` checked: what then
runs depends on which of them writes a slot last.

**ConfigProofs: Trim.** `CleansAlways`, for files of any length. What `prep` should do is
stated by `Kinds`, a function defined by recursion, about which nothing is known until it
is shown to exist. The induction that this takes is over the file; here it is done along
the pass: `Pass` says that a labelling exists that follows the recursion up to the index,
and each step extends it by one character. At the end one follows it throughout, so
`Kinds` is one (`KindsLabel`). `Cleaning` then relates the buffer to every such labelling
(`Right`): behind the index it is clean, ahead of it untouched (`Behind`, `Before`), and
the loop that prep is in is the kind of the last character (`Where`); `Pending` is about
the comma that may still turn out to be a trailing one. The proof that this is kept has
one lemma per loop.

**SelectorProofs.** `OneHomeAlways` needs that nothing of a node is hosted until its
monitor adds it (`HomeInv`): only the monitor adds, and a DelNode that succeeds removes
the one home there is. `NodeFindsCoreAlways` (its parts are `OptionsFitCoreAlways` and
`ReloadFindsCoreAlways`) rests on `ChoiceInv`: after the first choice the options name a
type that is decoded, and agree with what the file says, so the choice at a reload is
among the cores of that type. Nothing is assumed of Close or `CoreMayFail`.
`RouteFindsNodeAlways` is about every node that is not in `raced`: of its monitor and
closer one rests while the other acts, so `RouteAt` can say at each place of the one
(`MonitorAt`) or the other (`CloserAt`) whether the node is hosted where its route points
(`Routed`), or nowhere (`Nowhere`). What a step does for one node it does for no other
(`OthersStay`), so the races of one node do no harm to another.

**NodeSyncProofs.** `TypeCorrect` strengthens the types by what the locals of a poll
hold at each place (`LocalsOK`): a diff is that of userList and newU. Its lemma
`DiffLeadsToNew` says that deleting and adding the diff turns the old list's users into
the new list's. `LimiterInStepAlways` is inductive with these types. `NoPanicAlways`
needs where the node is at each place of the poll, and which failure or rule has ended it
(`NodeAt`), and `CoreInStepAlways` and
`UsersAreLimitedAlways` also which users the core has there (`UsersAt`, and `HyUsersAt`
for hysteria2, whose map only grows at a reload): a place names which of the two lists,
or which half of the diff, the core has got to. They are conditional on `faults`, so
that failures at any place are covered by the theorems.
`PollFollowsAnswersAlways` relates what the client remembers of the panel's answers to
what the controller holds: as long as nothing has failed that the property excuses, the
last answer is in use or in the poll's hands (`NodeSeenAt`, `UsersSeenAt`).

**DispatchProofs.** All the run's properties but liveness. `TypeCorrect` goes by groups
of variables (uplink, sniffing, rules, places) and needs `SameLength`: the slice that is
being filled in is as long as its source. `TurnedAwayIsShutAlways` rests on `ShutInv`:
whatever cuts a pipe breaks it for good, so that no step of the client or of CloseAll
opens an abandoned link again. `RulesHoldAlways` is about any overlap with UpdateRule and combines `OneName` (the name
that rules are asked about is the one the connection is routed by), `FilledIn` (a slice
is, element by element, the list that is filled in or nil, and nobody fills one without
nil) and `Passed` (no rule behind the connection matches that stood there in every list
in force).
`ImplementsStreamAlways` is the refinement of `Stream`: its invariant `Numbered` counts
the chunks of a link that is not cut, which are the ones read, cached or still in the
uplink, so that the next one written has the number that `Stream` expects; each action
maps to a step of `Stream` or to a stutter. CacheData is a stutter because taking chunks
out of the uplink and appending them to the cache leaves their concatenation as it was
(`TakeAndRest`); an interrupt, a rule that rejects or the handler's end is a Break,
which keeps the part before the cut.

**Hy2Proofs.** All the run's properties, for any number of nodes, users, connections and
calls, whatever overlaps and whatever certificates fail. `OwnUsersConnectAlways`:
deletions of a node are about users that it may have (`ListsInv`), so that a user of one
node is in the map when that node's monitor says so (`UsersAt`, by place; a bare node
says so only after its next AddUsers). `CrashNeedsCloseAlways`: the maps of nodes and
limiters are determined by the places of the node's own monitor and closer
(`TablesInv`), of which nothing another node does changes any, and a connection is on a
server that listens or was ended by its close (`ConnsInv`). `FlagFollowsAnswerAlways`: a
call that will write a flag has its answer among `flags` (`AnswersInv`), and a flag says
one of these, or there is a live call that will still write it (`FlagAt`), case by case
over what changes a flag, an answer or an entry.

**LimiterProofs.** `NoGhostDeviceAlways` holds however calls, reports and changes of
users overlap. `MapsInv` is what makes it inductive: a map that is installed for a user
was made by a connection of that user, and whoever is in it came with a connection that
has stored its IP and was not refused. `ImplementsGateAlways` is the refinement of
`DeviceGate`, for users that share no IP and calls that take turns: `TurnsInv` says that
one call at a time has begun, UpdateUser included (`WholeInv`), that what it has read is
still so (`CallAt`), that a device
is in one of the two tables only, and that a report has taken out what it has passed
(`DevicesAt`). The first step of a call decides nothing; the one that admits or refuses
maps to the gate's Admit or Refuse, the end of a report to its Report, and every other
step to a stutter.

**CertStoreProofs.** `FilesAreKeptAlways`, for any number of nodes, failures and crashes,
at any place. For the account, `AccountInv`: as long as there is no account file, no
node has started, so that of all goroutines one at most is registering, and each account that the
CA has been asked for in vain stands for a failure or a crash (`Unregistered`); a file cut short has a goroutine that
will complete it, or is `lost`. For the pair of a node whose files nobody shares,
`PairInv`: before the node is started (`DownPair`) a key that is on file belongs to the
certificate, and is written only where there was none; once it is (`UpPair`), both files
exist, requestCert does nothing, and the renewal alone writes. So a stop that leaves a
pair that does not match was inside the renewal's writes or the first key's, which is
what `lost` records.

## 6. Model-checked only

- Liveness under fairness (`GoroutinesFollowTask`, `TasksKeepExecuting`, `OldIsRenewed`,
  `PanelIsFollowed`, `FileIsLoaded`, `ConnectionSettles`): beyond the prover, as is
  ENABLED.

## 7. Not modelled

- Speed limits (`CheckLimit`'s buckets, `common/rate`) and the dynamic speed limit,
  whose task is made and never started (`node/task.go:44`); so is the deletion by which
  CheckLimit ends one (`limiter/limiter.go:144`).
- What a rule's regular expression matches, and what a protocol sniffer recognises: a
  name or a result, chosen freely. DNS, the fake DNS pool and the router's choice are
  external.
- Of certificates: what the challenges do, the mode "file", which writes nothing, an
  account of another email. In Controller, NodeSync and Hy2 a failing certificate is an
  outcome of a call.
- Decoding of the configuration and of the panel's answers field by field; a file or an
  answer is a value, and may be one that cannot be decoded. `Trim` is what happens to
  the file's text before.
- The builders that turn settings into configurations of xray, sing-box and hysteria2:
  pure translation into types of external libraries.
- Generated code, imports, and one-shot command line tools.
- Several nodes sharing sing-box's uid map, and traffic of several hysteria2 nodes:
  Traffic and NodeSync have one node, Hy2, Selector, Server and CertStore several.
  Several connections of one LinkManager: Traffic has them, with CloseAll in one step;
  Dispatch has its steps, with one connection.
- The client's retry of requests (`api/panel/panel.go:42`): what a repeated push does is
  the panel's.
- What the libraries do: sync.Map operations are atomic; sing-box's and hysteria's
  treatment of open connections of deleted users is left open.

## 8. Plan

The modules were written in the order of what relies on what: Task, Controller, NodeSync
(core of the system), then Limiter with its abstract gate, Traffic, Server, Selector,
CertStore, then Dispatch with its abstract stream, Hy2 and Trim, and the proofs of Task,
Controller, Selector, NodeSync, Dispatch, Hy2, Limiter, CertStore, Traffic, Server and
Trim. Left, in this order:

1. **SpeedBucket**: LoadOrStore followed by Store in CheckLimit against UpdateUser's
   Delete; `determineSpeedLimit` against a reference definition.
2. **LinkManager** with several connections, split into map operations: CloseAll without
   the lock.
3. **UidMap**: several nodes on one sing-box core, whose uid map is keyed by the user
   alone (`core/sing/user.go:210`), against billing.
