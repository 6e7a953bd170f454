------------------------------- MODULE Traffic -------------------------------
(***************************************************************************)
(* How a node's bytes become the panel's bill.  A connection finds or makes *)
(* the tag's TrafficCounter and in it the user's TrafficStorage, and adds   *)
(* what it carries; the report task reads and clears the storages while     *)
(* connections add to them; users are deleted and added meanwhile.          *)
(*                                                                          *)
(* counter = c is the TrafficCounter that connection c has stored, entry[c] *)
(* the map in it; storages have numbers, which are taken anew when nothing  *)
(* refers to them any more.  The three cores share the counters and the     *)
(* report, and differ in who makes storages and what a deletion does:       *)
(* xray resolves once per connection and closes a deleted user's links,     *)
(* sing resolves once and leaves connections to its inbound (external: they *)
(* may go on), hysteria2 resolves at each call.                             *)
(* One tag; its users are those of one core (uids are never 0).             *)
(***************************************************************************)
EXTENDS Naturals, FiniteSets

CONSTANTS
    Users, Conns,
    Kinds,      \* the cores considered, among "xray", "sing", "hy2"
    MinReport,  \* nodeReportMinTrafficBytes
    MayLose,    \* whether a push to the panel may fail
    None,
    MaxStores, MaxBytes, MaxEdits \* bounds

ASSUME NoneIsNew == None \notin Conns \cup Users /\ None \notin Nat
ASSUME KindsAssumption == Kinds \subseteq {"xray", "sing", "hy2"}
ASSUME TrafficBounds == MaxStores \in Nat /\ MaxBytes \in Nat /\ MaxEdits \in Nat

VARIABLES
    kind,              \* the core
    serial,            \* in this behaviour connecting, transferring, reporting and editing take turns
    listed, known,     \* the controller's userList, which xray's and sing's inbounds have; uidMap (usersMap)
    managers, links,   \* xray: LinkManagers; the links in each manager
    counter, entry,    \* the tag's TrafficCounter; the storages in each counter
    up, down,          \* bytes in each storage
    stage, user, mgr, ctr, store, \* of each connection: place, user, what it has found
    cut,               \* connections whose link was closed
    raced,             \* xray: users of whose connections one has replaced another's manager, or
                       \*   whom DelUsers has met between a Load and an AddLink (history)
    forgetting,        \* hysteria2: a user whose counter DelUsers has deleted so far
    rep, slice,        \* the report task: its place, and the bytes it has taken
    produced, billed, dropped, \* history
    edits

fixed == <<kind, serial>>
userMaps == <<listed, known, forgetting>>
linkMaps == <<managers, links, cut, raced>>
counters == <<counter, entry, up, down>>
conns == <<stage, user, mgr, ctr, store>>
report == <<rep, slice>>
history == <<produced, billed, dropped>>
trafficVars == <<fixed, userMaps, linkMaps, counters, conns, report, history, edits>>

Stores == 1..MaxStores
Zero == [u \in Users |-> 0]
Idle == [at |-> "idle", left |-> {}, ctr |-> None, user |-> None, store |-> None, up |-> 0]

TrafficInit ==
    /\ kind \in Kinds /\ serial \in BOOLEAN
    /\ listed = Users /\ known = Users /\ forgetting = None
    /\ managers = [u \in Users |-> None] /\ links = [c \in Conns |-> {}] /\ cut = {} /\ raced = {}
    /\ counter = None /\ entry = [c \in Conns |-> [u \in Users |-> None]]
    /\ up = [s \in Stores |-> 0] /\ down = [s \in Stores |-> 0]
    /\ stage = [c \in Conns |-> "new"] /\ user \in [Conns -> Users]
    /\ mgr = [c \in Conns |-> None] /\ ctr = [c \in Conns |-> None] /\ store = [c \in Conns |-> None]
    /\ rep = Idle /\ slice = Zero
    /\ produced = Zero /\ billed = Zero /\ dropped = Zero
    /\ edits = 0

Resting == {"new", "open", "closed"}
Connecting == {c \in Conns : stage[c] \notin Resting}
Linking == {c \in Conns : stage[c] \in {"manager", "newManager", "link"}}
Locked == rep.at \in {"range", "down", "resetUp", "resetDown"}  \* mapLock.RLock
Alone(c) == serial => Connecting \subseteq {c} /\ rep.at = "idle" /\ forgetting = None

-----------------------------------------------------------------------------
\* A connection.  The limiter has admitted it (module Limiter).

Enter(c, place) == stage' = [stage EXCEPT ![c] = place]

\* getLink, RoutedConnection, or hysteria2's Authenticate and Connect
Admit(c) ==
    /\ stage[c] = "new" /\ Alone(c)
    /\ user[c] \in (IF kind = "hy2" THEN known ELSE listed)
    /\ Enter(c, CASE kind = "xray" -> "manager" [] kind = "sing" -> "counter" [] kind = "hy2" -> "open")
    /\ UNCHANGED <<fixed, userMaps, linkMaps, counters, user, mgr, ctr, store, report, history, edits>>

\* Mutant: a manager that is not there is used.
LoadManager_Unchecked(c) ==
    /\ stage[c] = "manager" /\ Enter(c, "link")
    /\ mgr' = [mgr EXCEPT ![c] = managers[user[c]]]
    /\ UNCHANGED <<fixed, userMaps, linkMaps, counters, user, ctr, store, report, history, edits>>

\* LinkManagers.Load, and Store if there was none: not one step
LoadManager(c) ==
    /\ stage[c] = "manager"
    /\ LET m == managers[user[c]]
       IN  mgr' = [mgr EXCEPT ![c] = m] /\ Enter(c, IF m = None THEN "newManager" ELSE "link")
    /\ UNCHANGED <<fixed, userMaps, linkMaps, counters, user, ctr, store, report, history, edits>>

StoreManager(c) ==
    /\ stage[c] = "newManager"
    /\ managers' = [managers EXCEPT ![user[c]] = c]
    /\ raced' = IF managers[user[c]] = None THEN raced ELSE raced \cup {user[c]}
    /\ mgr' = [mgr EXCEPT ![c] = c]
    /\ Enter(c, "link")
    /\ UNCHANGED <<fixed, userMaps, links, cut, counters, user, ctr, store, report, history, edits>>

AddLink(c) ==
    /\ stage[c] = "link"
    /\ links' = [links EXCEPT ![mgr[c]] = @ \cup {c}]
    /\ Enter(c, "counter")
    /\ UNCHANGED <<fixed, userMaps, managers, cut, raced, counters, user, mgr, ctr, store, report, history, edits>>

\* hysteria2 calls LogTraffic for what a stream has carried
LogTraffic(c) ==
    /\ kind = "hy2" /\ stage[c] = "open" /\ c \notin cut /\ Alone(c)
    /\ Enter(c, "counter")
    /\ UNCHANGED <<fixed, userMaps, linkMaps, counters, user, mgr, ctr, store, report, history, edits>>

\* Counter.Load(tag), and Store if there was none: not one step
LoadCounter(c) ==
    /\ stage[c] = "counter"
    /\ ctr' = [ctr EXCEPT ![c] = counter]
    /\ Enter(c, IF counter = None THEN "newCounter" ELSE "storage")
    /\ UNCHANGED <<fixed, userMaps, linkMaps, counters, user, mgr, store, report, history, edits>>

StoreCounter(c) ==
    /\ stage[c] = "newCounter"
    /\ counter' = c
    /\ entry' = [entry EXCEPT ![c] = [u \in Users |-> None]]
    /\ ctr' = [ctr EXCEPT ![c] = c]
    /\ Enter(c, "storage")
    /\ UNCHANGED <<fixed, userMaps, linkMaps, up, down, user, mgr, store, report, history, edits>>

\* TrafficCounter.GetCounter: LoadOrStore of a new storage
Referred == {store[c] : c \in Conns} \cup {rep.store} \cup UNION {{entry[c][u] : u \in Users} : c \in Conns}
Free == Stores \ Referred

GetCounter(c) ==
    /\ stage[c] = "storage"
    /\ LET s == entry[ctr[c]][user[c]]
       IN  \/ /\ s # None
              /\ store' = [store EXCEPT ![c] = s]
              /\ UNCHANGED <<entry, up, down>>
           \/ /\ s = None /\ Free # {}
              /\ LET new == CHOOSE n \in Free : TRUE
                 IN  /\ store' = [store EXCEPT ![c] = new]
                     /\ entry' = [entry EXCEPT ![ctr[c]][user[c]] = new]
                     /\ up' = [up EXCEPT ![new] = 0] /\ down' = [down EXCEPT ![new] = 0]
    /\ Enter(c, IF kind = "hy2" THEN "add" ELSE "open")
    /\ UNCHANGED <<fixed, userMaps, linkMaps, counter, user, mgr, ctr, report, history, edits>>

\* A byte goes up or down.  (A byte is whatever a test of MinReport can tell.)
Add(c) ==
    /\ produced[user[c]] < MaxBytes
    /\ produced' = [produced EXCEPT ![user[c]] = @ + 1]
    /\ \/ up' = [up EXCEPT ![store[c]] = @ + 1] /\ UNCHANGED down
       \/ down' = [down EXCEPT ![store[c]] = @ + 1] /\ UNCHANGED up

Transfer(c) ==
    /\ \/ kind # "hy2" /\ stage[c] = "open" /\ c \notin cut /\ Alone(c) /\ UNCHANGED <<stage, store>>
       \/ stage[c] = "add" /\ Enter(c, "open") /\ store' = [store EXCEPT ![c] = None]
    /\ Add(c)
    /\ UNCHANGED <<fixed, userMaps, linkMaps, counter, entry, user, mgr, ctr, report,
                   billed, dropped, edits>>

\* The peer leaves; for xray the writer is closed and leaves its manager.
Disconnect(c) ==
    /\ stage[c] = "open" /\ Alone(c)
    /\ Enter(c, "closed")
    /\ store' = [store EXCEPT ![c] = None]
    /\ links' = IF kind = "xray" THEN [links EXCEPT ![mgr[c]] = @ \ {c}] ELSE links
    /\ UNCHANGED <<fixed, userMaps, managers, cut, raced, counters, user, mgr, ctr, report, history, edits>>

Connection(c) ==
    \/ Admit(c) \/ LoadManager(c) \/ StoreManager(c) \/ AddLink(c)
    \/ LogTraffic(c) \/ LoadCounter(c) \/ StoreCounter(c) \/ GetCounter(c)
    \/ Transfer(c) \/ Disconnect(c)

-----------------------------------------------------------------------------
\* reportUserTrafficTask

\* The storage that the next report will find for u, and the bytes in it
StorageOf(u) == IF counter = None THEN None ELSE entry[counter][u]
Unreported(u) == IF StorageOf(u) = None THEN 0 ELSE up[StorageOf(u)] + down[StorageOf(u)]

BeginReport ==
    /\ rep.at = "idle" /\ (serial => Connecting = {} /\ forgetting = None)
    /\ rep' = IF counter = None THEN [Idle EXCEPT !.at = "push"]
              ELSE [Idle EXCEPT !.at = "range", !.left = Users, !.ctr = counter]
    /\ UNCHANGED <<fixed, userMaps, linkMaps, counters, conns, slice, history, edits>>

\* Range visits each storage once; UpCounter.Load
LoadUp(u) ==
    /\ rep.at = "range" /\ u \in rep.left
    /\ LET s == entry[rep.ctr][u]
       IN  rep' = IF s = None THEN [rep EXCEPT !.left = @ \ {u}]
                  ELSE [rep EXCEPT !.at = "down", !.left = @ \ {u}, !.user = u, !.store = s, !.up = up[s]]
    /\ UNCHANGED <<fixed, userMaps, linkMaps, counters, conns, slice, history, edits>>

\* Mutant: the upload is not cleared.
ResetUp_Skipped ==
    /\ rep.at = "resetUp"
    /\ rep' = [rep EXCEPT !.at = "resetDown"]
    /\ UNCHANGED <<fixed, userMaps, linkMaps, counters, conns, slice, history, edits>>

\* DownCounter.Load, and the threshold
LoadDown ==
    /\ rep.at = "down"
    /\ LET sum == rep.up + down[rep.store]
       IN  IF sum > MinReport
           THEN /\ slice' = [slice EXCEPT ![rep.user] = sum]
                /\ rep' = [rep EXCEPT !.at = "resetUp"]
           ELSE /\ rep' = [rep EXCEPT !.at = "range"]
                /\ UNCHANGED slice
    /\ UNCHANGED <<fixed, userMaps, linkMaps, counters, conns, history, edits>>

ResetUp ==
    /\ rep.at = "resetUp"
    /\ up' = [up EXCEPT ![rep.store] = 0]
    /\ rep' = [rep EXCEPT !.at = "resetDown"]
    /\ UNCHANGED <<fixed, userMaps, linkMaps, counter, entry, down, conns, slice, history, edits>>

\* DownCounter.Store(0).  What a user without uid has used is dropped with
\* its storage.
ResetDown ==
    /\ rep.at = "resetDown"
    /\ down' = [down EXCEPT ![rep.store] = 0]
    /\ IF rep.user \in known THEN UNCHANGED <<entry, slice, dropped>>
       ELSE /\ entry' = [entry EXCEPT ![rep.ctr][rep.user] = None]
            /\ dropped' = [dropped EXCEPT ![rep.user] = @ + slice[rep.user]]
            /\ slice' = [slice EXCEPT ![rep.user] = 0]
    /\ rep' = [rep EXCEPT !.at = "range"]
    /\ UNCHANGED <<fixed, userMaps, linkMaps, counter, up, conns, produced, billed, edits>>

EndRange ==
    /\ rep.at = "range" /\ rep.left = {}
    /\ rep' = [Idle EXCEPT !.at = "push"]
    /\ UNCHANGED <<fixed, userMaps, linkMaps, counters, conns, slice, history, edits>>

\* A failed push is logged, its bytes are not put back.
ReportUserTraffic ==
    /\ rep.at = "push"
    /\ \/ billed' = [u \in Users |-> billed[u] + slice[u]] /\ UNCHANGED dropped
       \/ MayLose /\ slice # Zero /\ dropped' = [u \in Users |-> dropped[u] + slice[u]] /\ UNCHANGED billed
    /\ rep' = [Idle EXCEPT !.at = "online"]
    /\ UNCHANGED <<fixed, userMaps, linkMaps, counters, conns, slice, produced, edits>>

\* GetOnlineDevice (module Limiter) and ReportNodeOnlineUsers, whose errors
\* are logged, change nothing here; the next period starts with a new slice.
ReportOnline ==
    /\ rep.at = "online"
    /\ rep' = Idle /\ slice' = Zero
    /\ UNCHANGED <<fixed, userMaps, linkMaps, counters, conns, produced, billed, dropped, edits>>

Report ==
    \/ BeginReport \/ (\E u \in Users : LoadUp(u)) \/ LoadDown \/ ResetUp \/ ResetDown \/ EndRange
    \/ ReportUserTraffic \/ ReportOnline

-----------------------------------------------------------------------------
\* nodeInfoMonitor's calls into the core

Edit ==
    /\ edits < MaxEdits /\ edits' = edits + 1
    /\ serial => Connecting = {} /\ rep.at = "idle"

\* TrafficCounter.Delete: what u has not been billed for goes with it.
DropCounter(u) ==
    /\ entry' = IF counter = None THEN entry ELSE [entry EXCEPT ![counter][u] = None]
    /\ dropped' = [dropped EXCEPT ![u] = @ + Unreported(u)]

MeetsLinking(u) == raced' = IF \E c \in Linking : user[c] = u THEN raced \cup {u} ELSE raced

\* Mutant: the links of a deleted user are not closed.
XrayDelUsers_KeepsLinks(u) ==
    /\ kind = "xray" /\ u \in listed /\ ~Locked /\ Edit
    /\ listed' = listed \ {u} /\ known' = known \ {u}
    /\ DropCounter(u)
    /\ managers' = [managers EXCEPT ![u] = None]
    /\ MeetsLinking(u)
    /\ UNCHANGED <<fixed, forgetting, links, cut, counter, up, down, conns, report, produced, billed>>

XrayDelUsers(u) ==
    /\ kind = "xray" /\ u \in listed /\ ~Locked /\ Edit
    /\ listed' = listed \ {u} /\ known' = known \ {u}
    /\ DropCounter(u)
    /\ MeetsLinking(u)
    /\ IF managers[u] = None THEN UNCHANGED <<managers, links, cut>>
       ELSE /\ cut' = cut \cup links[managers[u]]
            /\ links' = [links EXCEPT ![managers[u]] = {}]
            /\ managers' = [managers EXCEPT ![u] = None]
    /\ UNCHANGED <<fixed, forgetting, counter, up, down, conns, report, produced, billed>>

SingDelUsers(u) ==
    /\ kind = "sing" /\ u \in listed /\ ~Locked /\ Edit
    /\ DropCounter(u)
    /\ listed' = listed \ {u} /\ known' = known \ {u}
    /\ UNCHANGED <<fixed, forgetting, linkMaps, counter, up, down, conns, report, produced, billed>>

\* hysteria2 deletes the counter without a lock, the user under the lock.
Hy2DelCounter(u) ==
    /\ kind = "hy2" /\ u \in listed /\ forgetting = None /\ Edit
    /\ DropCounter(u)
    /\ forgetting' = u
    /\ UNCHANGED <<fixed, listed, known, linkMaps, counter, up, down, conns, report, produced, billed>>

Hy2DelAuth ==
    /\ forgetting # None /\ ~Locked
    /\ listed' = listed \ {forgetting} /\ known' = known \ {forgetting}
    /\ forgetting' = None
    /\ UNCHANGED <<fixed, linkMaps, counters, conns, report, history, edits>>

AddUsers(u) ==
    /\ u \notin listed /\ ~Locked /\ Edit
    /\ known' = known \cup {u} /\ listed' = listed \cup {u}
    /\ UNCHANGED <<fixed, forgetting, linkMaps, counters, conns, report, history>>

\* DelNode, AddNode, and AddUsers of a new list, which no DelUsers precedes:
\* whom the list drops stays in uidMap, and so with hysteria2 may still connect.
\* sing forgets the tag's counter; hysteria2 closes the server, with its
\* connections and its counter (a LogTraffic under way adds to a counter
\* that nobody reads); xray keeps the counter, the links and their managers.
Reload ==
    /\ forgetting = None /\ Edit
    /\ \E list \in SUBSET Users :
          /\ Locked => list \subseteq known
          /\ listed' = list /\ known' = known \cup list
    /\ IF kind = "xray" THEN UNCHANGED <<counter, dropped>>
       ELSE counter' = None /\ dropped' = [u \in Users |-> dropped[u] + Unreported(u)]
    /\ IF kind # "hy2" THEN UNCHANGED <<cut, stage, store>>
       ELSE /\ cut' = {c \in Conns : stage[c] # "new"}
            /\ stage' = [c \in Conns |-> IF c \in Connecting THEN "open" ELSE stage[c]]
            /\ store' = [c \in Conns |-> None]
    /\ UNCHANGED <<fixed, forgetting, managers, links, raced, entry, up, down, user, mgr, ctr, report, produced, billed>>

Changes ==
    \/ \E u \in Users : XrayDelUsers(u) \/ SingDelUsers(u) \/ Hy2DelCounter(u) \/ AddUsers(u)
    \/ Hy2DelAuth \/ Reload

TrafficNext == (\E c \in Conns : Connection(c)) \/ Report \/ Changes

TrafficSpec == TrafficInit /\ [][TrafficNext]_trafficVars

-----------------------------------------------------------------------------
\* Properties

Finding == {"storage", "add"}
TrafficTypeOK ==
    /\ kind \in Kinds /\ serial \in BOOLEAN
    /\ listed \subseteq known /\ known \subseteq Users /\ forgetting \in Users \cup {None}
    /\ managers \in [Users -> Conns \cup {None}] /\ links \in [Conns -> SUBSET Conns]
    /\ cut \subseteq Conns /\ raced \subseteq Users
    /\ counter \in Conns \cup {None} /\ entry \in [Conns -> [Users -> Stores \cup {None}]]
    /\ up \in [Stores -> Nat] /\ down \in [Stores -> Nat]
    /\ user \in [Conns -> Users]
    /\ \A c \in Conns :
        /\ stage[c] \in Resting \cup Finding \cup {"manager", "newManager", "link", "counter", "newCounter"}
        /\ mgr[c] \in Conns \/ (mgr[c] = None /\ stage[c] # "link")
        /\ ctr[c] \in Conns \/ (ctr[c] = None /\ stage[c] \notin Finding)
        /\ store[c] \in Stores \/ (store[c] = None /\ stage[c] # "add")
    /\ rep \in [at : {"idle", "range", "down", "resetUp", "resetDown", "push", "online"},
                left : SUBSET Users, ctr : Conns \cup {None}, user : Users \cup {None},
                store : Stores \cup {None}, up : 0..MaxBytes]
    /\ slice \in [Users -> 0..MaxBytes] /\ produced \in [Users -> 0..MaxBytes]
    /\ dropped \in [Users -> Nat] /\ billed \in [Users -> Nat]
    /\ edits \in 0..MaxEdits

\* However bytes, deletions and reports overlap, the panel is not told of a
\* byte twice.
NoByteBilledTwice == \A u \in Users : billed[u] <= produced[u]

\* When nothing overlaps, each byte is billed, or waits where the next report
\* will find it, or was dropped in a way the code has chosen: a failed push,
\* or what a deleted user or a deleted node had not been billed for.
EveryByteAccounted ==
    serial /\ kind # "sing" /\ rep.at = "idle" => \A u \in Users : produced[u] = billed[u] + dropped[u] + Unreported(u)

\* A byte is billed at most once, and as long as nothing overlaps, exactly once.
BytesAreBilled == NoByteBilledTwice /\ EveryByteAccounted

\* Every link of xray that still carries bytes is one that deleting its user would
\* close, and its user has a uid to be billed by: a deleted user keeps none, not
\* even when it is added again, whatever reports, reloads and other users'
\* connections do meanwhile.  What loses a link is a second first connection of the
\* same user, or a DelUsers before AddLink (raced).  A user whom a reload has
\* dropped keeps his links (Reload), billed and in their manager as before.
LiveLinksAreManaged ==
    kind = "xray" => \A c \in Conns : stage[c] = "open" /\ c \notin cut /\ user[c] \notin raced =>
        user[c] \in known /\ managers[user[c]] # None /\ c \in links[managers[user[c]]]
=============================================================================
