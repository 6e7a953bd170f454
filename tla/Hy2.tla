--------------------------------- MODULE Hy2 ---------------------------------
(***************************************************************************)
(* Several nodes on one hysteria2 core.  They share the core's map of nodes *)
(* (Hy2nodes, which has no lock) and its map of users (Auth.usersMap, which *)
(* has one and is keyed by the user alone).  Each node has a limiter, a     *)
(* monitor (Start, and then nodeInfoMonitor) and may be closed meanwhile;   *)
(* hysteria's server (external) asks Authenticate, tells the logger of      *)
(* connections and requests, and calls LogTraffic for bytes.                *)
(*                                                                          *)
(* Nodes are unnamed and the core is the only one, so that no selector      *)
(* stands between.  Which device CheckLimit admits is module Limiter's: for *)
(* a user that the limiter knows its answer is left open.                   *)
(***************************************************************************)
EXTENDS Naturals, FiniteSets

CONSTANTS
    Nodes, Users, Conns,
    Calls,       \* calls of the logger that may be under way at once
    Homes,       \* the nodes on whose lists a user may ever be
    UserOf, ServerOf, \* of each connection: its user, and the node that its client dials
    MaxOps,      \* bound on changes by the panel and closes
    None

ASSUME NoneAssumption == None \notin Nodes \cup Users \cup {"admitted", "refused"}
ASSUME HomesAssumption == Homes \in [Users -> SUBSET Nodes]
ASSUME ClientsAssumption == UserOf \in [Conns -> Users] /\ ServerOf \in [Conns -> Nodes]
ASSUME MaxOpsAssumption == MaxOps \in Nat

VARIABLES
    monitor,      \* of each node: the place of Start or nodeInfoMonitor ...
    listed,       \* ... userList; at a change the new one, deleted and added
    fresh, deleted, added,
    todo,         \* ... users whose goroutine of AddUsers or DelUsers has not run
    booted,       \* nodes whose Start has returned
    bare,         \* nodes whose last reload has stopped at the certificate
    closer,       \* Controller.Close of each node: "no", "begun", "unstore", "done"
    back,         \* nodes that a reload has finished although Close had begun
    nodes, serving, \* Hy2nodes; nodes whose server listens
    users,        \* Auth.usersMap
    limited, known, over, \* tags with a limiter; users in it; those with OverLimit
    open,         \* connections that hysteria has not ended
    at, tag, uuid, answer, \* of each call of the logger: its place, node and user, and CheckLimit's answer
    stale,        \* calls that hold a limiter or an entry which has been replaced
    flags,        \* history: the answers that OverLimit of a user may stand for when the calls
                  \*   under way have returned; a new or cleared flag stands for "admitted"
    crashed, blamed, \* how the process has ended, and for which node
    ops

lists == <<listed, fresh, deleted, added, todo>>
control == <<monitor, booted, bare, closer, back>>
core == <<nodes, serving, users>>
limiter == <<limited, known, over>>
calls == <<at, tag, uuid, answer, stale>>
ending == <<crashed, blamed>>
vars == <<lists, control, core, limiter, open, calls, flags, ending, ops>>

Possible(n) == {u \in Users : n \in Homes[u]}

Init ==
    /\ monitor = [n \in Nodes |-> "off"] /\ closer = [n \in Nodes |-> "no"]
    /\ booted = {} /\ bare = {} /\ back = {}
    /\ listed \in [Nodes -> SUBSET Users \ {{}}] /\ fresh = listed
    /\ \A n \in Nodes : listed[n] \subseteq Possible(n)
    /\ deleted = [n \in Nodes |-> {}] /\ added = [n \in Nodes |-> {}] /\ todo = [n \in Nodes |-> {}]
    /\ nodes = {} /\ serving = {} /\ users = {}
    /\ limited = {} /\ known = [n \in Nodes |-> {}] /\ over = [n \in Nodes |-> {}]
    /\ open = {}
    /\ at = [k \in Calls |-> "none"] /\ stale = {}
    /\ tag = [k \in Calls |-> None] /\ uuid = [k \in Calls |-> None] /\ answer = [k \in Calls |-> None]
    /\ flags = [n \in Nodes |-> [u \in Users |-> {"admitted"}]]
    /\ crashed = "no" /\ blamed = None /\ ops = 0

Goto(n, place) == monitor' = [monitor EXCEPT ![n] = place]
Crash(why, n) == crashed' = why /\ blamed' = n

\* A call for u is under way at n.
Busy(n, u) == \E k \in Calls : at[k] # "none" /\ tag[k] = n /\ uuid[k] = u

\* These users of n have lost their flags, which calls under way may set again.
Clear(n, us) ==
    flags' = [flags EXCEPT ![n] = [u \in Users |->
                 IF u \notin us THEN flags[n][u]
                 ELSE IF Busy(n, u) THEN flags[n][u] \cup {"admitted"} ELSE {"admitted"}]]

-----------------------------------------------------------------------------
\* The monitor of node n

\* Starts come one after the other (module Server).  The new limiter has new
\* entries; calls under way hold the old ones.
AddLimiter(n) ==
    /\ monitor[n] \in {"off", "limiter"} /\ Goto(n, "cert")
    /\ monitor[n] = "off" => \A m \in Nodes : monitor[m] = "off" \/ m \in booted
    /\ limited' = limited \cup {n} /\ known' = [known EXCEPT ![n] = listed[n]]
    /\ over' = [over EXCEPT ![n] = {}]
    /\ Clear(n, Users)
    /\ stale' = stale \cup {k \in Calls : tag[k] = n /\ at[k] \in {"load", "write"}}
    /\ UNCHANGED <<lists, booted, bare, closer, back, core, open, at, tag, uuid, answer, ending, ops>>

\* requestCert, which hysteria2 always needs.  When it fails, the poll returns
\* with the node deleted; a Start returns its error, which ends the command.
\* (So do, before it, a rule that does not compile.)
RequestCert(n) ==
    /\ monitor[n] = "cert"
    /\ \/ Goto(n, "addNode") /\ UNCHANGED <<bare, ending>>
       \/ n \in booted /\ Goto(n, "idle") /\ bare' = bare \cup {n} /\ UNCHANGED ending
       \/ Crash("failed", n) /\ UNCHANGED <<monitor, bare>>
    /\ UNCHANGED <<lists, booted, closer, back, core, limiter, open, calls, flags, ops>>

\* Places at which the monitor, or the report task, looks into Hy2nodes
Reads(n) == monitor[n] \in {"addNode", "delNode"} \/ (monitor[n] = "delUsers" /\ todo[n] # {})
            \/ (n \in booted /\ closer[n] \in {"no", "begun"})

\* A write of Hy2nodes is under way: AddNode's, or the delete of DelNode.  A map
\* that is written while it is read or written may end the process.
Writing == \E n \in Nodes : monitor[n] \in {"store", "unstore"} \/ closer[n] = "unstore"
Racing(n) ==
    /\ Reads(n) /\ Writing /\ Crash("map", None)
    /\ UNCHANGED <<lists, control, core, limiter, open, calls, flags, ops>>

\* AddNode; that it fails ends the process, at a Start and in a poll.
AddNode(n) ==
    /\ monitor[n] = "addNode"
    /\ \/ Goto(n, "store") /\ UNCHANGED ending
       \/ Crash("failed", n) /\ UNCHANGED monitor
    /\ UNCHANGED <<lists, booted, bare, closer, back, core, limiter, open, calls, flags, ops>>

\* The reload of a node may outlive its Close: here, and by its Start(false).
Outlive(n) == back' = IF closer[n] = "no" THEN back ELSE back \cup {n}

StoreNode(n) ==
    /\ monitor[n] = "store" /\ Goto(n, "addUsers")
    /\ nodes' = nodes \cup {n} /\ serving' = serving \cup {n} /\ Outlive(n)
    /\ todo' = [todo EXCEPT ![n] = listed[n]]
    /\ UNCHANGED <<listed, fresh, deleted, added, booted, bare, closer, users, limiter, open, calls, flags,
                   ending, ops>>

\* One of the goroutines of AddUsers
AddUser(n, u) ==
    /\ monitor[n] \in {"addUsers", "addChanged"} /\ u \in todo[n]
    /\ users' = users \cup {u} /\ todo' = [todo EXCEPT ![n] = @ \ {u}]
    /\ UNCHANGED <<listed, fresh, deleted, added, control, nodes, serving, limiter, open, calls, flags,
                   ending, ops>>

UsersAdded(n) ==
    /\ monitor[n] = "addUsers" /\ todo[n] = {}
    /\ Goto(n, "idle") /\ booted' = booted \cup {n} /\ Outlive(n)
    /\ UNCHANGED <<lists, bare, closer, core, limiter, open, calls, flags, ending, ops>>

\* A poll of a closed node comes only after such a reload.
Poll(n) ==
    /\ monitor[n] = "idle" /\ (closer[n] = "no" \/ n \in back)
    /\ ops < MaxOps /\ ops' = ops + 1

\* compareUserList: of the new list, some have another speed limit.
Diff(n, new, changed) == [gone |-> (listed[n] \ new) \cup changed, come |-> (new \ listed[n]) \cup changed]

\* Mutant: the two answers of compareUserList are taken for each other.
ChangeUsers_Swapped(n, new, changed) ==
    /\ Poll(n) /\ Goto(n, "delUsers")
    /\ fresh' = [fresh EXCEPT ![n] = new]
    /\ deleted' = [deleted EXCEPT ![n] = Diff(n, new, changed).come] /\ todo' = [todo EXCEPT ![n] = deleted'[n]]
    /\ added' = [added EXCEPT ![n] = Diff(n, new, changed).gone]
    /\ UNCHANGED <<listed, booted, bare, closer, back, core, limiter, open, calls, flags, ending>>

ChangeUsers(n, new, changed) ==
    /\ Poll(n) /\ Goto(n, "delUsers")
    /\ fresh' = [fresh EXCEPT ![n] = new]
    /\ deleted' = [deleted EXCEPT ![n] = Diff(n, new, changed).gone] /\ todo' = [todo EXCEPT ![n] = deleted'[n]]
    /\ added' = [added EXCEPT ![n] = Diff(n, new, changed).come]
    /\ UNCHANGED <<listed, booted, bare, closer, back, core, limiter, open, calls, flags, ending>>

\* DelUsers takes the node's logger from the map, for each user.
DelUser(n, u) ==
    /\ monitor[n] = "delUsers" /\ u \in todo[n]
    /\ IF n \in nodes THEN users' = users \ {u} /\ todo' = [todo EXCEPT ![n] = @ \ {u}] /\ UNCHANGED ending
       ELSE Crash("node", n) /\ UNCHANGED <<users, todo>>
    /\ UNCHANGED <<listed, fresh, deleted, added, control, nodes, serving, limiter, open, calls, flags, ops>>

UsersDeleted(n) ==
    /\ monitor[n] = "delUsers" /\ todo[n] = {} /\ Goto(n, "addChanged")
    /\ todo' = [todo EXCEPT ![n] = added[n]]
    /\ UNCHANGED <<listed, fresh, deleted, added, booted, bare, closer, back, core, limiter, open, calls, flags,
                   ending, ops>>

\* UpdateUser: first the entries of the deleted go, under a call that holds one,
DeleteEntries(n) ==
    /\ monitor[n] = "addChanged" /\ todo[n] = {} /\ Goto(n, "storeEntries")
    /\ known' = [known EXCEPT ![n] = @ \ deleted[n]] /\ over' = [over EXCEPT ![n] = @ \ deleted[n]]
    /\ Clear(n, deleted[n])
    /\ stale' = stale \cup {k \in Calls : tag[k] = n /\ at[k] = "write" /\ uuid[k] \in deleted[n]}
    /\ UNCHANGED <<lists, booted, bare, closer, back, core, limited, open, at, tag, uuid, answer, ending, ops>>

\* then the added get theirs, without OverLimit.
StoreEntries(n) ==
    /\ monitor[n] = "storeEntries" /\ Goto(n, "idle")
    /\ known' = [known EXCEPT ![n] = @ \cup added[n]] /\ over' = [over EXCEPT ![n] = @ \ added[n]]
    /\ Clear(n, added[n])
    /\ stale' = stale \cup {k \in Calls : tag[k] = n /\ at[k] = "write" /\ uuid[k] \in added[n]}
    /\ listed' = [listed EXCEPT ![n] = fresh[n]]
    /\ deleted' = [deleted EXCEPT ![n] = {}] /\ added' = [added EXCEPT ![n] = {}]
    /\ UNCHANGED <<fresh, todo, booted, bare, closer, back, core, limited, open, at, tag, uuid, answer, ending, ops>>

\* Mutant: the limiter goes before the node does.
Reload_LimiterFirst(n, new) ==
    /\ Poll(n) /\ Goto(n, "delNode")
    /\ listed' = [listed EXCEPT ![n] = new] /\ fresh' = [fresh EXCEPT ![n] = new]
    /\ limited' = limited \ {n}
    /\ UNCHANGED <<deleted, added, todo, booted, bare, closer, back, core, known, over, open, calls, flags, ending>>

Reload(n, new) ==
    /\ Poll(n) /\ Goto(n, "delNode")
    /\ listed' = [listed EXCEPT ![n] = new] /\ fresh' = [fresh EXCEPT ![n] = new]
    /\ UNCHANGED <<deleted, added, todo, booted, bare, closer, back, core, limiter, open, calls, flags, ending>>

\* hysteria ends connections; their calls of the logger return all the same.
End(cs) == open' = open \ cs

\* Hy2server.Close; a node that is not there has no server.
CloseServer(n) ==
    /\ serving' = serving \ {n}
    /\ End({c \in Conns : ServerOf[c] = n})

DelNode(n) ==
    /\ monitor[n] = "delNode"
    /\ \/ n \in nodes /\ CloseServer(n) /\ Goto(n, "unstore") /\ UNCHANGED ending
       \/ n \notin nodes /\ Crash("node", n) /\ UNCHANGED <<serving, open, monitor>>
    /\ UNCHANGED <<lists, booted, bare, closer, back, nodes, users, limiter, calls, flags, ops>>

\* DelNode's delete, then DeleteLimiter
UnstoreNode(n) ==
    /\ monitor[n] = "unstore" /\ Goto(n, "limiter")
    /\ nodes' = nodes \ {n} /\ limited' = limited \ {n}
    /\ UNCHANGED <<lists, booted, bare, closer, back, serving, users, known, over, open, calls, flags, ending, ops>>

Monitor(n) ==
    \/ AddLimiter(n) \/ RequestCert(n) \/ AddNode(n) \/ StoreNode(n) \/ UsersAdded(n)
    \/ \E u \in Users : AddUser(n, u) \/ DelUser(n, u)
    \/ \E new \in SUBSET Possible(n) \ {{}} :
         Reload(n, new) \/ \E changed \in SUBSET (listed[n] \cap new) : ChangeUsers(n, new, changed)
    \/ UsersDeleted(n) \/ DeleteEntries(n) \/ StoreEntries(n) \/ DelNode(n) \/ UnstoreNode(n)

-----------------------------------------------------------------------------
\* Controller.Close, of one node after the other, which does not wait for the monitor

BeginClose(n) ==
    /\ n \in booted /\ closer[n] = "no" /\ closer' = [closer EXCEPT ![n] = "begun"]
    /\ \A m \in Nodes : closer[m] \in {"no", "done"}
    /\ ops < MaxOps /\ ops' = ops + 1
    /\ limited' = limited \ {n}
    /\ UNCHANGED <<lists, monitor, booted, bare, back, core, known, over, open, calls, flags, ending>>

CloseNode(n) ==
    /\ closer[n] = "begun"
    /\ \/ n \in nodes /\ CloseServer(n) /\ closer' = [closer EXCEPT ![n] = "unstore"] /\ UNCHANGED ending
       \/ n \notin nodes /\ Crash("node", n) /\ UNCHANGED <<serving, open, closer>>
    /\ UNCHANGED <<lists, monitor, booted, bare, back, nodes, users, limiter, calls, flags, ops>>

EndClose(n) ==
    /\ closer[n] = "unstore" /\ closer' = [closer EXCEPT ![n] = "done"]
    /\ nodes' = nodes \ {n}
    /\ UNCHANGED <<lists, monitor, booted, bare, back, serving, users, limiter, open, calls, flags, ending, ops>>

Closer(n) == BeginClose(n) \/ CloseNode(n) \/ EndClose(n)

-----------------------------------------------------------------------------
\* Connections, and the logger's calls for them

\* A call begins, which will set the flag, or find no entry.
Begin(k, n, u) ==
    /\ at[k] = "none" /\ at' = [at EXCEPT ![k] = "check"]
    /\ tag' = [tag EXCEPT ![k] = n] /\ uuid' = [uuid EXCEPT ![k] = u]
    /\ flags' = IF Busy(n, u) THEN flags ELSE [flags EXCEPT ![n][u] = {}]
    /\ UNCHANGED <<answer, stale>>

\* Whoever is in the map, by whichever node, may connect; Connect follows.
Authenticate(c, k) ==
    /\ c \notin open /\ ServerOf[c] \in serving /\ UserOf[c] \in users
    /\ open' = open \cup {c}
    /\ Begin(k, ServerOf[c], UserOf[c])
    /\ UNCHANGED <<lists, control, core, limiter, ending, ops>>

\* TCPRequest, UDPRequest: each stream of a connection makes its own.
Request(c, k) ==
    /\ c \in open /\ Begin(k, ServerOf[c], UserOf[c])
    /\ UNCHANGED <<lists, control, core, limiter, open, ending, ops>>

\* GetLimiter, which must not fail, and CheckLimit
CheckLimit(k) ==
    /\ at[k] = "check"
    /\ IF tag[k] \notin limited THEN Crash("limiter", tag[k]) /\ UNCHANGED <<at, answer, flags>>
       ELSE /\ at' = [at EXCEPT ![k] = "load"] /\ UNCHANGED ending
            /\ \E a \in {"admitted", "refused"} :
                 /\ uuid[k] \notin known[tag[k]] => a = "refused"
                 /\ answer' = [answer EXCEPT ![k] = a]
                 /\ flags' = [flags EXCEPT ![tag[k]][uuid[k]] = @ \cup {a}]
    /\ UNCHANGED <<lists, control, core, limiter, open, tag, uuid, stale, ops>>

\* The logger's call returns.
Return(k) ==
    /\ at' = [at EXCEPT ![k] = "none"] /\ stale' = stale \ {k}
    /\ tag' = [tag EXCEPT ![k] = None] /\ uuid' = [uuid EXCEPT ![k] = None] /\ answer' = [answer EXCEPT ![k] = None]

\* Mutant: that the user has no entry is not noticed.
LoadEntry_Unchecked(k) ==
    /\ at[k] = "load" /\ at' = [at EXCEPT ![k] = "write"]
    /\ UNCHANGED <<lists, control, core, limiter, open, tag, uuid, answer, stale, flags, ending, ops>>

\* UserLimitInfo.Load: the user's entry, if there is one
LoadEntry(k) ==
    /\ at[k] = "load"
    /\ IF k \in stale \/ uuid[k] \in known[tag[k]]
       THEN at' = [at EXCEPT ![k] = "write"] /\ UNCHANGED <<tag, uuid, answer, stale>>
       ELSE Return(k)
    /\ UNCHANGED <<lists, control, core, limiter, open, flags, ending, ops>>

\* Mutant: an answer that refuses is not recorded.
SetOverLimit_ClearsOnly(k) ==
    /\ at[k] = "write" /\ Return(k)
    /\ over' = IF k \in stale THEN over ELSE [over EXCEPT ![tag[k]] = @ \ {uuid[k]}]
    /\ UNCHANGED <<lists, control, core, limited, known, open, flags, ending, ops>>

\* OverLimit of that entry, whether the tables still hold it or not
SetOverLimit(k) ==
    /\ at[k] = "write" /\ Return(k)
    /\ over' = IF k \in stale THEN over
               ELSE [over EXCEPT ![tag[k]] = IF answer[k] = "refused" THEN @ \cup {uuid[k]} ELSE @ \ {uuid[k]}]
    /\ UNCHANGED <<lists, control, core, limited, known, open, flags, ending, ops>>

\* LogTraffic refuses bytes of a node without limiter and of a user that is
\* over the limit, once; hysteria then ends the connection.
Cut(c) ==
    /\ c \in open /\ End({c})
    /\ IF ServerOf[c] \notin limited THEN UNCHANGED <<over, flags>>
       ELSE /\ UserOf[c] \in over[ServerOf[c]]
            /\ over' = [over EXCEPT ![ServerOf[c]] = @ \ {UserOf[c]}]
            /\ Clear(ServerOf[c], {UserOf[c]})
    /\ UNCHANGED <<lists, control, core, limited, known, calls, ending, ops>>

Disconnect(c) ==
    /\ c \in open /\ End({c})
    /\ UNCHANGED <<lists, control, core, limiter, calls, flags, ending, ops>>

Connection(c) ==
    \/ \E k \in Calls : Authenticate(c, k) \/ Request(c, k)
    \/ Cut(c) \/ Disconnect(c)

Call(k) == CheckLimit(k) \/ LoadEntry(k) \/ SetOverLimit(k)

Next ==
    /\ crashed = "no"
    /\ \/ \E n \in Nodes : Monitor(n) \/ Closer(n) \/ Racing(n)
       \/ \E c \in Conns : Connection(c)
       \/ \E k \in Calls : Call(k)

Spec == Init /\ [][Next]_vars

-----------------------------------------------------------------------------
\* Properties

Places == {"off", "limiter", "cert", "addNode", "store", "addUsers", "idle", "delUsers", "addChanged",
           "storeEntries", "delNode", "unstore"}
Answers == {"admitted", "refused"}
TypeOK ==
    /\ open \subseteq Conns
    /\ monitor \in [Nodes -> Places]
    /\ listed \in [Nodes -> SUBSET Users] /\ fresh \in [Nodes -> SUBSET Users]
    /\ deleted \in [Nodes -> SUBSET Users] /\ added \in [Nodes -> SUBSET Users] /\ todo \in [Nodes -> SUBSET Users]
    /\ booted \subseteq Nodes /\ bare \subseteq booted /\ back \subseteq Nodes
    /\ closer \in [Nodes -> {"no", "begun", "unstore", "done"}]
    /\ nodes \subseteq Nodes /\ serving \subseteq Nodes /\ users \subseteq Users
    /\ limited \subseteq Nodes /\ known \in [Nodes -> SUBSET Users]
    /\ over \in [Nodes -> SUBSET Users] /\ \A n \in Nodes : over[n] \subseteq known[n]
    /\ at \in [Calls -> {"none", "check", "load", "write"}] /\ stale \subseteq Calls
    /\ tag \in [Calls -> Nodes \cup {None}] /\ uuid \in [Calls -> Users \cup {None}]
    /\ answer \in [Calls -> Answers \cup {None}]
    /\ \A k \in Calls : /\ at[k] # "none" => tag[k] # None /\ uuid[k] # None
                        /\ at[k] \in {"load", "write"} => answer[k] # None
                        /\ at[k] = "write" => k \in stale \/ uuid[k] \in known[tag[k]]
    /\ flags \in [Nodes -> [Users -> SUBSET Answers]]
    /\ crashed \in {"no", "map", "limiter", "node", "failed"} /\ blamed \in Nodes \cup {None}
    /\ ops \in 0..MaxOps

\* The map of users is shared, and deletions ask nobody.  A user of one node
\* only can always connect there between polls, whatever the other nodes do, as
\* long as the node has a server: a reload whose certificate fails leaves none.
OwnUsersConnect ==
    \A n \in serving : monitor[n] = "idle" => {u \in listed[n] : Homes[u] = {n}} \subseteq users

\* What ends the process for a node is about this node, whatever the others do.
\* A node is looked up and not there when its own Close and a poll of it overlap,
\* or after a reload of it has failed at the certificate.  The logger finds no
\* limiter in a call of a server that its Close or its reload has closed, between
\* the two halves of its Close, and when a reload has outlived its Close.
CrashNeedsClose ==
    /\ crashed = "node" => blamed \in bare \/ (closer[blamed] # "no" /\ monitor[blamed] # "idle")
    /\ crashed = "limiter" =>
        \/ blamed \notin serving /\ (closer[blamed] # "no" \/ monitor[blamed] = "limiter")
        \/ closer[blamed] = "begun" \/ blamed \in back

\* The flag that LogTraffic cuts a user by says what CheckLimit has answered.
\* When all calls for a user have returned, it is what one of those that overlapped
\* was answered, or clear, where a cut or a new entry (UpdateUser, AddLimiter) came
\* between or after them: a lone call's answer stands until the flag is taken away,
\* and nobody is cut whom nothing has refused, however streams and connections
\* overlap with each other and with changes of the lists.
OverLimit(n, u) == IF u \in over[n] THEN "refused" ELSE "admitted"
FlagFollowsAnswer ==
    \A n \in Nodes, u \in Users : ~Busy(n, u) /\ u \in known[n] => OverLimit(n, u) \in flags[n][u]
=============================================================================
