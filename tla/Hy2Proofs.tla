------------------------------ MODULE Hy2Proofs ------------------------------
(***************************************************************************)
(* What several nodes may do to the core they share, for every set of nodes,*)
(* users, connections and calls and every number of changes.                *)
(*                                                                          *)
(* Each property is inductive together with what the places of a monitor    *)
(* say of the tables: which users of its list are in the core's map, and    *)
(* which of limiter, map of nodes and server are there; the flag's with     *)
(* what the place of a call says of the entry it holds.                     *)
(***************************************************************************)
EXTENDS Hy2, TLAPS

USE NoneAssumption, HomesAssumption, ClientsAssumption, MaxOpsAssumption

\* Places at which a node that nobody closes has a server
Up == {"addUsers", "idle", "delUsers", "addChanged", "storeEntries", "delNode"}

\* The parts of TypeOK: the monitors' tables, the limiters', the calls', the rest
ListTypes ==
    /\ listed \in [Nodes -> SUBSET Users] /\ fresh \in [Nodes -> SUBSET Users]
    /\ deleted \in [Nodes -> SUBSET Users] /\ added \in [Nodes -> SUBSET Users] /\ todo \in [Nodes -> SUBSET Users]
ControlTypes ==
    /\ monitor \in [Nodes -> Places] /\ closer \in [Nodes -> {"no", "begun", "unstore", "done"}]
    /\ booted \subseteq Nodes /\ bare \subseteq booted /\ back \subseteq Nodes
    /\ nodes \subseteq Nodes /\ serving \subseteq Nodes /\ users \subseteq Users /\ open \subseteq Conns
    /\ crashed \in {"no", "map", "limiter", "node", "failed"} /\ blamed \in Nodes \cup {None}
    /\ ops \in 0..MaxOps
CallTypes ==
    /\ limited \subseteq Nodes /\ known \in [Nodes -> SUBSET Users]
    /\ over \in [Nodes -> SUBSET Users] /\ \A n \in Nodes : over[n] \subseteq known[n]
    /\ at \in [Calls -> {"none", "check", "load", "write"}] /\ stale \subseteq Calls
    /\ tag \in [Calls -> Nodes \cup {None}] /\ uuid \in [Calls -> Users \cup {None}]
    /\ answer \in [Calls -> Answers \cup {None}]
    /\ \A k \in Calls : /\ at[k] # "none" => tag[k] # None /\ uuid[k] # None
                        /\ at[k] \in {"load", "write"} => answer[k] # None
                        /\ at[k] = "write" => k \in stale \/ uuid[k] \in known[tag[k]]
    /\ flags \in [Nodes -> [Users -> SUBSET Answers]]

LEMMA TypeParts ==
    /\ TypeOK <=> ListTypes /\ ControlTypes /\ CallTypes
    /\ TypeOK' <=> ListTypes' /\ ControlTypes' /\ CallTypes'
  BY DEF TypeOK, ListTypes, ControlTypes, CallTypes

LEMMA InitTypes == Init => TypeOK
<1> SUFFICES ASSUME Init PROVE TypeOK
  OBVIOUS
<1>1. ListTypes
  BY DEF Init, ListTypes
<1>2. ControlTypes
  BY DEF Init, ControlTypes, Places
<1>3. CallTypes
  BY DEF Init, CallTypes, Answers
<1> QED BY <1>1, <1>2, <1>3, TypeParts

LEMMA ClearTypes ==
    ASSUME CallTypes, NEW n \in Nodes, NEW us, Clear(n, us)
    PROVE  flags' \in [Nodes -> [Users -> SUBSET Answers]]
<1>1. "admitted" \in Answers /\ \A u \in Users : flags[n][u] \in SUBSET Answers
  BY DEF CallTypes, Answers
<1> QED BY <1>1 DEF Clear, CallTypes

LEMMA MonitorTypes ==
    ASSUME TypeOK, NEW n \in Nodes, Monitor(n)
    PROVE  TypeOK'
<1> USE DEF ListTypes, ControlTypes
<1>0. ListTypes /\ ControlTypes /\ CallTypes
  BY TypeParts
<1>1. CASE AddLimiter(n)
  <2>1. ListTypes' /\ ControlTypes'
    BY <1>0, <1>1 DEF AddLimiter, Goto, Places, lists, core, ending
  <2>2. flags' \in [Nodes -> [Users -> SUBSET Answers]]
    BY <1>0, <1>1, ClearTypes DEF AddLimiter
  <2>3. CallTypes'
    BY <1>0, <1>1, <2>2 DEF AddLimiter, CallTypes, ListTypes
  <2> QED BY <2>1, <2>3, TypeParts
<1>2. CASE DeleteEntries(n)
  <2>1. ListTypes' /\ ControlTypes'
    BY <1>0, <1>2 DEF DeleteEntries, Goto, Places, lists, core, ending
  <2>2. flags' \in [Nodes -> [Users -> SUBSET Answers]]
    BY <1>0, <1>2, ClearTypes DEF DeleteEntries
  <2>3. CallTypes'
    BY <1>0, <1>2, <2>2 DEF DeleteEntries, CallTypes, ListTypes
  <2> QED BY <2>1, <2>3, TypeParts
<1>3. CASE StoreEntries(n)
  <2>1. ListTypes' /\ ControlTypes'
    BY <1>0, <1>3 DEF StoreEntries, Goto, Places, core, ending
  <2>2. flags' \in [Nodes -> [Users -> SUBSET Answers]]
    BY <1>0, <1>3, ClearTypes DEF StoreEntries
  <2>3. CallTypes'
    BY <1>0, <1>3, <2>2 DEF StoreEntries, CallTypes, ListTypes
  <2> QED BY <2>1, <2>3, TypeParts
<1>4. CASE UnstoreNode(n)
  <2>1. ListTypes' /\ ControlTypes'
    BY <1>0, <1>4 DEF UnstoreNode, Goto, Places, lists, ending
  <2>2. CallTypes'
    BY <1>0, <1>4 DEF UnstoreNode, CallTypes, calls
  <2> QED BY <2>1, <2>2, TypeParts
<1>5. ASSUME UNCHANGED <<limiter, calls, flags>>, ListTypes', ControlTypes' PROVE TypeOK'
  <2>1. CallTypes'
    BY <1>0, <1>5 DEF CallTypes, limiter, calls
  <2> QED BY <1>5, <2>1, TypeParts
<1>6. CASE RequestCert(n) \/ AddNode(n) \/ StoreNode(n) \/ UsersAdded(n)
  <2>1. UNCHANGED <<limiter, calls, flags>>
    BY <1>6 DEF RequestCert, AddNode, StoreNode, UsersAdded
  <2>2. ListTypes'
    BY <1>0, <1>6 DEF RequestCert, AddNode, StoreNode, UsersAdded, lists
  <2>3. ControlTypes'
    BY <1>0, <1>6 DEF RequestCert, AddNode, StoreNode, UsersAdded, Outlive, Goto, Crash, Places, core, ending
  <2> QED BY <1>5, <2>1, <2>2, <2>3
<1>7. ASSUME NEW u \in Users, AddUser(n, u) \/ DelUser(n, u) PROVE TypeOK'
  <2>1. UNCHANGED <<limiter, calls, flags>>
    BY <1>7 DEF AddUser, DelUser
  <2>2. UNCHANGED <<listed, fresh, deleted, added, monitor, booted, bare, closer, back, nodes, serving, open, ops>>
    BY <1>7 DEF AddUser, DelUser, control
  <2>3. users' \subseteq Users /\ todo' \in [Nodes -> SUBSET Users]
    BY <1>0, <1>7 DEF AddUser, DelUser
  <2>4. crashed' \in {"no", "map", "limiter", "node", "failed"} /\ blamed' \in Nodes \cup {None}
    BY <1>0, <1>7 DEF AddUser, DelUser, Crash, ending
  <2>5. ListTypes' /\ ControlTypes'
    BY <1>0, <2>2, <2>3, <2>4
  <2> QED BY <1>5, <2>1, <2>5
<1>8. ASSUME NEW new \in SUBSET Possible(n) \ {{}}, NEW changed \in SUBSET (listed[n] \cap new),
             ChangeUsers(n, new, changed)
      PROVE  TypeOK'
  <2>1. Possible(n) \subseteq Users
    BY DEF Possible
  <2>2. Diff(n, new, changed).gone \in SUBSET Users /\ Diff(n, new, changed).come \in SUBSET Users
    BY <1>0, <2>1 DEF Diff
  <2>3. UNCHANGED <<limiter, calls, flags>>
    BY <1>8 DEF ChangeUsers
  <2>4. ListTypes' /\ ControlTypes'
    BY <1>0, <1>8, <2>1, <2>2 DEF ChangeUsers, Poll, Goto, Places, core, ending
  <2> QED BY <1>5, <2>3, <2>4
<1>9. ASSUME NEW new \in SUBSET Possible(n) \ {{}}, Reload(n, new) PROVE TypeOK'
  <2>1. UNCHANGED <<limiter, calls, flags>>
    BY <1>9 DEF Reload
  <2>2. ListTypes' /\ ControlTypes'
    BY <1>0, <1>9 DEF Reload, Poll, Goto, Possible, Places, core, ending
  <2> QED BY <1>5, <2>1, <2>2
<1>10. CASE UsersDeleted(n) \/ DelNode(n)
  <2>1. UNCHANGED <<limiter, calls, flags>>
    BY <1>10 DEF UsersDeleted, DelNode
  <2>2. ListTypes' /\ ControlTypes'
    BY <1>0, <1>10 DEF UsersDeleted, DelNode, CloseServer, End, Goto, Crash, Places, lists, core, ending
  <2> QED BY <1>5, <2>1, <2>2
<1> QED BY <1>1, <1>2, <1>3, <1>4, <1>6, <1>7, <1>8, <1>9, <1>10 DEF Monitor

LEMMA OthersTypes ==
    ASSUME TypeOK,
           \/ \E n \in Nodes : Closer(n) \/ Racing(n)
           \/ \E c \in Conns : Connection(c)
           \/ \E k \in Calls : Call(k)
           \/ UNCHANGED vars
    PROVE  TypeOK'
<1>0. ListTypes /\ ControlTypes /\ CallTypes
  BY TypeParts
<1>1. UNCHANGED <<lists, monitor, booted, bare, back, users>>
  BY DEF Closer, BeginClose, CloseNode, EndClose, Racing, Connection, Authenticate, Request, Cut, Disconnect, Call,
         CheckLimit, LoadEntry, SetOverLimit, vars, control, core
<1>2. ListTypes'
  BY <1>0, <1>1 DEF ListTypes, lists
<1>3. ControlTypes'
  <2>1. ASSUME NEW n \in Nodes, Closer(n) \/ Racing(n) PROVE ControlTypes'
    BY <1>0, <1>1, <2>1 DEF Closer, BeginClose, CloseNode, EndClose, CloseServer, End, Racing, Crash, ControlTypes,
                            control, core, ending
  <2>2. ASSUME NEW c \in Conns, Connection(c) PROVE ControlTypes'
    BY <1>0, <1>1, <2>2 DEF Connection, Authenticate, Request, Cut, Disconnect, End, ControlTypes, control, core, ending
  <2>3. ASSUME NEW k \in Calls, Call(k) PROVE ControlTypes'
    <3>1. at[k] # "none"
      BY <2>3 DEF Call, CheckLimit, LoadEntry, SetOverLimit
    <3>2. tag[k] \in Nodes
      BY <1>0, <3>1 DEF CallTypes
    <3> QED BY <1>0, <1>1, <2>3, <3>2 DEF Call, CheckLimit, LoadEntry, SetOverLimit, Crash, ControlTypes, control, core, ending
  <2>4. CASE UNCHANGED vars
    BY <1>0, <2>4 DEF vars, ControlTypes, control, core, ending
  <2> QED BY <2>1, <2>2, <2>3, <2>4
<1>4. CallTypes'
  <2>1. ASSUME NEW n \in Nodes, Closer(n) \/ Racing(n) PROVE CallTypes'
    BY <1>0, <2>1 DEF Closer, BeginClose, CloseNode, EndClose, Racing, CallTypes, limiter, calls
  <2>2. ASSUME NEW c \in Conns, NEW k \in Calls, Authenticate(c, k) \/ Request(c, k) PROVE CallTypes'
    <3>1. Begin(k, ServerOf[c], UserOf[c]) /\ UNCHANGED limiter
      BY <2>2 DEF Authenticate, Request
    <3>2. flags' \in [Nodes -> [Users -> SUBSET Answers]]
      BY <1>0, <3>1 DEF Begin, CallTypes
    <3> QED BY <1>0, <3>1, <3>2 DEF Begin, CallTypes, limiter
  <2>3. ASSUME NEW c \in Conns, Cut(c) PROVE CallTypes'
    <3>1. flags' \in [Nodes -> [Users -> SUBSET Answers]]
      BY <1>0, <2>3, ClearTypes DEF Cut, CallTypes
    <3>2. over' = over \/ over' = [over EXCEPT ![ServerOf[c]] = @ \ {UserOf[c]}]
      BY <2>3 DEF Cut
    <3>3. over' \in [Nodes -> SUBSET Users] /\ \A n \in Nodes : over'[n] \subseteq over[n]
      <4>1. CASE over' = over
        BY <1>0, <4>1 DEF CallTypes
      <4>2. CASE over' = [over EXCEPT ![ServerOf[c]] = over[ServerOf[c]] \ {UserOf[c]}]
        BY <1>0, <4>2 DEF CallTypes
      <4> QED BY <3>2, <4>1, <4>2
    <3> QED BY <1>0, <2>3, <3>1, <3>3 DEF Cut, CallTypes, calls
  <2>4. ASSUME NEW c \in Conns, Disconnect(c) PROVE CallTypes'
    BY <1>0, <2>4 DEF Disconnect, CallTypes, limiter, calls
  <2>5. ASSUME NEW k \in Calls, CheckLimit(k) PROVE CallTypes'
    <3>1. CASE tag[k] \notin limited
      BY <1>0, <2>5, <3>1 DEF CheckLimit, CallTypes, limiter
    <3>2. CASE tag[k] \in limited
      <4>1. PICK a \in Answers : /\ answer' = [answer EXCEPT ![k] = a]
                                 /\ flags' = [flags EXCEPT ![tag[k]][uuid[k]] = @ \cup {a}]
        BY <2>5, <3>2 DEF CheckLimit, Answers
      <4>2. flags' \in [Nodes -> [Users -> SUBSET Answers]]
        <5>1. tag[k] \in Nodes /\ uuid[k] \in Users /\ flags[tag[k]][uuid[k]] \in SUBSET Answers
          BY <1>0, <2>5 DEF CheckLimit, CallTypes
        <5> QED BY <1>0, <4>1, <5>1 DEF CallTypes
      <4>3. a # None
        BY DEF Answers
      <4> QED BY <1>0, <2>5, <3>2, <4>1, <4>2, <4>3 DEF CheckLimit, CallTypes, limiter
    <3> QED BY <3>1, <3>2
  <2>6. ASSUME NEW k \in Calls, LoadEntry(k) PROVE CallTypes'
    <3>1. CASE k \in stale \/ uuid[k] \in known[tag[k]]
      BY <1>0, <2>6, <3>1 DEF LoadEntry, CallTypes, limiter
    <3>2. CASE ~(k \in stale \/ uuid[k] \in known[tag[k]])
      <4>1. Return(k) /\ UNCHANGED <<limiter, flags>>
        BY <2>6, <3>2 DEF LoadEntry
      <4> QED BY <1>0, <4>1 DEF Return, CallTypes, limiter
    <3> QED BY <3>1, <3>2
  <2>7. ASSUME NEW k \in Calls, SetOverLimit(k) PROVE CallTypes'
    <3>1. over' \in [Nodes -> SUBSET Users] /\ \A n \in Nodes : over'[n] \subseteq known[n]
      BY <1>0, <2>7 DEF SetOverLimit, CallTypes
    <3> QED BY <1>0, <2>7, <3>1 DEF SetOverLimit, Return, CallTypes
  <2>8. CASE UNCHANGED vars
    BY <1>0, <2>8 DEF vars, CallTypes, limiter, calls
  <2> QED BY <2>1, <2>2, <2>3, <2>4, <2>5, <2>6, <2>7, <2>8 DEF Connection, Call
<1> QED BY <1>2, <1>3, <1>4, TypeParts

LEMMA StepTypes == TypeOK /\ [Next]_vars => TypeOK'
  BY MonitorTypes, OthersTypes DEF Next

\* Types: what the core's, the limiters' and the monitors' tables may hold.
THEOREM TypeCorrect == Spec => []TypeOK
<1> QED BY InitTypes, StepTypes, PTL DEF Spec

-----------------------------------------------------------------------------
\* The core's map of users and the lists

Own(n) == {u \in Users : Homes[u] = {n}}

\* A node's lists, and so its deletions, are about users it may have.
ListsInv ==
    \A n \in Nodes : /\ listed[n] \subseteq Possible(n) /\ fresh[n] \subseteq Possible(n)
                     /\ deleted[n] \subseteq Possible(n) /\ added[n] \subseteq Possible(n)
                     /\ todo[n] \subseteq Possible(n)

\* Where a node is in its tables, and what is there of it while nobody closes it,
\* and but for the limiter also between the two halves of its Close
TablesAt(n) ==
    /\ n \in nodes => monitor[n] \in Up \cup {"unstore"}
    /\ n \in serving => monitor[n] \in Up
    /\ n \in bare => n \notin nodes /\ n \notin serving /\ monitor[n] \in Up \ {"addUsers"}
    /\ n \notin bare /\ closer[n] \in {"no", "begun"} =>
        /\ monitor[n] \in Up \cup {"unstore"} => n \in nodes
        /\ monitor[n] \in Up => n \in serving
    /\ closer[n] = "no" => (n \in limited <=> monitor[n] \notin {"off", "limiter"})
    /\ closer[n] \in {"unstore", "done"} /\ n \in serving => n \in back

TablesInv == \A n \in Nodes : TablesAt(n)

\* What a node that has a server has done of a start or a change
UsersAt(n) ==
    n \notin bare =>
    /\ monitor[n] = "idle" => listed[n] \cap Own(n) \subseteq users
    /\ monitor[n] = "addUsers" => (listed[n] \ todo[n]) \cap Own(n) \subseteq users
    /\ monitor[n] = "delUsers" => /\ (listed[n] \ deleted[n]) \cap Own(n) \subseteq users
                                  /\ todo[n] \subseteq deleted[n]
                                  /\ fresh[n] \ added[n] \subseteq listed[n] \ deleted[n]
    /\ monitor[n] = "addChanged" => (fresh[n] \ todo[n]) \cap Own(n) \subseteq users
    /\ monitor[n] = "storeEntries" => fresh[n] \cap Own(n) \subseteq users

UsersInv == \A n \in Nodes : UsersAt(n)

\* Only a monitor touches lists, monitors and users.
LEMMA OthersKeepLists ==
    ASSUME \/ \E n \in Nodes : Closer(n) \/ Racing(n)
           \/ \E c \in Conns : Connection(c)
           \/ \E k \in Calls : Call(k)
           \/ UNCHANGED vars
    PROVE  UNCHANGED <<lists, monitor, booted, bare, back, users>>
  BY DEF Closer, BeginClose, CloseNode, EndClose, Racing, Connection, Authenticate, Request, Cut, Disconnect, Call,
         CheckLimit, LoadEntry, SetOverLimit, vars, control, core

\* What a poll of node n may do to the others' lists and places
LEMMA MonitorKeepsOthers ==
    ASSUME TypeOK, NEW n \in Nodes, Monitor(n), NEW m \in Nodes \ {n}
    PROVE  /\ monitor'[m] = monitor[m] /\ closer'[m] = closer[m]
           /\ listed'[m] = listed[m] /\ fresh'[m] = fresh[m] /\ deleted'[m] = deleted[m]
           /\ added'[m] = added[m] /\ todo'[m] = todo[m]
           /\ m \in bare' <=> m \in bare
           /\ m \in back' <=> m \in back
           /\ m \in nodes' <=> m \in nodes
           /\ m \in serving' <=> m \in serving
           /\ m \in limited' <=> m \in limited
<1> USE DEF Goto, TypeOK, lists, core, control, limiter
<1>1. CASE AddLimiter(n) \/ RequestCert(n) \/ AddNode(n)
  BY <1>1 DEF AddLimiter, RequestCert, AddNode
<1>2. CASE StoreNode(n) \/ UsersAdded(n) \/ UsersDeleted(n)
  BY <1>2 DEF StoreNode, UsersAdded, UsersDeleted, Outlive
<1>3. CASE DeleteEntries(n) \/ StoreEntries(n)
  BY <1>3 DEF DeleteEntries, StoreEntries
<1>4. CASE DelNode(n) \/ UnstoreNode(n)
  BY <1>4 DEF DelNode, UnstoreNode, CloseServer
<1>5. CASE \E u \in Users : AddUser(n, u) \/ DelUser(n, u)
  BY <1>5 DEF AddUser, DelUser
<1>6. CASE \E new \in SUBSET Possible(n) \ {{}} :
             Reload(n, new) \/ \E changed \in SUBSET (listed[n] \cap new) : ChangeUsers(n, new, changed)
  BY <1>6 DEF Reload, ChangeUsers, Poll
<1> QED BY <1>1, <1>2, <1>3, <1>4, <1>5, <1>6 DEF Monitor

LEMMA ListsKept == TypeOK /\ ListsInv /\ [Next]_vars => ListsInv'
<1> SUFFICES ASSUME TypeOK, ListsInv, [Next]_vars PROVE ListsInv'
  OBVIOUS
<1>1. ASSUME NEW n \in Nodes, Monitor(n)
      PROVE  ListsInv'
  <2>2. CASE AddLimiter(n) \/ RequestCert(n) \/ AddNode(n) \/ UsersAdded(n) \/ DeleteEntries(n) \/ DelNode(n) \/ UnstoreNode(n)
    BY <2>2 DEF AddLimiter, RequestCert, AddNode, UsersAdded, DeleteEntries, DelNode, UnstoreNode, ListsInv, lists
  <2>3. ASSUME NEW u \in Users, AddUser(n, u) \/ DelUser(n, u) PROVE ListsInv'
    BY <2>3 DEF AddUser, DelUser, ListsInv, TypeOK
  <2>4. CASE StoreNode(n) \/ UsersDeleted(n)
    BY <2>4 DEF StoreNode, UsersDeleted, ListsInv, TypeOK
  <2>7. CASE StoreEntries(n)
    BY <2>7 DEF StoreEntries, ListsInv, TypeOK
  <2>5. ASSUME NEW new \in SUBSET Possible(n) \ {{}}, Reload(n, new) PROVE ListsInv'
    BY <2>5 DEF Reload, ListsInv, TypeOK
  <2>6. ASSUME NEW new \in SUBSET Possible(n) \ {{}}, NEW changed \in SUBSET (listed[n] \cap new),
               ChangeUsers(n, new, changed)
        PROVE  ListsInv'
    <3>1. Diff(n, new, changed).gone \subseteq Possible(n) /\ Diff(n, new, changed).come \subseteq Possible(n)
      BY DEF Diff, ListsInv
    <3> QED BY <2>6, <3>1 DEF ChangeUsers, ListsInv, TypeOK
  <2> QED BY <1>1, <2>2, <2>3, <2>4, <2>5, <2>6, <2>7 DEF Monitor
<1>2. CASE UNCHANGED lists
  BY <1>2 DEF ListsInv, lists
<1> QED BY <1>1, <1>2, OthersKeepLists DEF Next

LEMMA TablesKept == TypeOK /\ TablesInv /\ [Next]_vars => TablesInv'
<1> SUFFICES ASSUME TypeOK, TablesInv, [Next]_vars PROVE TablesInv'
  OBVIOUS
<1>1. ASSUME NEW n \in Nodes, Monitor(n), NEW m \in Nodes \ {n} PROVE TablesAt(m)'
  BY <1>1, MonitorKeepsOthers DEF TablesInv, TablesAt
<1>2. ASSUME NEW n \in Nodes, Monitor(n) PROVE TablesAt(n)'
  <2> USE DEF Goto, TypeOK, TablesInv, TablesAt, Up
  <2>1. CASE AddLimiter(n) \/ UnstoreNode(n)
    BY <2>1 DEF AddLimiter, UnstoreNode, core
  <2>2. CASE AddNode(n)
    BY <2>2 DEF AddNode, core, limiter
  <2>8. CASE RequestCert(n)
    <3>1. /\ monitor[n] = "cert" /\ TablesAt(n)
          /\ nodes' = nodes /\ serving' = serving /\ limited' = limited /\ closer' = closer /\ back' = back
      BY <2>8 DEF RequestCert, core, limiter
    <3>2. n \notin nodes /\ n \notin serving
      BY <3>1
    <3>3. \/ monitor'[n] = "addNode" /\ bare' = bare
          \/ monitor'[n] = "idle" /\ bare' = bare \cup {n}
          \/ monitor' = monitor /\ bare' = bare
      BY <2>8 DEF RequestCert
    <3>4. CASE monitor'[n] = "idle" /\ bare' = bare \cup {n}
      BY <3>1, <3>2, <3>4
    <3>5. CASE monitor'[n] = "addNode" /\ bare' = bare
      BY <3>1, <3>2, <3>5
    <3>6. CASE monitor' = monitor /\ bare' = bare
      BY <3>1, <3>6
    <3> QED BY <3>3, <3>4, <3>5, <3>6
  <2>3. CASE StoreNode(n)
    <3>1. /\ monitor[n] = "store" /\ monitor'[n] = "addUsers" /\ TablesAt(n)
          /\ nodes' = nodes \cup {n} /\ serving' = serving \cup {n}
          /\ limited' = limited /\ closer' = closer /\ bare' = bare
      BY <2>3 DEF StoreNode, limiter
    <3>2. n \notin bare /\ (closer[n] # "no" => n \in back')
      BY <2>3, <3>1 DEF StoreNode, Outlive
    <3> QED BY <3>1, <3>2
  <2>11. CASE UsersAdded(n)
    BY <2>11 DEF UsersAdded, Outlive, core, limiter
  <2>4. ASSUME NEW u \in Users, AddUser(n, u) \/ DelUser(n, u) PROVE TablesAt(n)'
    BY <2>4 DEF AddUser, DelUser, control, limiter
  <2>5. ASSUME NEW new, NEW changed, Reload(n, new) \/ ChangeUsers(n, new, changed) PROVE TablesAt(n)'
    BY <2>5 DEF Reload, ChangeUsers, Poll, core, limiter
  <2>6. CASE UsersDeleted(n)
    BY <2>6 DEF UsersDeleted, core, limiter
  <2>9. CASE DeleteEntries(n)
    BY <2>9 DEF DeleteEntries, core
  <2>10. CASE StoreEntries(n)
    BY <2>10 DEF StoreEntries, core
  <2>7. CASE DelNode(n)
    BY <2>7 DEF DelNode, CloseServer, limiter
  <2> QED BY <1>2, <2>1, <2>2, <2>3, <2>4, <2>5, <2>6, <2>7, <2>8, <2>9, <2>10, <2>11 DEF Monitor
<1>3. ASSUME NEW n \in Nodes, Closer(n), NEW m \in Nodes PROVE TablesAt(m)'
  BY <1>3 DEF Closer, BeginClose, CloseNode, EndClose, CloseServer, TypeOK, TablesInv, TablesAt, Up, core, limiter
<1>4. CASE (\E n \in Nodes : Racing(n)) \/ UNCHANGED vars
  BY <1>4 DEF Racing, vars, TablesInv, TablesAt, control, core, limiter
<1>5. ASSUME (\E c \in Conns : Connection(c)) \/ (\E k \in Calls : Call(k)) PROVE TablesInv'
  <2>1. UNCHANGED <<control, core, limited>>
    BY <1>5 DEF Connection, Authenticate, Request, Cut, Disconnect, Call, CheckLimit, LoadEntry, SetOverLimit, limiter
  <2> QED BY <2>1 DEF TablesInv, TablesAt, control, core
<1> QED BY <1>1, <1>2, <1>3, <1>4, <1>5 DEF Next, TablesInv

\* Node n's own users are in the map as far as n has put them there: other
\* nodes add users, and delete only such as they may have.
LEMMA UsersKept == TypeOK /\ ListsInv /\ TablesInv /\ UsersInv /\ [Next]_vars => UsersInv'
<1> SUFFICES ASSUME TypeOK, ListsInv, TablesInv, UsersInv, [Next]_vars PROVE UsersInv'
  OBVIOUS
<1>1. ASSUME NEW n \in Nodes, Monitor(n), NEW m \in Nodes \ {n} PROVE UsersAt(m)'
  <2>1. \A u \in users \ users' : u \in Possible(n)
    BY <1>1 DEF Monitor, AddLimiter, RequestCert, AddNode, StoreNode, UsersAdded, AddUser, DelUser, Reload, ChangeUsers,
                UsersDeleted, DeleteEntries, StoreEntries, DelNode, UnstoreNode, ListsInv, core
  <2>2. users \cap Own(m) \subseteq users'
    BY <2>1 DEF Possible, Own
  <2> QED BY <1>1, <2>2, MonitorKeepsOthers DEF UsersInv, UsersAt
<1>2. ASSUME NEW n \in Nodes, Monitor(n) PROVE UsersAt(n)'
  <2>2. CASE AddLimiter(n) \/ AddNode(n) \/ StoreNode(n) \/ DelNode(n) \/ UnstoreNode(n)
    BY <2>2 DEF AddLimiter, AddNode, StoreNode, DelNode, UnstoreNode, Goto, UsersInv, UsersAt, TypeOK
  <2>r. CASE RequestCert(n)
    BY <2>r DEF RequestCert, Goto, UsersInv, UsersAt, TypeOK
  <2>3. CASE UsersAdded(n) \/ DeleteEntries(n) \/ StoreEntries(n)
    BY <2>3 DEF UsersAdded, DeleteEntries, StoreEntries, Goto, UsersInv, UsersAt, TypeOK, core, lists
  <2>4. ASSUME NEW u \in Users, AddUser(n, u) \/ DelUser(n, u) PROVE UsersAt(n)'
    BY <2>4 DEF AddUser, DelUser, UsersInv, UsersAt, TypeOK, control
  <2>5. CASE UsersDeleted(n)
    BY <2>5 DEF UsersDeleted, Goto, UsersInv, UsersAt, TypeOK, core
  <2>6. ASSUME NEW new, Reload(n, new) PROVE UsersAt(n)'
    BY <2>6 DEF Reload, Goto, UsersAt, TypeOK
  <2>7. ASSUME NEW new, NEW changed \in SUBSET (listed[n] \cap new), ChangeUsers(n, new, changed) PROVE UsersAt(n)'
    <3>1. n \notin bare => listed[n] \cap Own(n) \subseteq users
      BY <2>7 DEF ChangeUsers, Poll, UsersInv, UsersAt
    <3>2. /\ Diff(n, new, changed).gone = (listed[n] \ new) \cup changed
          /\ Diff(n, new, changed).come = (new \ listed[n]) \cup changed
      BY DEF Diff
    <3>3. new \ Diff(n, new, changed).come \subseteq listed[n] \ Diff(n, new, changed).gone
      BY <3>2
    <3>4. /\ monitor'[n] = "delUsers" /\ listed'[n] = listed[n] /\ users' = users /\ fresh'[n] = new /\ bare' = bare
          /\ deleted'[n] = Diff(n, new, changed).gone /\ todo'[n] = deleted'[n]
          /\ added'[n] = Diff(n, new, changed).come
      BY <2>7 DEF ChangeUsers, Goto, TypeOK, core
    <3> QED BY <3>1, <3>3, <3>4 DEF UsersAt
  <2> QED BY <1>2, <2>2, <2>r, <2>3, <2>4, <2>5, <2>6, <2>7 DEF Monitor
<1>3. CASE UNCHANGED <<lists, monitor, bare, users>>
  BY <1>3 DEF UsersInv, UsersAt, lists
<1> QED BY <1>1, <1>2, <1>3, OthersKeepLists DEF Next, UsersInv

LEMMA TablesAlways == Spec => [](TypeOK /\ ListsInv /\ TablesInv /\ UsersInv)
<1>1. Init => ListsInv /\ TablesInv /\ UsersInv
  BY DEF Init, ListsInv, TablesInv, TablesAt, UsersInv, UsersAt, Up
<1> QED BY <1>1, InitTypes, StepTypes, ListsKept, TablesKept, UsersKept, PTL DEF Spec

\* Whatever the other nodes add and delete, and however the goroutines of
\* AddUsers and DelUsers overlap, a user of one node only can connect there:
\* unless a reload has left it no server, which then goes for all its users.
THEOREM OwnUsersConnectAlways == Spec => []OwnUsersConnect
<1>1. ASSUME TypeOK, TablesInv, UsersInv PROVE OwnUsersConnect
  <2>1. ASSUME NEW n \in serving, monitor[n] = "idle", NEW u \in listed[n], Homes[u] = {n} PROVE u \in users
    <3>1. n \in Nodes
      BY <1>1, <2>1 DEF TypeOK
    <3>2. u \in Users
      BY <1>1, <2>1, <3>1 DEF TypeOK
    <3>3. n \notin bare
      BY <1>1, <2>1, <3>1 DEF TablesInv, TablesAt
    <3>4. listed[n] \cap Own(n) \subseteq users
      BY <1>1, <2>1, <3>1, <3>3 DEF UsersInv, UsersAt
    <3> QED BY <2>1, <3>2, <3>4 DEF Own
  <2> QED BY <2>1 DEF OwnUsersConnect
<1> QED BY <1>1, TablesAlways, PTL

-----------------------------------------------------------------------------
\* What ends the process

\* A connection is one of a server that listens, and a call is one of a node that
\* has started.
ConnsInv ==
    /\ \A c \in open : ServerOf[c] \in serving
    /\ \A k \in Calls : at[k] # "none" => monitor[tag[k]] # "off"

LEMMA ConnsKept == TypeOK /\ TablesInv /\ ConnsInv /\ [Next]_vars => ConnsInv'
<1> SUFFICES ASSUME TypeOK, TablesInv, ConnsInv, [Next]_vars PROVE ConnsInv'
  OBVIOUS
<1>0. /\ open \subseteq Conns /\ serving \subseteq Nodes /\ monitor \in [Nodes -> Places]
      /\ \A k \in Calls : at[k] # "none" => tag[k] \in Nodes
  BY DEF TypeOK
<1>1. ASSUME NEW n \in Nodes, Monitor(n) PROVE ConnsInv'
  <2>1. UNCHANGED <<at, tag>>
    BY <1>1 DEF Monitor, AddLimiter, RequestCert, AddNode, StoreNode, UsersAdded, AddUser, DelUser, Reload, ChangeUsers,
                UsersDeleted, DeleteEntries, StoreEntries, DelNode, UnstoreNode, calls
  <2>2. \A m \in Nodes : monitor[m] # "off" => monitor'[m] # "off"
    BY <1>0, <1>1 DEF Monitor, AddLimiter, RequestCert, AddNode, StoreNode, UsersAdded, AddUser, DelUser, Reload,
                ChangeUsers, UsersDeleted, DeleteEntries, StoreEntries, DelNode, UnstoreNode, Goto, control
  <2>3. \A c \in open' : ServerOf[c] \in serving'
    <3>1. CASE DelNode(n)
      BY <1>0, <3>1 DEF DelNode, CloseServer, End, ConnsInv
    <3>2. CASE ~DelNode(n)
      <4>1. open' = open /\ serving \subseteq serving'
        BY <1>1, <3>2 DEF Monitor, AddLimiter, RequestCert, AddNode, StoreNode, UsersAdded, AddUser, DelUser, Reload,
                ChangeUsers, UsersDeleted, DeleteEntries, StoreEntries, UnstoreNode, core
      <4> QED BY <4>1 DEF ConnsInv
    <3> QED BY <3>1, <3>2
  <2> QED BY <1>0, <2>1, <2>2, <2>3 DEF ConnsInv
<1>2. ASSUME NEW n \in Nodes, Closer(n) PROVE ConnsInv'
  BY <1>0, <1>2 DEF Closer, BeginClose, CloseNode, EndClose, CloseServer, End, ConnsInv, core, calls
<1>3. CASE (\E n \in Nodes : Racing(n)) \/ UNCHANGED vars
  BY <1>3 DEF Racing, vars, ConnsInv, control, core, calls
<1>4. ASSUME NEW c \in Conns, NEW k \in Calls, Authenticate(c, k) \/ Request(c, k) PROVE ConnsInv'
  <2>1. /\ UNCHANGED <<serving, monitor>> /\ open' \subseteq open \cup {c} /\ ServerOf[c] \in serving
        /\ Begin(k, ServerOf[c], UserOf[c])
    BY <1>4 DEF Authenticate, Request, ConnsInv, control, core
  <2>2. monitor[ServerOf[c]] # "off"
    BY <1>0, <2>1 DEF TablesInv, TablesAt, Up
  <2> QED BY <2>1, <2>2 DEF Begin, ConnsInv, TypeOK
<1>5. ASSUME NEW c \in Conns, Cut(c) \/ Disconnect(c) PROVE ConnsInv'
  BY <1>5 DEF Cut, Disconnect, End, ConnsInv, control, core, calls
<1>6. ASSUME NEW k \in Calls, Call(k) PROVE ConnsInv'
  <2>1. UNCHANGED <<open, serving, monitor>>
    BY <1>6 DEF Call, CheckLimit, LoadEntry, SetOverLimit, control, core
  <2>2. \A j \in Calls : at'[j] # "none" => at[j] # "none" /\ tag'[j] = tag[j]
    BY <1>6 DEF Call, CheckLimit, LoadEntry, SetOverLimit, Return, TypeOK
  <2> QED BY <2>1, <2>2 DEF ConnsInv
<1> QED BY <1>1, <1>2, <1>3, <1>4, <1>5, <1>6 DEF Next, Connection

LEMMA CrashesAreCloses ==
    ASSUME TypeOK, TablesInv, ConnsInv, CrashNeedsClose, [Next]_vars
    PROVE  CrashNeedsClose'
<1>1. CASE UNCHANGED vars
  BY <1>1 DEF vars, control, core, ending, CrashNeedsClose
<1>2. CASE crashed' \notin {"node", "limiter"}
  BY <1>2 DEF CrashNeedsClose
<1>3. ASSUME NEW n \in Nodes, Monitor(n), crashed = "no", crashed' \in {"node", "limiter"} PROVE CrashNeedsClose'
  <2>1. /\ crashed' = "node" /\ blamed' = n /\ n \notin nodes /\ monitor[n] \in {"delUsers", "delNode"}
        /\ UNCHANGED <<monitor, closer, bare>>
    BY <1>3 DEF Monitor, AddLimiter, RequestCert, AddNode, StoreNode, UsersAdded, AddUser, DelUser, Reload, ChangeUsers,
                UsersDeleted, DeleteEntries, StoreEntries, DelNode, UnstoreNode, Crash, ending, control
  <2>2. n \in bare \/ closer[n] # "no"
    BY <2>1 DEF TablesInv, TablesAt, Up
  <2> QED BY <2>1, <2>2 DEF CrashNeedsClose
<1>4. ASSUME NEW n \in Nodes, Closer(n), crashed = "no", crashed' \in {"node", "limiter"} PROVE CrashNeedsClose'
  <2>1. /\ crashed' = "node" /\ blamed' = n /\ n \notin nodes /\ closer[n] = "begun"
        /\ UNCHANGED <<monitor, closer, bare>>
    BY <1>4 DEF Closer, BeginClose, CloseNode, EndClose, Crash, ending
  <2>2. n \in bare \/ monitor[n] # "idle"
    BY <2>1 DEF TablesInv, TablesAt, Up
  <2> QED BY <2>1, <2>2 DEF CrashNeedsClose
<1>5. ASSUME NEW k \in Calls, Call(k), crashed = "no", crashed' \in {"node", "limiter"} PROVE CrashNeedsClose'
  <2>1. /\ crashed' = "limiter" /\ blamed' = tag[k] /\ tag[k] \notin limited /\ at[k] = "check"
        /\ UNCHANGED <<monitor, closer, bare, back, serving>>
    BY <1>5 DEF Call, CheckLimit, LoadEntry, SetOverLimit, Crash, ending, control, core
  <2>2. tag[k] \in Nodes /\ monitor[tag[k]] # "off"
    BY <2>1 DEF ConnsInv, TypeOK
  <2>3. PICK n \in Nodes : n = tag[k]
    BY <2>2
  <2>4. CASE closer[n] = "no"
    <3>1. monitor[n] = "limiter"
      BY <2>1, <2>2, <2>3, <2>4 DEF TablesInv, TablesAt
    <3>2. n \notin serving
      BY <3>1 DEF TablesInv, TablesAt, Up
    <3> QED BY <2>1, <2>3, <3>1, <3>2 DEF CrashNeedsClose
  <2>5. CASE closer[n] # "no"
    <3>1. n \notin serving \/ closer[n] = "begun" \/ n \in back
      BY <2>5 DEF TablesInv, TablesAt, TypeOK
    <3> QED BY <2>1, <2>3, <2>5, <3>1 DEF CrashNeedsClose
  <2> QED BY <2>4, <2>5
<1>6. ASSUME NEW c \in Conns, Connection(c), crashed = "no", crashed' \in {"node", "limiter"} PROVE FALSE
  BY <1>6 DEF Connection, Authenticate, Request, Cut, Disconnect, ending
<1>7. ASSUME NEW n \in Nodes, Racing(n), crashed' \in {"node", "limiter"} PROVE FALSE
  BY <1>7 DEF Racing, Crash
<1> QED BY <1>1, <1>2, <1>3, <1>4, <1>5, <1>6, <1>7 DEF Next

LEMMA ConnsAlways == Spec => []ConnsInv
<1>1. Init => ConnsInv
  BY DEF Init, ConnsInv
<1> QED BY <1>1, TablesAlways, ConnsKept, PTL DEF Spec

\* Whatever the other nodes of the core start, reload, change and close at the same
\* time, the panics for want of a node or of a limiter are the node's own affair:
\* its Close and its poll overlap, or its certificate has failed in a reload.
THEOREM CrashNeedsCloseAlways == Spec => []CrashNeedsClose
<1>1. Init => CrashNeedsClose
  BY DEF Init, CrashNeedsClose
<1> QED BY <1>1, CrashesAreCloses, TablesAlways, ConnsAlways, PTL DEF Spec


-----------------------------------------------------------------------------
\* OverLimit and the answers of CheckLimit

\* A call under way for u at n that will write to the entry the limiter has
Live(n, u) == \E k \in Calls : at[k] # "none" /\ tag[k] = n /\ uuid[k] = u /\ k \notin stale

\* What a call has been answered its user's flag may say; and the flag of a user
\* that the limiter knows says such an answer, or a call will write to it.
AnswersInv ==
    \A k \in Calls : /\ at[k] \in {"load", "write"} => answer[k] \in flags[tag[k]][uuid[k]]
                     /\ k \in stale => at[k] # "none"
FlagAt(n, u) == u \in known[n] => OverLimit(n, u) \in flags[n][u] \/ Live(n, u)
FlagsInv == AnswersInv /\ \A n \in Nodes, u \in Users : FlagAt(n, u)

\* What the types say of one call and of one flag
LEMMA CallFacts ==
    TypeOK =>
    /\ at \in [Calls -> {"none", "check", "load", "write"}] /\ stale \subseteq Calls
    /\ tag \in [Calls -> Nodes \cup {None}] /\ uuid \in [Calls -> Users \cup {None}]
    /\ answer \in [Calls -> Answers \cup {None}]
    /\ flags \in [Nodes -> [Users -> SUBSET Answers]]
    /\ known \in [Nodes -> SUBSET Users] /\ over \in [Nodes -> SUBSET Users]
    /\ \A k \in Calls : at[k] # "none" => tag[k] \in Nodes /\ uuid[k] \in Users
    /\ \A k \in Calls : at[k] \in {"load", "write"} => answer[k] \in Answers
  BY DEF TypeOK

\* A flag that is taken away, at an entry that is new or by a cut, stands for
\* "admitted"; calls that are still under way keep theirs.
LEMMA Cleared ==
    ASSUME TypeOK, FlagsInv, NEW n \in Nodes, NEW us, Clear(n, us),
           UNCHANGED <<at, tag, uuid, answer>>,
           \A k \in Calls : k \in stale' \ stale => at[k] # "none" /\ tag[k] = n /\ uuid[k] \in us,
           \A m \in Nodes, u \in Users : m # n \/ u \notin us =>
               (u \in known'[m] <=> u \in known[m]) /\ (u \in over'[m] <=> u \in over[m]),
           \A u \in us : u \notin over'[n]
    PROVE  FlagsInv'
<1>0. /\ \A m \in Nodes, u \in Users : m # n \/ u \notin us => flags'[m][u] = flags[m][u]
      /\ \A u \in Users : u \in us => "admitted" \in flags'[n][u]
      /\ \A u \in Users : Busy(n, u) => flags[n][u] \subseteq flags'[n][u]
  <2>1. flags \in [Nodes -> [Users -> SUBSET Answers]]
    BY CallFacts
  <2>2. \A m \in Nodes : m # n => flags'[m] = flags[m]
    BY <2>1 DEF Clear
  <2>3. ASSUME NEW u \in Users
        PROVE  /\ u \notin us => flags'[n][u] = flags[n][u]
               /\ u \in us => "admitted" \in flags'[n][u]
               /\ Busy(n, u) => flags[n][u] \subseteq flags'[n][u]
    <3>1. flags'[n][u] = IF u \notin us THEN flags[n][u]
                         ELSE IF Busy(n, u) THEN flags[n][u] \cup {"admitted"} ELSE {"admitted"}
      BY <2>1 DEF Clear
    <3>2. CASE u \notin us
      BY <3>1, <3>2
    <3>3. CASE u \in us
      BY <3>1, <3>3
    <3> QED BY <3>2, <3>3
  <2> QED BY <2>2, <2>3
<1>1. AnswersInv'
  <2> SUFFICES ASSUME NEW k \in Calls
               PROVE  /\ at[k] \in {"load", "write"} => answer[k] \in flags'[tag[k]][uuid[k]]
                      /\ k \in stale' => at[k] # "none"
    BY DEF AnswersInv
  <2>1. k \in stale' => at[k] # "none"
    BY DEF FlagsInv, AnswersInv
  <2>2. ASSUME at[k] \in {"load", "write"} PROVE answer[k] \in flags'[tag[k]][uuid[k]]
    <3>1. tag[k] \in Nodes /\ uuid[k] \in Users /\ answer[k] \in flags[tag[k]][uuid[k]]
      BY <2>2, CallFacts DEF FlagsInv, AnswersInv
    <3>2. Busy(tag[k], uuid[k])
      BY <2>2 DEF Busy
    <3>3. flags[tag[k]][uuid[k]] \subseteq flags'[tag[k]][uuid[k]]
      <4>1. CASE tag[k] = n
        BY <1>0, <3>1, <3>2, <4>1
      <4>2. CASE tag[k] # n
        BY <1>0, <3>1, <4>2
      <4> QED BY <4>1, <4>2
    <3> QED BY <3>1, <3>3
  <2> QED BY <2>1, <2>2
<1>2. ASSUME NEW m \in Nodes, NEW u \in Users PROVE FlagAt(m, u)'
  <2>1. CASE m = n /\ u \in us
    <3>1. "admitted" \in flags'[m][u] /\ u \notin over'[m]
      BY <1>0, <2>1
    <3> QED BY <3>1 DEF FlagAt, OverLimit
  <2>2. CASE m # n \/ u \notin us
    <3>1. flags'[m][u] = flags[m][u] /\ OverLimit(m, u)' = OverLimit(m, u) /\ (u \in known'[m] <=> u \in known[m])
      BY <1>0, <2>2 DEF OverLimit
    <3>2. Live(m, u) => Live(m, u)'
      BY <2>2 DEF Live
    <3> QED BY <3>1, <3>2 DEF FlagsInv, FlagAt
  <2> QED BY <2>1, <2>2
<1> QED BY <1>1, <1>2 DEF FlagsInv

\* Steps that touch neither calls nor flags
LEMMA FlagsIdle ==
    FlagsInv /\ UNCHANGED <<at, tag, uuid, answer, stale, flags, known, over>> => FlagsInv'
  BY DEF FlagsInv, AnswersInv, FlagAt, Live, OverLimit

\* A call that begins when no other for its user is under way starts the answers anew.
LEMMA FlagsBegin ==
    ASSUME TypeOK, FlagsInv, NEW k \in Calls, NEW n \in Nodes, NEW u \in Users, Begin(k, n, u),
           UNCHANGED <<known, over>>
    PROVE  FlagsInv'
<1>0. /\ at[k] = "none" /\ at' = [at EXCEPT ![k] = "check"]
      /\ tag' = [tag EXCEPT ![k] = n] /\ uuid' = [uuid EXCEPT ![k] = u]
      /\ answer' = answer /\ stale' = stale
      /\ flags' = IF Busy(n, u) THEN flags ELSE [flags EXCEPT ![n][u] = {}]
  BY DEF Begin
<1>1. \A m \in Nodes, v \in Users : m # n \/ v # u \/ Busy(n, u) => flags'[m][v] = flags[m][v]
  BY <1>0, CallFacts
<1>2. at'[k] = "check" /\ tag'[k] = n /\ uuid'[k] = u
  BY <1>0, CallFacts
<1>3. \A j \in Calls \ {k} : at'[j] = at[j] /\ tag'[j] = tag[j] /\ uuid'[j] = uuid[j]
  BY <1>0, CallFacts
<1>4. AnswersInv'
  <2> SUFFICES ASSUME NEW j \in Calls
               PROVE  /\ at'[j] \in {"load", "write"} => answer[j] \in flags'[tag'[j]][uuid'[j]]
                      /\ j \in stale => at'[j] # "none"
    BY <1>0 DEF AnswersInv
  <2>1. CASE j = k
    BY <1>2, <2>1
  <2>2. CASE j # k
    <3>1. at'[j] = at[j] /\ tag'[j] = tag[j] /\ uuid'[j] = uuid[j]
      BY <1>3, <2>2
    <3>2. ASSUME at[j] \in {"load", "write"} PROVE answer[j] \in flags'[tag[j]][uuid[j]]
      <4>1. tag[j] \in Nodes /\ uuid[j] \in Users /\ answer[j] \in flags[tag[j]][uuid[j]]
        BY <3>2, CallFacts DEF FlagsInv, AnswersInv
      <4>2. Busy(tag[j], uuid[j])
        BY <3>2 DEF Busy
      <4> QED BY <1>1, <4>1, <4>2
    <3> QED BY <3>1, <3>2 DEF FlagsInv, AnswersInv
  <2> QED BY <2>1, <2>2
<1>5. ASSUME NEW m \in Nodes, NEW v \in Users PROVE FlagAt(m, v)'
  <2>1. CASE m = n /\ v = u
    <3>1. k \notin stale
      BY <1>0 DEF FlagsInv, AnswersInv
    <3>2. Live(m, v)'
      BY <1>0, <1>2, <2>1, <3>1 DEF Live
    <3> QED BY <3>2 DEF FlagAt
  <2>2. CASE m # n \/ v # u
    <3>1. flags'[m][v] = flags[m][v] /\ OverLimit(m, v)' = OverLimit(m, v)
      BY <1>1, <2>2 DEF OverLimit
    <3>2. Live(m, v) => Live(m, v)'
      BY <1>0, <1>3 DEF Live
    <3> QED BY <3>1, <3>2 DEF FlagsInv, FlagAt
  <2> QED BY <2>1, <2>2
<1> QED BY <1>4, <1>5 DEF FlagsInv

\* A call goes on: an answer joins those its user's flag may say.
LEMMA FlagsCheck ==
    ASSUME TypeOK, FlagsInv, NEW k \in Calls, CheckLimit(k)
    PROVE  FlagsInv'
<1>1. CASE tag[k] \notin limited
  <2>1. UNCHANGED <<at, tag, uuid, answer, stale, flags, known, over>>
    BY <1>1 DEF CheckLimit, limiter
  <2> QED BY <2>1, FlagsIdle
<1>2. CASE tag[k] \in limited
  <2>1. PICK a \in {"admitted", "refused"} :
          /\ at[k] = "check" /\ at' = [at EXCEPT ![k] = "load"] /\ answer' = [answer EXCEPT ![k] = a]
          /\ flags' = [flags EXCEPT ![tag[k]][uuid[k]] = @ \cup {a}]
          /\ UNCHANGED <<tag, uuid, stale, known, over>>
    BY <1>2 DEF CheckLimit, limiter
  <2>2. \A m \in Nodes, v \in Users : flags[m][v] \subseteq flags'[m][v]
    BY <2>1, CallFacts
  <2>3. tag[k] \in Nodes /\ uuid[k] \in Users
    BY <2>1, CallFacts
  <2>4. at'[k] = "load" /\ answer'[k] = a /\ a \in flags'[tag[k]][uuid[k]]
    BY <2>1, <2>3, CallFacts
  <2>5. \A j \in Calls \ {k} : at'[j] = at[j] /\ answer'[j] = answer[j]
    BY <2>1, CallFacts
  <2>6. AnswersInv'
    <3> SUFFICES ASSUME NEW j \in Calls
                 PROVE  /\ at'[j] \in {"load", "write"} => answer'[j] \in flags'[tag[j]][uuid[j]]
                        /\ j \in stale => at'[j] # "none"
      BY <2>1 DEF AnswersInv
    <3>1. CASE j = k
      BY <2>4, <3>1
    <3>2. CASE j # k
      BY <2>2, <2>5, <3>2, CallFacts DEF FlagsInv, AnswersInv
    <3> QED BY <3>1, <3>2
  <2>7. ASSUME NEW m \in Nodes, NEW v \in Users PROVE FlagAt(m, v)'
    <3>1. OverLimit(m, v)' = OverLimit(m, v) /\ known' = known
      BY <2>1 DEF OverLimit
    <3>2. Live(m, v) => Live(m, v)'
      BY <2>1, <2>4, <2>5 DEF Live
    <3> QED BY <2>2, <3>1, <3>2 DEF FlagsInv, FlagAt
  <2> QED BY <2>6, <2>7 DEF FlagsInv
<1> QED BY <1>1, <1>2

\* A call that returns has left the flag of its user as it was, or as it was answered:
\* or its user is not known.
LEMMA FlagsReturn ==
    ASSUME TypeOK, FlagsInv, NEW k \in Calls, Return(k), flags' = flags, known' = known,
           \A m \in Nodes, v \in Users : m # tag[k] \/ v # uuid[k] => (v \in over'[m] <=> v \in over[m]),
           \/ (IF uuid[k] \in over'[tag[k]] THEN "refused" ELSE "admitted") \in flags[tag[k]][uuid[k]]
           \/ k \in stale /\ over' = over
           \/ uuid[k] \notin known[tag[k]]
    PROVE  FlagsInv'
<1>1. /\ at'[k] = "none" /\ stale' = stale \ {k}
      /\ \A j \in Calls \ {k} : /\ at'[j] = at[j] /\ tag'[j] = tag[j] /\ uuid'[j] = uuid[j]
                                /\ answer'[j] = answer[j]
  BY CallFacts DEF Return
<1>2. AnswersInv'
  <2> SUFFICES ASSUME NEW j \in Calls
               PROVE  /\ at'[j] \in {"load", "write"} => answer'[j] \in flags[tag'[j]][uuid'[j]]
                      /\ j \in stale' => at'[j] # "none"
    BY DEF AnswersInv
  <2> QED BY <1>1 DEF FlagsInv, AnswersInv
<1>3. ASSUME NEW m \in Nodes, NEW v \in Users PROVE FlagAt(m, v)'
  <2>1. CASE m = tag[k] /\ v = uuid[k]
    <3>1. CASE (IF uuid[k] \in over'[tag[k]] THEN "refused" ELSE "admitted") \in flags[tag[k]][uuid[k]]
      BY <2>1, <3>1 DEF FlagAt, OverLimit
    <3>2. CASE k \in stale /\ over' = over
      <4>1. Live(m, v) => Live(m, v)'
        BY <1>1, <3>2 DEF Live
      <4> QED BY <3>2, <4>1 DEF FlagsInv, FlagAt, OverLimit
    <3>3. CASE uuid[k] \notin known[tag[k]]
      BY <2>1, <3>3 DEF FlagAt
    <3> QED BY <3>1, <3>2, <3>3
  <2>2. CASE m # tag[k] \/ v # uuid[k]
    <3>1. Live(m, v) => Live(m, v)'
      BY <1>1, <2>2 DEF Live
    <3>2. OverLimit(m, v)' = OverLimit(m, v)
      BY <2>2 DEF OverLimit
    <3> QED BY <3>1, <3>2 DEF FlagsInv, FlagAt
  <2> QED BY <2>1, <2>2
<1> QED BY <1>2, <1>3 DEF FlagsInv

LEMMA FlagsCall ==
    ASSUME TypeOK, FlagsInv, NEW k \in Calls, Call(k)
    PROVE  FlagsInv'
<1>1. CASE LoadEntry(k)
  <2>1. CASE k \in stale \/ uuid[k] \in known[tag[k]]
    <3>1. /\ at[k] = "load" /\ at' = [at EXCEPT ![k] = "write"]
          /\ UNCHANGED <<tag, uuid, answer, stale, flags, known, over>>
      BY <1>1, <2>1 DEF LoadEntry, limiter
    <3>2. \A j \in Calls : /\ at'[j] # "none" <=> at[j] # "none"
                           /\ at'[j] \in {"load", "write"} <=> at[j] \in {"load", "write"}
      BY <3>1, CallFacts
    <3>3. AnswersInv'
      BY <3>1, <3>2 DEF FlagsInv, AnswersInv
    <3>4. \A m \in Nodes, v \in Users : FlagAt(m, v)'
      BY <3>1, <3>2 DEF FlagsInv, FlagAt, Live, OverLimit
    <3> QED BY <3>3, <3>4 DEF FlagsInv
  <2>2. CASE ~(k \in stale \/ uuid[k] \in known[tag[k]])
    <3>1. Return(k) /\ flags' = flags /\ known' = known /\ over' = over
      BY <1>1, <2>2 DEF LoadEntry, limiter
    <3> QED BY <2>2, <3>1, FlagsReturn
  <2> QED BY <2>1, <2>2
<1>2. CASE SetOverLimit(k)
  <2>1. /\ at[k] = "write" /\ Return(k) /\ flags' = flags /\ known' = known
    BY <1>2 DEF SetOverLimit
  <2>2. tag[k] \in Nodes /\ uuid[k] \in Users /\ answer[k] \in Answers /\ answer[k] \in flags[tag[k]][uuid[k]]
    BY <2>1, CallFacts DEF FlagsInv, AnswersInv
  <2>3. CASE k \in stale
    <3>1. over' = over
      BY <1>2, <2>3 DEF SetOverLimit
    <3> QED BY <2>1, <2>3, <3>1, FlagsReturn
  <2>4. CASE k \notin stale
    <3>1. over' = [over EXCEPT ![tag[k]] = IF answer[k] = "refused" THEN @ \cup {uuid[k]} ELSE @ \ {uuid[k]}]
      BY <1>2, <2>4 DEF SetOverLimit
    <3>2. (IF uuid[k] \in over'[tag[k]] THEN "refused" ELSE "admitted") = answer[k]
      <4>1. uuid[k] \in over'[tag[k]] <=> answer[k] = "refused"
        BY <2>2, <3>1, CallFacts
      <4> QED BY <2>2, <4>1 DEF Answers
    <3>3. \A m \in Nodes, v \in Users : m # tag[k] \/ v # uuid[k] => (v \in over'[m] <=> v \in over[m])
      BY <2>2, <3>1, CallFacts
    <3> QED BY <2>1, <2>2, <3>2, <3>3, FlagsReturn
  <2> QED BY <2>3, <2>4
<1> QED BY <1>1, <1>2, FlagsCheck DEF Call

LEMMA FlagsKept == TypeOK /\ FlagsInv /\ [Next]_vars => FlagsInv'
<1> SUFFICES ASSUME TypeOK, FlagsInv, [Next]_vars PROVE FlagsInv'
  OBVIOUS
<1>1. ASSUME NEW n \in Nodes, Monitor(n) PROVE FlagsInv'
  <2>1. CASE AddLimiter(n)
    <3>1. /\ Clear(n, Users) /\ UNCHANGED <<at, tag, uuid, answer>>
          /\ known' = [known EXCEPT ![n] = listed[n]] /\ over' = [over EXCEPT ![n] = {}]
          /\ stale' = stale \cup {k \in Calls : tag[k] = n /\ at[k] \in {"load", "write"}}
      BY <2>1 DEF AddLimiter
    <3>2. \A k \in Calls : k \in stale' \ stale => at[k] # "none" /\ tag[k] = n /\ uuid[k] \in Users
      BY <3>1, CallFacts
    <3>3. \A m \in Nodes, u \in Users : m # n \/ u \notin Users =>
               (u \in known'[m] <=> u \in known[m]) /\ (u \in over'[m] <=> u \in over[m])
      BY <3>1, CallFacts
    <3>4. \A u \in Users : u \notin over'[n]
      BY <3>1, CallFacts
    <3> QED BY <3>1, <3>2, <3>3, <3>4, Cleared
  <2>2. CASE DeleteEntries(n)
    <3>1. /\ Clear(n, deleted[n]) /\ UNCHANGED <<at, tag, uuid, answer>>
          /\ known' = [known EXCEPT ![n] = @ \ deleted[n]] /\ over' = [over EXCEPT ![n] = @ \ deleted[n]]
          /\ stale' = stale \cup {k \in Calls : tag[k] = n /\ at[k] = "write" /\ uuid[k] \in deleted[n]}
      BY <2>2 DEF DeleteEntries
    <3>2. \A k \in Calls : k \in stale' \ stale => at[k] # "none" /\ tag[k] = n /\ uuid[k] \in deleted[n]
      BY <3>1
    <3>3. \A m \in Nodes, u \in Users : m # n \/ u \notin deleted[n] =>
               (u \in known'[m] <=> u \in known[m]) /\ (u \in over'[m] <=> u \in over[m])
      BY <3>1, CallFacts
    <3>4. \A u \in deleted[n] : u \notin over'[n]
      BY <3>1, CallFacts
    <3> QED BY <3>1, <3>2, <3>3, <3>4, Cleared
  <2>3. CASE StoreEntries(n)
    <3>1. /\ Clear(n, added[n]) /\ UNCHANGED <<at, tag, uuid, answer>>
          /\ known' = [known EXCEPT ![n] = @ \cup added[n]] /\ over' = [over EXCEPT ![n] = @ \ added[n]]
          /\ stale' = stale \cup {k \in Calls : tag[k] = n /\ at[k] = "write" /\ uuid[k] \in added[n]}
      BY <2>3 DEF StoreEntries
    <3>2. \A k \in Calls : k \in stale' \ stale => at[k] # "none" /\ tag[k] = n /\ uuid[k] \in added[n]
      BY <3>1
    <3>3. \A m \in Nodes, u \in Users : m # n \/ u \notin added[n] =>
               (u \in known'[m] <=> u \in known[m]) /\ (u \in over'[m] <=> u \in over[m])
      BY <3>1, CallFacts
    <3>4. \A u \in added[n] : u \notin over'[n]
      BY <3>1, CallFacts
    <3> QED BY <3>1, <3>2, <3>3, <3>4, Cleared
  <2>4. CASE ~(AddLimiter(n) \/ DeleteEntries(n) \/ StoreEntries(n))
    <3>1. UNCHANGED <<at, tag, uuid, answer, stale, flags, known, over>>
      BY <1>1, <2>4 DEF Monitor, RequestCert, AddNode, StoreNode, UsersAdded, AddUser, DelUser, Reload, ChangeUsers,
                        UsersDeleted, DelNode, UnstoreNode, calls, limiter
    <3> QED BY <3>1, FlagsIdle
  <2> QED BY <2>1, <2>2, <2>3, <2>4
<1>2. ASSUME NEW c \in Conns, Connection(c) PROVE FlagsInv'
  <2>0. ServerOf[c] \in Nodes /\ UserOf[c] \in Users
    OBVIOUS
  <2>1. ASSUME NEW k \in Calls, Authenticate(c, k) \/ Request(c, k) PROVE FlagsInv'
    <3>1. Begin(k, ServerOf[c], UserOf[c]) /\ UNCHANGED <<known, over>>
      BY <2>1 DEF Authenticate, Request, limiter
    <3> QED BY <2>0, <3>1, FlagsBegin
  <2>2. CASE Cut(c)
    <3>1. CASE ServerOf[c] \notin limited
      <4>1. UNCHANGED <<at, tag, uuid, answer, stale, flags, known, over>>
        BY <2>2, <3>1 DEF Cut, calls
      <4> QED BY <4>1, FlagsIdle
    <3>2. CASE ServerOf[c] \in limited
      <4>1. /\ Clear(ServerOf[c], {UserOf[c]}) /\ UNCHANGED <<at, tag, uuid, answer, stale, known>>
            /\ over' = [over EXCEPT ![ServerOf[c]] = @ \ {UserOf[c]}]
        BY <2>2, <3>2 DEF Cut, calls
      <4>2. \A m \in Nodes, u \in Users : m # ServerOf[c] \/ u \notin {UserOf[c]} =>
               (u \in known'[m] <=> u \in known[m]) /\ (u \in over'[m] <=> u \in over[m])
        BY <4>1, CallFacts
      <4>3. \A u \in {UserOf[c]} : u \notin over'[ServerOf[c]]
        BY <2>0, <4>1, CallFacts
      <4>4. \A k \in Calls : k \in stale' \ stale => at[k] # "none" /\ tag[k] = ServerOf[c] /\ uuid[k] \in {UserOf[c]}
        BY <4>1
      <4> QED BY <2>0, <4>1, <4>2, <4>3, <4>4, Cleared
    <3> QED BY <3>1, <3>2
  <2>3. CASE Disconnect(c)
    <3>1. UNCHANGED <<at, tag, uuid, answer, stale, flags, known, over>>
      BY <2>3 DEF Disconnect, calls, limiter
    <3> QED BY <3>1, FlagsIdle
  <2> QED BY <1>2, <2>1, <2>2, <2>3 DEF Connection
<1>3. CASE (\E n \in Nodes : Closer(n) \/ Racing(n)) \/ UNCHANGED vars
  <2>1. UNCHANGED <<at, tag, uuid, answer, stale, flags, known, over>>
    BY <1>3 DEF Closer, BeginClose, CloseNode, EndClose, Racing, vars, calls, limiter
  <2> QED BY <2>1, FlagsIdle
<1> QED BY <1>1, <1>2, <1>3, FlagsCall DEF Next

\* Whatever streams and connections do at the same time, and whenever UpdateUser
\* and AddLimiter replace entries and LogTraffic clears flags meanwhile: the flag
\* of a user says what an overlapping call was answered, or that it was renewed.
THEOREM FlagFollowsAnswerAlways == Spec => []FlagFollowsAnswer
<1>1. Init => FlagsInv
  <2> SUFFICES ASSUME Init PROVE FlagsInv
    OBVIOUS
  <2>1. AnswersInv
    BY DEF Init, AnswersInv
  <2>2. \A n \in Nodes, u \in Users : FlagAt(n, u)
    BY DEF Init, FlagAt
  <2> QED BY <2>1, <2>2 DEF FlagsInv
<1>2. FlagsInv => FlagFollowsAnswer
  <2>1. \A n \in Nodes, u \in Users : Live(n, u) => Busy(n, u)
    BY DEF Live, Busy
  <2> QED BY <2>1 DEF FlagsInv, FlagAt, FlagFollowsAnswer
<1> QED BY <1>1, <1>2, InitTypes, StepTypes, FlagsKept, PTL DEF Spec
=============================================================================
