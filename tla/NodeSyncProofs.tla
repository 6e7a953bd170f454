--------------------------- MODULE NodeSyncProofs ---------------------------
(***************************************************************************)
(* What a poll keeps in step, for every set of users, limits and configs    *)
(* and every number of edits and failed requests.                           *)
(*                                                                          *)
(* The invariants are about the core, the limiter and userList; they are    *)
(* inductive together with what the locals of the poll hold at each place:  *)
(* a diff is that of userList and newU, and what a step adds to or removes  *)
(* from one table it has computed from another.                             *)
(***************************************************************************)
EXTENDS NodeSync, TLAPS

\* The steps that apply a diff, and those that have a new node in hand
Diffing == {"delUsers", "addUsers", "update"}
Reloading == {"delNode", "limiter", "addNode"}

LocalsOK ==
    /\ pc \in Reloading => newN \in Configs
    /\ pc \in Diffing => newU \in UserLists /\ diff = CompareUserList(userList, newU)

TypeInv == TypeOK /\ LocalsOK

\* The diff applied to the old list's users gives the new list's; whoever is
\* kept has kept the speed limit.
LEMMA DiffLeadsToNew ==
    ASSUME NEW l \in UserLists, NEW m \in UserLists, NEW d, d = CompareUserList(l, m)
    PROVE  /\ d \in [deleted : SUBSET Users, added : SUBSET Users]
           /\ (DOMAIN l \ d.deleted) \cup d.added = DOMAIN m
           /\ \A u \in DOMAIN l \ d.deleted : u \notin d.added /\ l[u].speed = m[u].speed
           /\ d.deleted \subseteq DOMAIN l /\ d.added \cap (DOMAIN l \ d.deleted) = {}
<1>1. DOMAIN l \subseteq Users /\ DOMAIN m \subseteq Users
  BY DEF UserLists
<1>2. /\ d.deleted = {u \in DOMAIN l : ~KeyIn(u, l, m)}
      /\ d.added = {u \in DOMAIN m : ~KeyIn(u, m, l)}
      /\ d = [deleted |-> d.deleted, added |-> d.added]
  BY DEF CompareUserList
<1>3. d \in [deleted : SUBSET Users, added : SUBSET Users]
  BY <1>1, <1>2
<1> QED BY <1>2, <1>3 DEF KeyIn

\* A user list with one user set or removed is a user list.
LEMMA EditKeepsList ==
    ASSUME NEW l \in UserLists, NEW u \in Users
    PROVE  /\ \A p \in Profiles : [v \in DOMAIN l \cup {u} |-> IF v = u THEN p ELSE l[v]] \in UserLists
           /\ Restrict(l, DOMAIN l \ {u}) \in UserLists
<1>1. DOMAIN l \subseteq Users /\ l \in [DOMAIN l -> Profiles]
  BY DEF UserLists
<1>2. ASSUME NEW p \in Profiles
      PROVE  [v \in DOMAIN l \cup {u} |-> IF v = u THEN p ELSE l[v]] \in [DOMAIN l \cup {u} -> Profiles]
  BY <1>1
<1>3. Restrict(l, DOMAIN l \ {u}) \in [DOMAIN l \ {u} -> Profiles]
  BY <1>1 DEF Restrict
<1> QED BY <1>1, <1>2, <1>3 DEF UserLists

\* What UpdateUser leaves in the limiter is a user list.
LEMMA UpdatedIsList ==
    ASSUME NEW l \in UserLists, NEW m \in UserLists, NEW d, d.added \subseteq DOMAIN m
    PROVE  Updated(l, d, m) \in UserLists
<1>1. /\ DOMAIN l \subseteq Users /\ l \in [DOMAIN l -> Profiles]
      /\ DOMAIN m \subseteq Users /\ m \in [DOMAIN m -> Profiles]
  BY DEF UserLists
<1> DEFINE S == (DOMAIN l \ d.deleted) \cup d.added
<1>2. Updated(l, d, m) \in [S -> Profiles] /\ S \subseteq Users
  BY <1>1 DEF Updated
<1> QED BY <1>2 DEF UserLists

\* Types
LEMMA InitTypes == Init => TypeInv
<1> SUFFICES ASSUME Init PROVE TypeInv
  OBVIOUS
<1>1. DOMAIN pUsers \subseteq Users
  BY DEF Init, UserLists
<1>2. /\ pUsers \in UserLists /\ userSeen = pUsers /\ userList = pUsers /\ limits = pUsers
      /\ coreUsers = DOMAIN pUsers
      /\ pNode \in Configs /\ nodeSeen = pNode /\ info = pNode /\ served = pNode
  BY DEF Init
<1>3. /\ pc = "idle" /\ newN = Nil /\ newU = Nil /\ panicked = FALSE
      /\ edits \in 0..MaxEdits /\ faults \in [MayFail -> Nat]
      /\ diff \in [deleted : SUBSET Users, added : SUBSET Users]
  BY BoundsAssumption DEF Init, NoDiff
<1>4. named \in BOOLEAN /\ hy2 \in BOOLEAN
  BY DEF Init
<1> QED BY <1>1, <1>2, <1>3, <1>4 DEF TypeInv, TypeOK, LocalsOK, Reloading, Diffing

LEMMA FaultCounts ==
    ASSUME NEW call, faults \in [MayFail -> Nat], Fault(call)
    PROVE  faults' \in [MayFail -> Nat]
  BY DEF Fault

LEMMA ReturnTypes ==
    ASSUME Return
    PROVE  /\ pc' = "idle" /\ newN' = Nil /\ newU' = Nil
           /\ diff' \in [deleted : SUBSET Users, added : SUBSET Users]
           /\ LocalsOK'
  BY DEF Return, NoDiff, LocalsOK, Reloading, Diffing

LEMMA EditTypes == TypeInv /\ (EditNode \/ EditUser) => TypeInv'
<1> SUFFICES ASSUME TypeInv, EditNode \/ EditUser PROVE TypeInv'
  OBVIOUS
<1>1. edits' \in 0..MaxEdits
  BY BoundsAssumption DEF TypeInv, TypeOK, EditNode, EditUser
<1>2. pNode' \in Configs /\ pUsers' \in UserLists
  <2>1. CASE EditNode
    BY <2>1 DEF EditNode, TypeInv, TypeOK
  <2>2. CASE EditUser
    <3>1. PICK u \in Users :
            \/ \E p \in Profiles : pUsers' = [v \in DOMAIN pUsers \cup {u} |-> IF v = u THEN p ELSE pUsers[v]]
            \/ pUsers' = Restrict(pUsers, DOMAIN pUsers \ {u})
      BY <2>2 DEF EditUser
    <3>2. pUsers \in UserLists /\ pNode' = pNode /\ pNode \in Configs
      BY <2>2 DEF EditUser, TypeInv, TypeOK
    <3> QED BY <3>1, <3>2, EditKeepsList
  <2> QED BY <2>1, <2>2
<1>3. UNCHANGED <<setup, client, controller, core, limits, pc, locals, faults, panicked>>
  BY DEF EditNode, EditUser
<1> QED BY <1>1, <1>2, <1>3 DEF setup, TypeInv, TypeOK, LocalsOK, client, controller, core, locals

LEMMA RequestTypes == TypeInv /\ (GetNodeInfo \/ GetUserList) => TypeInv'
<1> SUFFICES ASSUME TypeInv, GetNodeInfo \/ GetUserList PROVE TypeInv'
  OBVIOUS
<1>1. CASE GetNodeInfo
  <2>1. UNCHANGED <<panel, userSeen, controller, core, limits, panicked>>
    BY <1>1 DEF GetNodeInfo
  <2>2. nodeSeen' \in Configs \cup {Nil} /\ faults' \in [MayFail -> Nat]
    BY <1>1, FaultCounts DEF GetNodeInfo, TypeInv, TypeOK
  <2>3. CASE Return
    BY <2>1, <2>2, <2>3, ReturnTypes DEF TypeInv, TypeOK, panel, setup, controller, core
  <2>4. CASE pc' = "users" /\ newN' \in {newN, Nil, pNode} /\ UNCHANGED <<newU, diff>>
    BY <2>1, <2>2, <2>4 DEF TypeInv, TypeOK, LocalsOK, Reloading, Diffing, panel, setup, controller, core
  <2> QED BY <1>1, <2>3, <2>4 DEF GetNodeInfo, locals
<1>2. CASE GetUserList
  <2>1. UNCHANGED <<panel, nodeSeen, controller, core, limits, panicked>>
    BY <1>2 DEF GetUserList
  <2>2. userSeen' \in UserLists /\ faults' \in [MayFail -> Nat]
    BY <1>2, FaultCounts DEF GetUserList, TypeInv, TypeOK
  <2>3. CASE Return
    BY <2>1, <2>2, <2>3, ReturnTypes DEF TypeInv, TypeOK, panel, setup, controller, core
  <2>4. CASE /\ newU' \in {Nil, pUsers} /\ UNCHANGED <<newN, diff>>
             /\ pc' = IF newN # Nil THEN "delNode" ELSE "compare"
    BY <2>1, <2>2, <2>4 DEF TypeInv, TypeOK, LocalsOK, Reloading, Diffing, panel, setup, controller, core
  <2> QED BY <1>2, <2>3, <2>4 DEF GetUserList
<1> QED BY <1>1, <1>2

LEMMA ReloadTypes == TypeInv /\ (DelNode \/ RebuildLimiter \/ AddNode) => TypeInv'
<1> SUFFICES ASSUME TypeInv, DelNode \/ RebuildLimiter \/ AddNode PROVE TypeInv'
  OBVIOUS
<1>1. CASE DelNode
  <2>1. newN \in Configs /\ userList' \in UserLists /\ panicked' \in BOOLEAN
    BY <1>1 DEF DelNode, TypeInv, TypeOK, LocalsOK, Reloading
  <2>2. coreUsers' \in SUBSET Users /\ served' = Nil
    BY <1>1 DEF DelNode, OutlivesNode, TypeInv, TypeOK
  <2>3. /\ info' = newN /\ pc' = "limiter"
        /\ UNCHANGED <<panel, client, limits, locals, faults>>
    BY <1>1 DEF DelNode
  <2> QED BY <2>1, <2>2, <2>3 DEF TypeInv, TypeOK, LocalsOK, Reloading, Diffing, panel, setup, client, locals
<1>2. CASE RebuildLimiter
  <2>1. /\ limits' \in UserLists /\ faults' \in [MayFail -> Nat]
        /\ UNCHANGED <<panel, client, controller, core>> /\ panicked' \in BOOLEAN
    BY <1>2, FaultCounts DEF RebuildLimiter, TypeInv, TypeOK, locals
  <2>2. CASE Return
    BY <2>1, <2>2, ReturnTypes DEF TypeInv, TypeOK, panel, setup, client, controller, core
  <2>3. CASE pc' \in {"limiter", "addNode"} /\ UNCHANGED locals
    <3>1. newN \in Configs
      BY <1>2 DEF RebuildLimiter, TypeInv, LocalsOK, Reloading
    <3> QED BY <2>1, <2>3, <3>1 DEF TypeInv, TypeOK, LocalsOK, Reloading, Diffing, locals, panel, setup, client, controller, core
  <2> QED BY <1>2, <2>2, <2>3 DEF RebuildLimiter, TypeInv, TypeOK
<1>3. CASE AddNode
  <2>1. DOMAIN userList \subseteq Users
    BY DEF TypeInv, TypeOK, UserLists
  <2>2. /\ served' \in Configs \cup {Nil} /\ coreUsers' \in SUBSET Users /\ faults' \in [MayFail -> Nat]
        /\ UNCHANGED <<panel, client, controller, limits>> /\ panicked' \in BOOLEAN
    BY <1>3, <2>1, FaultCounts DEF AddNode, TypeInv, TypeOK, LocalsOK, Reloading, core
  <2>3. CASE Return
    BY <2>2, <2>3, ReturnTypes DEF TypeInv, TypeOK, panel, setup, client, controller
  <2>4. CASE UNCHANGED <<pc, locals>>
    BY <2>2, <2>4 DEF TypeInv, TypeOK, LocalsOK, Reloading, Diffing, locals, panel, setup, client, controller
  <2> QED BY <1>3, <2>3, <2>4 DEF AddNode
<1> QED BY <1>1, <1>2, <1>3

LEMMA UserTypes == TypeInv /\ (Compare \/ DelUsers \/ AddUsers \/ UpdateUser) => TypeInv'
<1> SUFFICES ASSUME TypeInv, Compare \/ DelUsers \/ AddUsers \/ UpdateUser PROVE TypeInv'
  OBVIOUS
<1>1. CASE Compare
  <2>1. UNCHANGED <<panel, client, controller, core, limits, faults, panicked>>
    BY <1>1 DEF Compare
  <2>2. CASE Return
    BY <2>1, <2>2, ReturnTypes DEF TypeInv, TypeOK, panel, setup, client, controller, core
  <2>3. CASE /\ newU # Nil /\ diff' = CompareUserList(userList, newU)
             /\ pc' = "delUsers" /\ UNCHANGED <<newN, newU>>
    <3>1. userList \in UserLists /\ newU \in UserLists
      BY <2>3 DEF TypeInv, TypeOK
    <3>2. diff' \in [deleted : SUBSET Users, added : SUBSET Users]
      BY <2>3, <3>1, DiffLeadsToNew
    <3> QED BY <2>1, <2>3, <3>1, <3>2 DEF TypeInv, TypeOK, LocalsOK, Reloading, Diffing, panel, setup, client, controller, core
  <2> QED BY <1>1, <2>2, <2>3 DEF Compare
<1>2. CASE DelUsers \/ AddUsers
  <2>1. /\ coreUsers' \in SUBSET Users /\ faults' \in [MayFail -> Nat]
        /\ panicked' \in BOOLEAN
        /\ UNCHANGED <<panel, client, controller, served, limits>>
    BY <1>2, FaultCounts DEF DelUsers, AddUsers, TypeInv, TypeOK, locals
  <2>2. CASE Return
    BY <2>1, <2>2, ReturnTypes DEF TypeInv, TypeOK, panel, setup, client, controller
  <2>3. CASE pc' \in {"addUsers", "update"} /\ pc \in Diffing /\ UNCHANGED locals
    BY <2>1, <2>3 DEF TypeInv, TypeOK, LocalsOK, Reloading, Diffing, locals, panel, setup, client, controller
  <2> QED BY <1>2, <2>2, <2>3 DEF DelUsers, AddUsers, Diffing
<1>3. CASE UpdateUser
  <2>1. newU \in UserLists /\ diff.added \subseteq DOMAIN newU
    BY <1>3 DEF UpdateUser, TypeInv, LocalsOK, Diffing, CompareUserList
  <2>2. limits' \in UserLists
    BY <1>3, <2>1, UpdatedIsList DEF UpdateUser, TypeInv, TypeOK
  <2>3. Return /\ userList' = newU /\ UNCHANGED <<panel, client, info, core, faults, panicked>>
    BY <1>3 DEF UpdateUser
  <2> QED BY <2>1, <2>2, <2>3, ReturnTypes DEF TypeInv, TypeOK, panel, setup, client, core
<1> QED BY <1>1, <1>2, <1>3

LEMMA StepTypes == TypeInv /\ [Next]_vars => TypeInv'
<1>1. TypeInv /\ UNCHANGED vars => TypeInv'
  BY DEF TypeInv, TypeOK, LocalsOK, vars, panel, setup, client, controller, core, locals
<1> QED BY <1>1, EditTypes, RequestTypes, ReloadTypes, UserTypes DEF Next, Poll

\* Types: what the tables, the client and the locals of the poll may hold.
THEOREM TypeCorrect == Spec => []TypeOK
<1>1. TypeInv => TypeOK
  BY DEF TypeInv
<1> QED BY <1>1, InitTypes, StepTypes, PTL DEF Spec

-----------------------------------------------------------------------------
\* The setup does not change, and a step has at most one failure
LEMMA StepKeepsSetup ==
    ASSUME [Next]_vars
    PROVE  UNCHANGED setup /\ (UNCHANGED faults \/ \E call \in MayFail : Fault(call))
<1>1. CASE EditNode \/ EditUser \/ UNCHANGED vars
  BY <1>1 DEF EditNode, EditUser, vars, panel
<1>2. CASE GetNodeInfo \/ GetUserList
  BY <1>2 DEF GetNodeInfo, GetUserList, panel, Fault
<1>3. CASE DelNode \/ RebuildLimiter \/ AddNode
  BY <1>3 DEF DelNode, RebuildLimiter, AddNode, panel, Fault
<1>4. CASE Compare \/ DelUsers \/ AddUsers \/ UpdateUser
  BY <1>4 DEF Compare, DelUsers, AddUsers, UpdateUser, panel, Fault
<1> QED BY <1>1, <1>2, <1>3, <1>4 DEF Next, Poll

-----------------------------------------------------------------------------
\* The limiter and userList

\* Steps that leave both tables alone start and end outside the rebuild.
LEMMA OthersKeepLimiter ==
    ASSUME TypeInv, LimiterInStep,
           \/ EditNode \/ EditUser \/ GetNodeInfo \/ GetUserList
           \/ AddNode \/ Compare \/ DelUsers \/ AddUsers
    PROVE  LimiterInStep'
<1>1. UNCHANGED <<limits, userList>>
  BY DEF EditNode, EditUser, GetNodeInfo, GetUserList, AddNode, Compare, DelUsers, AddUsers, controller
<1>2. pc' # "limiter" => pc # "limiter"
  BY DEF EditNode, EditUser, GetNodeInfo, GetUserList, AddNode, Compare, DelUsers, AddUsers
<1>3. named' = named
  BY DEF setup, EditNode, EditUser, GetNodeInfo, GetUserList, AddNode, Compare, DelUsers, AddUsers, panel
<1> QED BY <1>1, <1>2, <1>3 DEF LimiterInStep

\* Users that UpdateUser keeps have kept their speed limit; the others get
\* the new list's.
LEMMA UpdateKeepsLimiter ==
    ASSUME TypeInv, LimiterInStep, UpdateUser
    PROVE  LimiterInStep'
<1> SUFFICES ASSUME ~named
             PROVE  /\ DOMAIN limits' = DOMAIN userList'
                    /\ \A u \in DOMAIN limits' : limits'[u].speed = userList'[u].speed
  BY DEF LimiterInStep, UpdateUser, panel, setup
<1>1. pc = "update" /\ limits' = Updated(limits, diff, newU) /\ userList' = newU
  BY DEF UpdateUser
<1>2. userList \in UserLists /\ newU \in UserLists /\ diff = CompareUserList(userList, newU)
  BY <1>1 DEF TypeInv, TypeOK, LocalsOK, Diffing
<1>3. /\ DOMAIN limits = DOMAIN userList
      /\ \A u \in DOMAIN limits : limits[u].speed = userList[u].speed
  BY <1>1 DEF LimiterInStep
<1>4. /\ (DOMAIN userList \ diff.deleted) \cup diff.added = DOMAIN newU
      /\ \A u \in DOMAIN userList \ diff.deleted :
            u \notin diff.added /\ userList[u].speed = newU[u].speed
  BY <1>2, DiffLeadsToNew
<1>5. /\ DOMAIN limits' = (DOMAIN limits \ diff.deleted) \cup diff.added
      /\ \A u \in DOMAIN limits' : limits'[u] = IF u \in diff.added THEN newU[u] ELSE limits[u]
  BY <1>1 DEF Updated
<1> QED BY <1>1, <1>3, <1>4, <1>5

\* DelNode begins the rebuild, and RebuildLimiter ends it with userList.
LEMMA LimiterKept == TypeInv /\ LimiterInStep /\ [Next]_vars => LimiterInStep'
<1>1. LimiterInStep /\ DelNode => LimiterInStep'
  BY DEF DelNode, LimiterInStep
<1>2. LimiterInStep /\ RebuildLimiter => LimiterInStep'
  BY DEF RebuildLimiter, LimiterInStep, controller, panel, setup
<1>3. LimiterInStep /\ UNCHANGED vars => LimiterInStep'
  BY DEF LimiterInStep, vars, controller, panel, setup
<1> QED BY <1>1, <1>2, <1>3, OthersKeepLimiter, UpdateKeepsLimiter DEF Next, Poll

\* Whatever requests, certificates or core calls fail, and in whatever order,
\* the limiter of an unnamed node has the users and speed limits of userList.
THEOREM LimiterInStepAlways == Spec => []LimiterInStep
<1>1. Init => LimiterInStep
  BY DEF Init, LimiterInStep
<1> QED BY <1>1, InitTypes, StepTypes, LimiterKept, PTL DEF Spec

-----------------------------------------------------------------------------
\* Failures are remembered

LEMMA FaultIsFailure ==
    ASSUME TypeInv, NEW call, Fault(call)
    PROVE  Failed(call)'
  BY DEF Fault, Failed, TypeInv, TypeOK

LEMMA FailureStays ==
    ASSUME TypeInv, [Next]_vars, NEW call, Failed(call)
    PROVE  Failed(call)'
<1>1. CASE UNCHANGED faults
  BY <1>1 DEF Failed
<1>2. ASSUME NEW other \in MayFail, Fault(other) PROVE Failed(call)'
  BY <1>2 DEF Fault, Failed, TypeInv, TypeOK
<1> QED BY <1>1, <1>2, StepKeepsSetup

LEMMA SoundBefore ==
    ASSUME TypeInv, [Next]_vars, CoreSound'
    PROVE  CoreSound /\ ~Fault("cert") /\ ~Fault("core")
<1>1. ~Failed("cert") /\ ~Failed("core") /\ ~Fault("cert") /\ ~Fault("core")
  BY FailureStays, FaultIsFailure DEF CoreSound
<1> QED BY <1>1, StepKeepsSetup DEF CoreSound, setup

-----------------------------------------------------------------------------
\* The node in the core, as long as no certificate request has failed

NodeAt ==
    ~Failed("cert") =>
        /\ panicked => Failed("addNode") \/ info \in BadRules
        /\ pc \notin {"limiter", "addNode"} => served = info
        /\ pc \in {"limiter", "addNode"} => served = Nil /\ info = newN

LEMMA NodeKept == TypeInv /\ NodeAt /\ [Next]_vars => NodeAt'
<1> SUFFICES ASSUME TypeInv, NodeAt, [Next]_vars, ~Failed("cert")' PROVE NodeAt'
  BY DEF NodeAt
<1>1. ~Failed("cert") /\ ~Fault("cert") /\ info # Nil
  BY FailureStays, FaultIsFailure, NilAssumption DEF TypeInv, TypeOK
<1> USE FailureStays
<1>2. CASE EditNode \/ EditUser \/ UNCHANGED vars
  <2>1. UNCHANGED <<info, served, pc, newN, panicked>>
    BY <1>2 DEF EditNode, EditUser, vars, controller, core, locals
  <2> QED BY <1>1, <2>1 DEF NodeAt
<1>3. CASE GetNodeInfo \/ GetUserList \/ Compare
  <2>1. /\ UNCHANGED <<info, served, panicked>>
        /\ pc \notin {"limiter", "addNode"} /\ pc' \notin {"limiter", "addNode"}
    BY <1>3 DEF GetNodeInfo, GetUserList, Compare, Return, controller, core
  <2> QED BY <1>1, <2>1 DEF NodeAt
<1>4. CASE DelNode
  BY <1>1, <1>4 DEF DelNode, NodeAt, locals
<1>5. CASE RebuildLimiter
  BY <1>1, <1>5 DEF RebuildLimiter, NodeAt, controller, core, locals
<1>6. CASE AddNode
  BY <1>1, <1>6, FaultIsFailure DEF AddNode, NodeAt, Return, controller, core, locals
<1>7. CASE DelUsers \/ AddUsers \/ UpdateUser
  <2>1. CASE DelUsers
    <3>1. /\ UNCHANGED <<info, served>> /\ panicked' \in {panicked, diff.deleted # {} /\ served = Nil}
          /\ pc = "delUsers" /\ pc' \in {"addUsers", "idle"}
      BY <2>1 DEF DelUsers, Return, controller
    <3>2. served = info
      BY <1>1, <3>1 DEF NodeAt
    <3> QED BY <1>1, <3>1, <3>2 DEF NodeAt
  <2>2. CASE AddUsers \/ UpdateUser
    <3>1. /\ UNCHANGED <<info, served, panicked>>
          /\ pc \in {"addUsers", "update"} /\ pc' \in {"update", "idle"}
      BY <2>2 DEF AddUsers, UpdateUser, Return, controller, core
    <3> QED BY <1>1, <3>1 DEF NodeAt
  <2> QED BY <1>7, <2>1, <2>2
<1> QED BY <1>2, <1>3, <1>4, <1>5, <1>6, <1>7 DEF Next, Poll

LEMMA NodeAtAlways == Spec => []NodeAt
<1>1. Init => NodeAt
  BY DEF Init, NodeAt
<1> QED BY <1>1, InitTypes, StepTypes, NodeKept, PTL DEF Spec

\* The poll deletes only a node that the core has, and users only from such a
\* node, whichever core it is and whichever other calls fail.  So a poll ends the
\* process only at a node that the core does not take or a rule that does not
\* compile, or after a failed certificate request.
THEOREM NoPanicAlways == Spec => []NoPanic
<1>1. TypeInv /\ NodeAt => NoPanic
  BY DEF NodeAt, NoPanic, TypeInv, TypeOK
<1> QED BY <1>1, InitTypes, StepTypes, NodeAtAlways, PTL DEF Spec

-----------------------------------------------------------------------------
\* The core's users and userList, as long as neither certificates nor core
\* calls have failed, for the cores that keep a node's users in its inbound

UsersAt ==
    CoreSound =>
        /\ pc \in {"idle", "users", "compare", "delNode", "delUsers"} => coreUsers = DOMAIN userList
        /\ pc \in {"limiter", "addNode"} => coreUsers = {}
        /\ pc = "addUsers" => coreUsers = DOMAIN userList \ diff.deleted
        /\ pc = "update" => coreUsers = DOMAIN newU

LEMMA UsersKept == TypeInv /\ NodeAt /\ UsersAt /\ [Next]_vars => UsersAt'
<1> SUFFICES ASSUME TypeInv, NodeAt, UsersAt, [Next]_vars, CoreSound' PROVE UsersAt'
  BY DEF UsersAt
<1>1. ~Fault("cert") /\ ~Fault("core") /\ ~hy2 /\ CoreSound /\ ~Failed("cert")
  BY SoundBefore DEF CoreSound
<1>2. CASE EditNode \/ EditUser \/ UNCHANGED vars
  <2>1. UNCHANGED <<userList, coreUsers, pc, newU, diff>>
    BY <1>2 DEF EditNode, EditUser, vars, controller, core, locals
  <2> QED BY <1>1, <2>1 DEF UsersAt
<1>3. CASE GetNodeInfo \/ GetUserList \/ Compare
  <2>1. /\ UNCHANGED <<userList, coreUsers>>
        /\ pc \in {"idle", "users", "compare"}
        /\ pc' \in {"idle", "users", "compare", "delNode", "delUsers"}
    BY <1>3 DEF GetNodeInfo, GetUserList, Compare, Return, controller, core
  <2> QED BY <1>1, <2>1 DEF UsersAt
<1>4. CASE DelNode
  BY <1>1, <1>4 DEF DelNode, OutlivesNode, UsersAt
<1>5. CASE RebuildLimiter
  BY <1>1, <1>5 DEF RebuildLimiter, UsersAt, controller, core, locals
<1>6. CASE AddNode
  BY <1>1, <1>6 DEF AddNode, UsersAt, Return, controller, core, locals
<1>7. CASE DelUsers \/ AddUsers \/ UpdateUser
  <2>1. /\ userList \in UserLists /\ newU \in UserLists
        /\ diff = CompareUserList(userList, newU)
        /\ served # Nil
    BY <1>1, <1>7, NilAssumption DEF DelUsers, AddUsers, UpdateUser, NodeAt, TypeInv, TypeOK, LocalsOK, Diffing
  <2>2. /\ diff.deleted \subseteq DOMAIN userList
        /\ diff.added \cap (DOMAIN userList \ diff.deleted) = {}
        /\ (DOMAIN userList \ diff.deleted) \cup diff.added = DOMAIN newU
    BY <2>1, DiffLeadsToNew
  <2>3. CASE DelUsers
    BY <1>1, <2>2, <2>3 DEF DelUsers, UsersAt, controller, locals
  <2>4. CASE AddUsers
    BY <1>1, <2>1, <2>2, <2>4 DEF AddUsers, UsersAt, controller, locals
  <2>5. CASE UpdateUser
    BY <1>1, <2>5 DEF UpdateUser, UsersAt, Return, core
  <2> QED BY <1>7, <2>3, <2>4, <2>5
<1> QED BY <1>2, <1>3, <1>4, <1>5, <1>6, <1>7 DEF Next, Poll

LEMMA UsersAtAlways == Spec => [](NodeAt /\ UsersAt)
<1>1. Init => UsersAt
  BY DEF Init, UsersAt
<1> QED BY <1>1, InitTypes, StepTypes, NodeAtAlways, UsersKept, PTL DEF Spec

-----------------------------------------------------------------------------
\* hysteria2's map and userList, as long as no certificate request has failed:
\* the list changes in DelNode, and AddNode makes up for it

HyUsersAt ==
    hy2 /\ ~Failed("cert") =>
        /\ pc \notin Reloading \cup {"addUsers", "update"} => DOMAIN userList \subseteq coreUsers
        /\ pc = "addUsers" => DOMAIN userList \ diff.deleted \subseteq coreUsers
        /\ pc = "update" => DOMAIN newU \subseteq coreUsers

LEMMA HyUsersKept == TypeInv /\ HyUsersAt /\ [Next]_vars => HyUsersAt'
<1> SUFFICES ASSUME TypeInv, HyUsersAt, [Next]_vars, hy2', ~Failed("cert")' PROVE HyUsersAt'
  BY DEF HyUsersAt
<1>1. ~Fault("cert") /\ hy2 /\ ~Failed("cert")
  BY FailureStays, FaultIsFailure, StepKeepsSetup DEF setup
<1>2. CASE EditNode \/ EditUser \/ UNCHANGED vars
  <2>1. UNCHANGED <<userList, coreUsers, pc, newU, diff>>
    BY <1>2 DEF EditNode, EditUser, vars, controller, core, locals
  <2> QED BY <1>1, <2>1 DEF HyUsersAt
<1>3. CASE GetNodeInfo \/ GetUserList \/ Compare
  <2>1. /\ UNCHANGED <<userList, coreUsers>>
        /\ pc \in {"idle", "users", "compare"}
        /\ pc' \in {"idle", "users", "compare", "delNode", "delUsers"}
    BY <1>3 DEF GetNodeInfo, GetUserList, Compare, Return, controller, core
  <2> QED BY <1>1, <2>1 DEF HyUsersAt, Reloading
<1>4. CASE DelNode
  BY <1>4 DEF DelNode, HyUsersAt, Reloading
<1>5. CASE RebuildLimiter
  BY <1>1, <1>5 DEF RebuildLimiter, HyUsersAt, Reloading
<1>6. CASE AddNode
  BY <1>1, <1>6 DEF AddNode, HyUsersAt, Return, controller, Reloading, core, locals
<1>7. CASE DelUsers \/ AddUsers \/ UpdateUser
  <2>1. userList \in UserLists /\ newU \in UserLists /\ diff = CompareUserList(userList, newU)
    BY <1>7 DEF DelUsers, AddUsers, UpdateUser, TypeInv, TypeOK, LocalsOK, Diffing
  <2>2. (DOMAIN userList \ diff.deleted) \cup diff.added = DOMAIN newU
    BY <2>1, DiffLeadsToNew
  <2>3. CASE DelUsers
    BY <1>1, <2>3 DEF DelUsers, HyUsersAt, controller, locals, Reloading
  <2>4. CASE AddUsers
    BY <1>1, <2>2, <2>4 DEF AddUsers, HyUsersAt, controller, locals, Reloading
  <2>5. CASE UpdateUser
    BY <1>1, <2>5 DEF UpdateUser, HyUsersAt, Return, core, Reloading
  <2> QED BY <1>7, <2>3, <2>4, <2>5
<1> QED BY <1>2, <1>3, <1>4, <1>5, <1>6, <1>7 DEF Next, Poll

\* Failed requests to the panel never put the core out of step with what the
\* controller believes it serves; hysteria2, no core call either.
THEOREM CoreInStepAlways == Spec => []CoreInStep
<1>1. NodeAt /\ UsersAt /\ HyUsersAt => CoreInStep
  BY DEF NodeAt, UsersAt, HyUsersAt, CoreInStep, CoreSound, Reloading
<1>2. Init => HyUsersAt
  BY DEF Init, HyUsersAt
<1> QED BY <1>1, <1>2, InitTypes, StepTypes, HyUsersKept, UsersAtAlways, PTL DEF Spec

\* A user is admitted without limits only while AddUsers has and UpdateUser
\* has not yet added it.
THEOREM AdmittedAreLimitedAlways == Spec => []AdmittedAreLimited
<1>1. TypeInv /\ UsersAt /\ LimiterInStep => AdmittedAreLimited
  <2> SUFFICES ASSUME TypeInv, UsersAt, LimiterInStep, ~named, CoreSound
               PROVE  coreUsers \ DOMAIN limits \subseteq (IF pc = "update" THEN diff.added ELSE {})
    BY DEF AdmittedAreLimited
  <2>1. CASE pc \in {"limiter", "addNode"}
    BY <2>1 DEF UsersAt
  <2>2. CASE pc = "update"
    <3>1. userList \in UserLists /\ newU \in UserLists /\ diff = CompareUserList(userList, newU)
      BY <2>2 DEF TypeInv, TypeOK, LocalsOK, Diffing
    <3>2. DOMAIN newU = (DOMAIN userList \ diff.deleted) \cup diff.added
      BY <3>1, DiffLeadsToNew
    <3> QED BY <2>2, <3>2 DEF UsersAt, LimiterInStep
  <2>3. CASE pc \notin {"limiter", "addNode", "update"}
    BY <2>3 DEF UsersAt, LimiterInStep, TypeInv, TypeOK
  <2> QED BY <2>1, <2>2, <2>3
<1> QED BY <1>1, InitTypes, StepTypes, LimiterInStepAlways, UsersAtAlways, PTL DEF Spec

\* Whoever the core of an unnamed node admits is limited as userList says,
\* through failed requests, reloads and diffs.
THEOREM UsersAreLimitedAlways == Spec => []UsersAreLimited
<1> QED BY LimiterInStepAlways, AdmittedAreLimitedAlways, PTL DEF UsersAreLimited
-----------------------------------------------------------------------------
\* What the client remembers and what the controller has applied

\* As long as every request has been answered, a config is in hand only if it
\* is not the one in use, and none that was seen is forgotten.
NodeSeenAt ==
    ~Failed("node") /\ ~Failed("users") =>
        /\ pc \notin {"users", "delNode"} => nodeSeen = info
        /\ pc \in {"users", "delNode"} => IF newN = Nil THEN nodeSeen = info ELSE nodeSeen = newN /\ newN # info

\* A list that was seen and is not empty is userList, or is on its way there.
UsersSeenAt ==
    ~Failed("cert") /\ ~Failed("core") /\ DOMAIN userSeen # {} =>
        /\ pc \in {"idle", "users", "limiter", "addNode"} => userList = userSeen
        /\ pc \in {"compare", "delNode"} => IF newU = Nil THEN userList = userSeen ELSE newU = userSeen
        /\ pc \in Diffing => newU = userSeen

LEMMA NodeSeenKept == TypeInv /\ NodeSeenAt /\ [Next]_vars => NodeSeenAt'
<1> SUFFICES ASSUME TypeInv, NodeSeenAt, [Next]_vars, ~Failed("node")', ~Failed("users")' PROVE NodeSeenAt'
  BY DEF NodeSeenAt
<1>1. ~Failed("node") /\ ~Failed("users") /\ ~Fault("node") /\ ~Fault("users")
  BY FailureStays, FaultIsFailure
<1>2. CASE EditNode \/ EditUser \/ UNCHANGED vars
  <2>1. UNCHANGED <<nodeSeen, info, pc, newN>>
    BY <1>2 DEF EditNode, EditUser, vars, client, controller, locals
  <2> QED BY <1>1, <2>1 DEF NodeSeenAt
<1>3. CASE GetNodeInfo
  <2>1. pNode # Nil
    BY NilAssumption DEF TypeInv, TypeOK
  <2>2. newN' = (IF nodeSeen = pNode THEN Nil ELSE pNode) /\ nodeSeen' = pNode /\ pc' = "users"
    BY <1>1, <1>3 DEF GetNodeInfo
  <2>3. nodeSeen = info /\ info' = info
    BY <1>1, <1>3 DEF GetNodeInfo, NodeSeenAt, controller
  <2> QED BY <2>1, <2>2, <2>3 DEF NodeSeenAt
<1>4. CASE GetUserList
  BY <1>1, <1>4 DEF GetUserList, NodeSeenAt, controller
<1>5. CASE DelNode
  <2>1. newN # Nil
    BY <1>5, NilAssumption DEF DelNode, TypeInv, LocalsOK, Reloading
  <2> QED BY <1>1, <1>5, <2>1 DEF DelNode, NodeSeenAt, client
<1>6. CASE RebuildLimiter \/ AddNode \/ Compare \/ DelUsers \/ AddUsers \/ UpdateUser
  <2>1. UNCHANGED <<nodeSeen, info>> /\ pc \notin {"users", "delNode"} /\ pc' \notin {"users", "delNode"}
    BY <1>6 DEF RebuildLimiter, AddNode, Compare, DelUsers, AddUsers, UpdateUser, Return, client, controller
  <2> QED BY <1>1, <2>1 DEF NodeSeenAt
<1> QED BY <1>2, <1>3, <1>4, <1>5, <1>6 DEF Next, Poll

\* Neither DelUsers nor AddUsers ends a poll but by a failure of the core.
LEMMA DiffIsCarriedOut ==
    ASSUME TypeInv, NodeAt, UsersAt, [Next]_vars, ~Failed("cert")', ~Failed("core")', DelUsers \/ AddUsers
    PROVE  pc' \in {"addUsers", "update"} /\ UNCHANGED <<userSeen, newU>>
<1>1. ~Failed("cert") /\ ~Failed("core") /\ ~Fault("core")
  BY FailureStays, FaultIsFailure
<1>2. /\ userList \in UserLists /\ newU \in UserLists
      /\ diff = CompareUserList(userList, newU)
      /\ served # Nil
  BY <1>1, NilAssumption DEF DelUsers, AddUsers, NodeAt, TypeInv, TypeOK, LocalsOK, Diffing
<1>3. /\ diff.deleted \subseteq DOMAIN userList
      /\ diff.added \cap (DOMAIN userList \ diff.deleted) = {}
  BY <1>2, DiffLeadsToNew
<1>4. CASE DelUsers
  <2>1. ~hy2 => coreUsers = DOMAIN userList
    BY <1>1, <1>4 DEF DelUsers, UsersAt, CoreSound
  <2> QED BY <1>1, <1>3, <1>4, <2>1 DEF DelUsers, locals, client
<1>5. CASE AddUsers
  <2>1. ~hy2 => coreUsers = DOMAIN userList \ diff.deleted
    BY <1>1, <1>5 DEF AddUsers, UsersAt, CoreSound
  <2> QED BY <1>1, <1>2, <1>3, <1>5, <2>1 DEF AddUsers, locals, client
<1> QED BY <1>4, <1>5

LEMMA UsersSeenKept == TypeInv /\ NodeAt /\ UsersAt /\ UsersSeenAt /\ [Next]_vars => UsersSeenAt'
<1> SUFFICES ASSUME TypeInv, NodeAt, UsersAt, UsersSeenAt, [Next]_vars,
                    ~Failed("cert")', ~Failed("core")', DOMAIN userSeen' # {}
             PROVE  UsersSeenAt'
  BY DEF UsersSeenAt
<1>1. ~Failed("cert") /\ ~Failed("core") /\ ~Fault("cert") /\ ~Fault("core")
  BY FailureStays, FaultIsFailure
<1>2. CASE EditNode \/ EditUser \/ UNCHANGED vars
  <2>1. UNCHANGED <<userSeen, userList, pc, newU>>
    BY <1>2 DEF EditNode, EditUser, vars, client, controller, locals
  <2> QED BY <1>1, <2>1 DEF UsersSeenAt
<1>3. CASE GetNodeInfo
  <2>1. UNCHANGED <<userSeen, userList>> /\ pc = "idle" /\ pc' \in {"idle", "users"}
    BY <1>3 DEF GetNodeInfo, Return, controller
  <2> QED BY <1>1, <2>1 DEF UsersSeenAt, Diffing
<1>4. CASE GetUserList
  <2>1. pUsers # Nil
    BY NilAssumption DEF TypeInv, TypeOK
  <2>2. CASE Fault("users") /\ Return /\ UNCHANGED userSeen
    BY <1>1, <1>4, <2>2 DEF GetUserList, Return, UsersSeenAt, Diffing, controller
  <2>3. CASE userSeen' = pUsers /\ pc' \in {"delNode", "compare"}
    <3>1. pc = "users" /\ userList' = userList
      BY <1>4 DEF GetUserList, controller
    <3>2. CASE userSeen = pUsers
      <4>1. newU' = Nil \/ Return
        BY <1>4, <3>2 DEF GetUserList
      <4> QED BY <1>1, <2>3, <3>1, <3>2, <4>1 DEF UsersSeenAt, Diffing, Return
    <3>3. CASE userSeen # pUsers
      <4>1. newU' = pUsers
        BY <1>4, <2>3, <3>3 DEF GetUserList, Return
      <4> QED BY <2>1, <2>3, <4>1 DEF UsersSeenAt, Diffing
    <3> QED BY <3>2, <3>3
  <2> QED BY <1>4, <2>2, <2>3 DEF GetUserList
<1>5. CASE DelNode
  BY <1>1, <1>5 DEF DelNode, UsersSeenAt, client, Diffing
<1>6. CASE RebuildLimiter \/ AddNode
  <2>1. UNCHANGED <<userSeen, userList>> /\ pc \in {"limiter", "addNode"} /\ pc' \in {"limiter", "addNode", "idle"}
    BY <1>6 DEF RebuildLimiter, AddNode, Return, client, controller
  <2> QED BY <1>1, <2>1 DEF UsersSeenAt, Diffing
<1>7. CASE Compare
  BY <1>1, <1>7 DEF Compare, UsersSeenAt, Return, client, controller, Diffing
<1>8. CASE DelUsers \/ AddUsers
  <2>1. pc' \in {"addUsers", "update"} /\ UNCHANGED <<userSeen, newU>> /\ pc \in Diffing
    BY <1>8, DiffIsCarriedOut DEF DelUsers, AddUsers, Diffing
  <2> QED BY <1>1, <2>1 DEF UsersSeenAt, Diffing
<1>9. CASE UpdateUser
  BY <1>1, <1>9 DEF UpdateUser, UsersSeenAt, Return, client, Diffing
<1> QED BY <1>2, <1>3, <1>4, <1>5, <1>6, <1>7, <1>8, <1>9 DEF Next, Poll

LEMMA SeenAlways == Spec => [](TypeInv /\ NodeSeenAt /\ UsersSeenAt)
<1>1. Init => NodeSeenAt /\ UsersSeenAt
  BY DEF Init, NodeSeenAt, UsersSeenAt, Diffing
<1> QED BY <1>1, InitTypes, StepTypes, NodeSeenKept, UsersSeenKept, UsersAtAlways, PTL DEF Spec

\* A step that admits somebody admits users of the last list, and one that
\* tears the node down has a config in hand that differs.
LEMMA StepFollows ==
    ASSUME TypeInv, NodeSeenAt, UsersSeenAt, [Next]_vars
    PROVE  /\ ~Failed("cert") /\ ~Failed("core") /\ DOMAIN userSeen # {} =>
                coreUsers' \ coreUsers \subseteq DOMAIN userSeen
           /\ ~Failed("node") /\ ~Failed("users") /\ served' = Nil /\ served # Nil => newN # info
<1>1. CASE EditNode \/ EditUser \/ GetNodeInfo \/ GetUserList \/ RebuildLimiter \/ Compare \/ UpdateUser \/ UNCHANGED vars
  BY <1>1 DEF EditNode, EditUser, GetNodeInfo, GetUserList, RebuildLimiter, Compare, UpdateUser, vars, core
<1>2. CASE DelNode
  <2>1. newN # Nil
    BY <1>2, NilAssumption DEF DelNode, TypeInv, LocalsOK, Reloading
  <2> QED BY <1>2, <2>1 DEF DelNode, OutlivesNode, NodeSeenAt
<1>3. CASE AddNode
  <2>1. newN # Nil
    BY <1>3, NilAssumption DEF AddNode, TypeInv, LocalsOK, Reloading
  <2> QED BY <1>3, <2>1 DEF AddNode, UsersSeenAt, core
<1>4. CASE DelUsers
  BY <1>4 DEF DelUsers
<1>5. CASE AddUsers
  <2>1. diff.added \subseteq DOMAIN newU /\ pc \in Diffing
    BY <1>5 DEF AddUsers, TypeInv, LocalsOK, Diffing, CompareUserList
  <2> QED BY <1>5, <2>1 DEF AddUsers, UsersSeenAt
<1> QED BY <1>1, <1>2, <1>3, <1>4, <1>5 DEF Next, Poll

\* A poll does to the core what the panel's answers call for: whoever comes to
\* be admitted is on the last list, and only a config that differs costs the
\* connections of the one in use.
THEOREM PollFollowsAnswersAlways == Spec => PollFollowsAnswers
<1>1. TypeInv /\ NodeSeenAt /\ UsersSeenAt /\ [Next]_vars =>
        /\ [~Failed("cert") /\ ~Failed("core") /\ DOMAIN userSeen # {} =>
              coreUsers' \ coreUsers \subseteq DOMAIN userSeen]_vars
        /\ [~Failed("node") /\ ~Failed("users") /\ served' = Nil /\ served # Nil => newN # info]_vars
  BY StepFollows
<1> QED BY <1>1, SeenAlways, PTL DEF Spec, PollFollowsAnswers, OnlyListedAdmitted, NoNeedlessReload
=============================================================================
