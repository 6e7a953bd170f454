------------------------------ MODULE NodeSync ------------------------------
(***************************************************************************)
(* How a node follows its panel: nodeInfoMonitor polls the node config and  *)
(* the user list, which the panel client remembers by body hash and ETag,   *)
(* and brings three tables in step with them: the core's users, the         *)
(* limiter's users, and the controller's own userList.                      *)
(*                                                                          *)
(* A user is a uuid; a profile is its speed and device limit (0 = none).    *)
(* The module starts where Controller.Start ends and has one poller.  Each  *)
(* request to the panel is a step, so the panel may change between the two; *)
(* so is each call that changes the core or the limiter.                    *)
(*                                                                          *)
(* xray and sing keep a node's users in its inbound, which DelNode removes; *)
(* hysteria2 keeps them in one map that AddUsers and DelUsers alone change, *)
(* and that never fails.                                                    *)
(***************************************************************************)
EXTENDS Naturals, FiniteSets, Functions

CONSTANTS
    Users,      \* uuids
    Speeds, Devices, \* values of the two limits
    Configs,    \* node configs, as the panel's response bodies
    BadRules,   \* those with a rule that is no regular expression
    MayFail,    \* the calls that may fail: "node", "users", "cert", "addNode", and
                \*   "core": AddUsers and DelUsers
    MayEmpty,   \* whether the panel's user list may become empty
    MaxEdits,   \* bound: edits on the panel
    MaxFaults,  \* bound: failed calls, of all kinds together
    Nil         \* no value: Go's nil, an absent node, an error body

Profiles == [speed : Speeds, device : Devices]
UserLists == UNION {[S -> Profiles] : S \in SUBSET Users}

ASSUME NilAssumption == Nil \notin Configs \cup UserLists
ASSUME BadRulesAssumption == BadRules \subseteq Configs
ASSUME BoundsAssumption == MaxEdits \in Nat /\ MaxFaults \in Nat
ASSUME MayEmptyAssumption == MayEmpty \in BOOLEAN

VARIABLES
    named, hy2,          \* whether Options.Name is set; whether the core is hysteria2
    pNode, pUsers,       \* what the panel would answer now
    nodeSeen, userSeen,  \* client: responseBodyHash (with nodeEtag), userEtag
    info, userList,      \* controller: c.info, c.userList
    served, coreUsers,   \* core: the config it serves, the users it knows
    limits,              \* limiter: UserLimitInfo
    pc, newN, newU, diff, \* locals of the poll
    edits, faults, panicked \* faults: how often each call has failed

setup == <<named, hy2>>
panel == <<setup, pNode, pUsers, edits>>
client == <<nodeSeen, userSeen>>
controller == <<info, userList>>
core == <<served, coreUsers>>
locals == <<newN, newU, diff>>
vars == <<panel, client, controller, core, limits, pc, locals, faults, panicked>>

NoDiff == [deleted |-> {}, added |-> {}]

\* Controller.Start has succeeded with a user list that is not empty, and rules
\* that compile.
Init ==
    /\ named \in BOOLEAN /\ hy2 \in BOOLEAN
    /\ pNode \in Configs \ BadRules
    /\ pUsers \in {l \in UserLists : DOMAIN l # {}}
    /\ nodeSeen = pNode /\ userSeen = pUsers
    /\ info = pNode /\ userList = pUsers
    /\ served = pNode /\ coreUsers = DOMAIN pUsers
    /\ limits = pUsers
    /\ pc = "idle" /\ newN = Nil /\ newU = Nil /\ diff = NoDiff
    /\ edits = 0 /\ faults = [call \in MayFail |-> 0] /\ panicked = FALSE

MayFailAgain == FoldFunction(+, 0, faults) < MaxFaults
Fault(call) ==
    /\ call \in MayFail /\ MayFailAgain
    /\ faults' = [faults EXCEPT ![call] = @ + 1]
Failed(call) == call \in MayFail /\ faults[call] > 0

-----------------------------------------------------------------------------
\* The panel's operator edits the node, or one user

EditNode ==
    /\ edits < MaxEdits
    /\ pNode' \in Configs \ {pNode}
    /\ edits' = edits + 1
    /\ UNCHANGED <<setup, pUsers, client, controller, core, limits, pc, locals, faults, panicked>>

EditUser ==
    /\ edits < MaxEdits
    /\ \E u \in Users :
        \/ \E p \in Profiles : pUsers' = [v \in DOMAIN pUsers \cup {u} |-> IF v = u THEN p ELSE pUsers[v]]
        \/ pUsers' = Restrict(pUsers, DOMAIN pUsers \ {u})
    /\ pUsers' # pUsers
    /\ DOMAIN pUsers' # {} \/ MayEmpty
    /\ edits' = edits + 1
    /\ UNCHANGED <<setup, pNode, client, controller, core, limits, pc, locals, faults, panicked>>

-----------------------------------------------------------------------------
\* The poll

Return == pc' = "idle" /\ newN' = Nil /\ newU' = Nil /\ diff' = NoDiff

\* Mutant: the config is remembered before it has been received.
GetNodeInfo_EtagFirst ==
    /\ pc = "idle"
    /\ nodeSeen' = pNode
    /\ \/ /\ newN' = IF nodeSeen = pNode THEN Nil ELSE pNode
          /\ pc' = "users"
          /\ UNCHANGED <<faults, newU, diff>>
       \/ Fault("node") /\ Return
    /\ UNCHANGED <<panel, userSeen, controller, core, limits, panicked>>

\* GetNodeInfo: 304 and an unchanged body both mean nil.  The body is hashed
\* and remembered before its status is looked at, error bodies included (one
\* error body, the empty one of a failed request, stands for all): the second
\* error in a row reads as "unchanged".
GetNodeInfo ==
    /\ pc = "idle"
    /\ \/ /\ newN' = IF nodeSeen = pNode THEN Nil ELSE pNode
          /\ nodeSeen' = pNode
          /\ pc' = "users"
          /\ UNCHANGED <<faults, newU, diff>>
       \/ /\ Fault("node")
          /\ nodeSeen' = Nil
          /\ IF nodeSeen = Nil THEN pc' = "users" /\ UNCHANGED locals ELSE Return
    /\ UNCHANGED <<panel, userSeen, controller, core, limits, panicked>>

\* GetUserList remembers the ETag of a list it could decode.  An empty list
\* decodes to nil from JSON and to an empty slice from msgpack.
\* (GetUserAlive, called next, cannot fail and feeds module Limiter only.)
GetUserList ==
    /\ pc = "users"
    /\ \/ /\ newU' \in IF userSeen = pUsers THEN {Nil}
                       ELSE IF DOMAIN pUsers = {} THEN {Nil, pUsers} ELSE {pUsers}
          /\ userSeen' = pUsers
          /\ pc' = IF newN # Nil THEN "delNode" ELSE "compare"
          /\ UNCHANGED <<faults, newN, diff>>
       \/ Fault("users") /\ Return /\ UNCHANGED userSeen
    /\ UNCHANGED <<panel, nodeSeen, controller, core, limits, panicked>>

\* The users that the core still admits when a node is deleted
OutlivesNode == IF hy2 THEN coreUsers ELSE {}

\* Mutants of the reload: a list that is nil is stored; the list is not stored;
\* the guard on the name is inverted; the reload ends with the node deleted.
DelNode_KeepsNil ==
    /\ pc = "delNode" /\ pc' = "limiter"
    /\ info' = newN /\ userList' = newU
    /\ panicked' = (served = Nil)
    /\ served' = Nil /\ coreUsers' = OutlivesNode
    /\ UNCHANGED <<panel, client, limits, locals, faults>>
DelNode_OldList ==
    /\ pc = "delNode" /\ pc' = "limiter"
    /\ info' = newN
    /\ panicked' = (served = Nil)
    /\ served' = Nil /\ coreUsers' = OutlivesNode
    /\ UNCHANGED <<userList, panel, client, limits, locals, faults>>
RebuildLimiter_Inverted ==
    /\ pc = "limiter" /\ pc' = "addNode"
    /\ limits' = IF named THEN userList ELSE limits
    /\ UNCHANGED <<locals, faults, panel, client, controller, core, panicked>>
RebuildLimiter_EndsPoll ==
    /\ pc = "limiter" /\ Return
    /\ limits' = IF named THEN limits ELSE userList
    /\ UNCHANGED <<faults, panel, client, controller, core, panicked>>

\* The node changed: the controller takes the new values before it deletes
\* the old node; DelNode of a node the core does not have panics.
DelNode ==
    /\ pc = "delNode"
    /\ info' = newN
    /\ userList' = IF newU # Nil THEN newU ELSE userList
    /\ panicked' = (served = Nil)
    /\ served' = Nil /\ coreUsers' = OutlivesNode
    /\ pc' = "limiter"
    /\ UNCHANGED <<panel, client, limits, locals, faults>>

\* Only a node without a configured name gets a new limiter.  UpdateRule compiles
\* the rules with MustCompile, which panics; a certificate that cannot be had
\* ends the poll.
RebuildLimiter ==
    /\ pc = "limiter"
    /\ limits' = IF named THEN limits ELSE userList
    /\ \/ newN \in BadRules /\ panicked' = TRUE /\ UNCHANGED <<pc, locals, faults>>
       \/ /\ newN \notin BadRules /\ UNCHANGED panicked
          /\ \/ pc' = "addNode" /\ UNCHANGED <<locals, faults>>
             \/ Fault("cert") /\ Return
    /\ UNCHANGED <<panel, client, controller, core>>

\* AddNode, whose failure is a log.Panic, then AddUsers, which stops at the first
\* user it cannot add.
AddNode ==
    /\ pc = "addNode"
    /\ \/ /\ served' = newN
          /\ \/ coreUsers' = coreUsers \cup DOMAIN userList /\ UNCHANGED faults
             \/ ~hy2 /\ Fault("core") /\ coreUsers' \in SUBSET DOMAIN userList
          /\ Return /\ UNCHANGED panicked
       \/ Fault("addNode") /\ panicked' = TRUE /\ UNCHANGED <<core, pc, locals>>
    /\ UNCHANGED <<panel, client, controller, limits>>

\* compareUserList: users are matched by uuid and speed limit.
KeyIn(u, l, m) == u \in DOMAIN m /\ m[u].speed = l[u].speed
CompareUserList(old, new) ==
    [deleted |-> {u \in DOMAIN old : ~KeyIn(u, old, new)},
     added   |-> {u \in DOMAIN new : ~KeyIn(u, new, old)}]

\* The node did not change.  A list that is nil or empty ends the poll.
Compare ==
    /\ pc = "compare"
    /\ IF newU = Nil \/ DOMAIN newU = {} THEN Return
       ELSE /\ diff' = CompareUserList(userList, newU)
            /\ pc' = "delUsers"
            /\ UNCHANGED <<newN, newU>>
    /\ UNCHANGED <<panel, client, controller, core, limits, faults, panicked>>

\* A core removes users one by one and fails at one it does not know, and so
\* at all of them when the node is gone; the poll then ends.  hysteria2 knows
\* all that it is asked to remove, but panics when the node is gone.
DelUsers ==
    /\ pc = "delUsers"
    /\ \/ /\ hy2 \/ diff.deleted \subseteq coreUsers
          /\ coreUsers' = coreUsers \ diff.deleted
          /\ panicked' = (diff.deleted # {} /\ served = Nil)
          /\ pc' = "addUsers" /\ UNCHANGED <<locals, faults>>
       \/ /\ ~hy2 /\ UNCHANGED panicked
          /\ \/ ~(diff.deleted \subseteq coreUsers) /\ UNCHANGED faults
             \/ diff.deleted # {} /\ Fault("core")
          /\ \E gone \in SUBSET (diff.deleted \cap coreUsers) : coreUsers' = coreUsers \ gone
          /\ Return
    /\ UNCHANGED <<panel, client, controller, served, limits>>

\* Likewise AddUsers fails at a user the core has already.
AddUsers ==
    /\ pc = "addUsers"
    /\ \/ /\ hy2 \/ diff.added = {} \/ (served # Nil /\ diff.added \cap coreUsers = {})
          /\ coreUsers' = coreUsers \cup diff.added
          /\ pc' = "update" /\ UNCHANGED <<locals, faults>>
       \/ /\ ~hy2 /\ diff.added # {}
          /\ \/ served = Nil /\ UNCHANGED <<coreUsers, faults>>
             \/ /\ served # Nil
                /\ (diff.added \cap coreUsers # {} /\ UNCHANGED faults) \/ Fault("core")
                /\ \E new \in SUBSET diff.added : coreUsers' = coreUsers \cup new
          /\ Return
    /\ UNCHANGED <<panel, client, controller, served, limits, panicked>>

\* What limiter.UpdateUser makes of a table: it deletes, then adds.
Updated(l, d, m) == [u \in (DOMAIN l \ d.deleted) \cup d.added |-> IF u \in d.added THEN m[u] ELSE l[u]]

\* Mutant: the list is not stored.
UpdateUser_KeepsList ==
    /\ pc = "update" /\ Return
    /\ limits' = Updated(limits, diff, newU)
    /\ UNCHANGED <<panel, client, controller, core, faults, panicked>>

\* limiter.UpdateUser when anything changed, then c.userList.
UpdateUser ==
    /\ pc = "update"
    /\ limits' = Updated(limits, diff, newU)
    /\ userList' = newU
    /\ Return
    /\ UNCHANGED <<panel, client, info, core, faults, panicked>>

Poll ==
    \/ GetNodeInfo \/ GetUserList
    \/ DelNode \/ RebuildLimiter \/ AddNode
    \/ Compare \/ DelUsers \/ AddUsers \/ UpdateUser

Next == ~panicked /\ (EditNode \/ EditUser \/ Poll)

Spec == Init /\ [][Next]_vars
\* The monitor task polls again and again (module Task: RunningTaskExecutes).
FairSpec == Spec /\ WF_vars(~panicked /\ Poll)

-----------------------------------------------------------------------------
\* Properties

TypeOK ==
    /\ named \in BOOLEAN /\ hy2 \in BOOLEAN
    /\ pNode \in Configs /\ pUsers \in UserLists
    /\ nodeSeen \in Configs \cup {Nil} /\ userSeen \in UserLists
    /\ info \in Configs /\ userList \in UserLists
    /\ served \in Configs \cup {Nil} /\ coreUsers \in SUBSET Users
    /\ limits \in UserLists
    /\ pc \in {"idle", "users", "delNode", "limiter", "addNode", "compare",
               "delUsers", "addUsers", "update"}
    /\ newN \in Configs \cup {Nil} /\ newU \in UserLists \cup {Nil}
    /\ diff \in [deleted : SUBSET Users, added : SUBSET Users]
    /\ edits \in 0..MaxEdits /\ faults \in [MayFail -> Nat] /\ panicked \in BOOLEAN

\* Neither certificates nor calls into the core have failed, and the core keeps
\* a node's users in its inbound.
CoreSound == ~hy2 /\ ~Failed("cert") /\ ~Failed("core")

\* Between polls the core serves the config and exactly the users that the
\* controller believes it serves, whatever requests to the panel have failed.
\* hysteria2, whose map outlives reloads, admits at least these.
CoreInStep ==
    pc = "idle" =>
        /\ CoreSound => served = info /\ coreUsers = DOMAIN userList
        /\ hy2 /\ ~Failed("cert") => DOMAIN userList \subseteq coreUsers

\* The limiter of an unnamed node has the users and the speed limits of
\* userList, except inside the reload that is replacing both.
LimiterInStep ==
    ~named /\ pc # "limiter" =>
        /\ DOMAIN limits = DOMAIN userList
        /\ \A u \in DOMAIN limits : limits[u].speed = userList[u].speed

\* A user whom the core admits but the limiter does not know has every
\* connection rejected (CheckLimit).  That is so only between AddUsers and
\* UpdateUser, and only for the users just added.
AdmittedAreLimited ==
    ~named /\ CoreSound => coreUsers \ DOMAIN limits \subseteq (IF pc = "update" THEN diff.added ELSE {})

\* What the core admits, the limiter of an unnamed node limits as userList says.
UsersAreLimited == LimiterInStep /\ AdmittedAreLimited

\* The process dies of a poll (log.Panic, MustCompile) only if the core did not take
\* the new node, the panel has sent a rule that does not compile, or a certificate
\* could not be had earlier, after which DelNode or DelUsers misses the node.
\* Requests to the panel that fail, and users that the core does not take, are
\* survived, also by the polls that follow.
NoPanic == panicked => Failed("cert") \/ Failed("addNode") \/ info \in BadRules

\* Whoever the core begins to admit is on the last list the panel has sent.
\* (An empty list is not applied, and one that could not be is not retried.)
OnlyListedAdmitted ==
    [][~Failed("cert") /\ ~Failed("core") /\ DOMAIN userSeen # {} =>
          coreUsers' \ coreUsers \subseteq DOMAIN userSeen]_vars

\* A node is torn down only to install a config that differs, as long as the
\* panel has answered every request.
NoNeedlessReload ==
    [][~Failed("node") /\ ~Failed("users") /\ served' = Nil /\ served # Nil => newN # info]_vars

\* The poll does to the core what the panel's answers call for, nothing more.
PollFollowsAnswers == OnlyListedAdmitted /\ NoNeedlessReload

\* Once the panel and the network are quiet, the users come to be those of the
\* panel (hysteria2 keeps others too) and, for an unnamed node, their speed
\* limits to be the panel's, whatever requests have failed.  A failed certificate
\* or core call is not made good, a list without users is not applied, and a
\* process may die (NoPanic says of what).
UsersConverge ==
    <>[](\/ panicked \/ Failed("cert") \/ Failed("core") \/ DOMAIN pUsers = {}
         \/ /\ DOMAIN pUsers \subseteq coreUsers /\ (hy2 \/ coreUsers = DOMAIN pUsers)
            /\ ~named => /\ DOMAIN limits = DOMAIN pUsers
                         /\ \A u \in DOMAIN pUsers : limits[u].speed = pUsers[u].speed)

\* Once the panel and the network are quiet, the config comes to be the panel's,
\* unless a user list could not be had (see UnchangedMeansApplied), a certificate
\* or the core has failed.
ConfigConverges == <>[](served = pNode \/ panicked \/ \E call \in {"users", "cert", "core"} : Failed(call))

\* The node comes to be what the panel says it is.
PanelIsFollowed == UsersConverge /\ ConfigConverges

\* "node no changed" (node/task.go:174): the config in use is the last one received.
UnchangedMeansApplied == pc = "compare" /\ nodeSeen # Nil => info = nodeSeen
=============================================================================
