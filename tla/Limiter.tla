------------------------------- MODULE Limiter -------------------------------
(***************************************************************************)
(* limiter.Limiter's device limit: CheckLimit, called by every connection   *)
(* in a goroutine of its own, and GetOnlineDevice, called by the report     *)
(* task, both working on sync.Maps without a lock of their own.  Each       *)
(* sync.Map operation is a step.                                            *)
(*                                                                          *)
(* UserOnlineIP maps a user to an ipMap.  The ipMap a connection brings is  *)
(* named by the connection, so table[u] = c says that the map c made is the *)
(* one installed for u, and ips[c] is what that map holds.  Speed limits    *)
(* are left out: they neither read nor write these maps.  The dynamic limit *)
(* is never set: its task is not started (node/task.go:44).                 *)
(***************************************************************************)
EXTENDS Naturals, FiniteSets

CONSTANTS
    Users, IPs,
    Devices,      \* the <<user, ip>> pairs that connect
    Conns,        \* connections, each checked once
    Limits,       \* device limits, 0 = none
    AliveCounts,  \* counts in the panel's alive list
    Unknown,      \* no UserLimitInfo for the user
    None,         \* no entry in a map
    MaxInFlight,  \* bound: CheckLimit, GetOnlineDevice and UpdateUser calls that overlap
    MaxReports, MaxUpdates \* bounds

ASSUME DevicesAssumption == Devices \subseteq Users \X IPs
ASSUME NoneAssumption == None \notin Conns \cup Users
ASSUME BoundsAssumption == MaxReports \in Nat /\ MaxUpdates \in Nat
ASSUME CountsAssumption == Limits \subseteq Nat /\ AliveCounts \subseteq Nat

VARIABLES
    serial,   \* in this behaviour calls take turns, and users share no IP
    limit,    \* UserLimitInfo, as each user's device limit or Unknown
    alive,    \* AliveList
    table,    \* UserOnlineIP
    ips,      \* the contents of each ipMap
    old,      \* OldUserOnline
    pc, dev,  \* of each connection: where it is in CheckLimit, its <<user, ip>>
    seen,     \* of each connection: the limit, alive count and ipMap it has read
    reporting, \* a GetOnlineDevice call is under way
    unvisited, \* GetOnlineDevice: the users whose entry Range has yet to visit
    copied,   \* GetOnlineDevice: the user whose entry it is about to delete
    counted,  \* devices reported, ever (history)
    reports, updates,
    removal   \* UpdateUser under way: whom it removes, the limit it will store

fixed == <<serial, dev>>
tables == <<limit, alive, table, ips, old>>
reporter == <<reporting, unvisited, copied, counted, reports>>
updater == <<updates, removal>>
vars == <<fixed, tables, pc, seen, reporter, updater>>

User(c) == dev[c][1]
IP(c) == dev[c][2]
Nothing == [limit |-> 0, alive |-> 0, map |-> None]
Nobody == [at |-> "none", user |-> None, limit |-> Unknown]

InCheck == {c \in Conns : pc[c] \notin {"new", "admitted", "refused"}}
InFlight == Cardinality(InCheck) + (IF reporting THEN 1 ELSE 0) + (IF removal = Nobody THEN 0 ELSE 1)
MayBegin == InFlight < IF serial THEN 1 ELSE MaxInFlight

Init ==
    /\ serial \in BOOLEAN
    /\ limit \in [Users -> Limits \cup {Unknown}]
    /\ alive \in [Users -> AliveCounts]
    /\ table = [u \in Users |-> None]
    /\ ips = [c \in Conns |-> {}]
    /\ old = [i \in IPs |-> None]
    /\ pc = [c \in Conns |-> "new"]
    /\ dev \in [Conns -> Devices]
    /\ serial => \A c, d \in Conns : IP(c) = IP(d) => User(c) = User(d)
    /\ seen = [c \in Conns |-> Nothing]
    /\ reporting = FALSE /\ unvisited = {} /\ copied = None /\ counted = {}
    /\ reports = 0 /\ updates = 0 /\ removal = Nobody

-----------------------------------------------------------------------------
\* CheckLimit

Goto(c, place) == pc' = [pc EXCEPT ![c] = place]

\* Mutants of CheckLimit: an unknown user is not refused; the device limit is
\* off by one; a refused device stays in the table.
LoadInfo_Unguarded(c) ==
    /\ pc[c] = "new" /\ MayBegin
    /\ Goto(c, "store") /\ seen' = [seen EXCEPT ![c].limit = limit[User(c)]]
    /\ UNCHANGED <<tables, fixed, reporter, updater>>
OverLimit_OffByOne(c) == seen[c].limit > 0 /\ seen[c].limit < seen[c].alive
Undo_KeepsIP(c) ==
    /\ pc[c] = "undo" /\ Goto(c, "refused")
    /\ UNCHANGED <<tables, fixed, seen, reporter, updater>>

\* UserLimitInfo.Load: a user the limiter does not know is refused.
LoadInfo(c) ==
    /\ pc[c] = "new" /\ MayBegin
    /\ IF limit[User(c)] = Unknown
       THEN Goto(c, "refused") /\ UNCHANGED seen
       ELSE Goto(c, "store") /\ seen' = [seen EXCEPT ![c].limit = limit[User(c)]]
    /\ UNCHANGED <<tables, fixed, reporter, updater>>

\* AliveList[uid], then UserOnlineIP.LoadOrStore(taguuid, newipMap)
StoreMap(c) ==
    /\ pc[c] = "store"
    /\ LET u == User(c)
           m == IF table[u] = None THEN c ELSE table[u]
       IN  /\ seen' = [seen EXCEPT ![c].alive = alive[u], ![c].map = m]
           /\ \/ /\ table[u] = None
                 /\ table' = [table EXCEPT ![u] = c]
                 /\ ips' = [ips EXCEPT ![c] = {IP(c)}]
                 /\ Goto(c, "old")
              \/ table[u] # None /\ Goto(c, "ip") /\ UNCHANGED <<table, ips>>
    /\ UNCHANGED <<limit, alive, old, fixed, reporter, updater>>

\* oldipMap.LoadOrStore(ip, uid): an IP that is there already is admitted.
StoreIP(c) ==
    /\ pc[c] = "ip"
    /\ LET m == seen[c].map
       IN  IF IP(c) \in ips[m]
           THEN Goto(c, "admitted") /\ UNCHANGED ips
           ELSE Goto(c, "old") /\ ips' = [ips EXCEPT ![m] = @ \cup {IP(c)}]
    /\ UNCHANGED <<limit, alive, table, old, fixed, seen, reporter, updater>>

\* OldUserOnline.Load(ip): an IP of the last report skips the device limit,
\* also when it was reported for another user.
OverLimit(c) == seen[c].limit > 0 /\ seen[c].limit <= seen[c].alive

LoadOld(c) ==
    /\ pc[c] = "old"
    /\ \/ old[IP(c)] = User(c) /\ Goto(c, "claim")
       \/ old[IP(c)] \notin {None, User(c)} /\ Goto(c, "admitted")
       \/ old[IP(c)] = None /\ Goto(c, IF OverLimit(c) THEN "undo" ELSE "admitted")
    /\ UNCHANGED <<tables, fixed, seen, reporter, updater>>

\* OldUserOnline.Delete(ip)
Claim(c) ==
    /\ pc[c] = "claim"
    /\ old' = [old EXCEPT ![IP(c)] = None]
    /\ Goto(c, "admitted")
    /\ UNCHANGED <<limit, alive, table, ips, fixed, seen, reporter, updater>>

\* A refused connection takes its IP back: out of the map it found, or, if
\* it installed the map, by deleting the user's whole entry.
Undo(c) ==
    /\ pc[c] = "undo"
    /\ IF seen[c].map = c
       THEN table' = [table EXCEPT ![User(c)] = None] /\ UNCHANGED ips
       ELSE ips' = [ips EXCEPT ![seen[c].map] = @ \ {IP(c)}] /\ UNCHANGED table
    /\ Goto(c, "refused")
    /\ UNCHANGED <<limit, alive, old, fixed, seen, reporter, updater>>

CheckLimit(c) ==
    LoadInfo(c) \/ StoreMap(c) \/ StoreIP(c) \/ LoadOld(c) \/ Claim(c) \/ Undo(c)

-----------------------------------------------------------------------------
\* GetOnlineDevice: Range visits each user's entry once, in any order

BeginReport ==
    /\ ~reporting /\ MayBegin
    /\ reports < MaxReports /\ reports' = reports + 1
    /\ old' = [i \in IPs |-> None]
    /\ reporting' = TRUE /\ unvisited' = Users
    /\ UNCHANGED <<limit, alive, table, ips, pc, fixed, seen, copied, counted, updater>>

\* Range finds the user's entry, copies its IPs and will then delete it.
CopyUser(u) ==
    /\ copied = None /\ u \in unvisited
    /\ unvisited' = unvisited \ {u}
    /\ IF table[u] = None THEN UNCHANGED <<old, copied, counted>>
       ELSE LET found == ips[table[u]]
            IN  /\ old' = [i \in IPs |-> IF i \in found THEN u ELSE old[i]]
                /\ counted' = counted \cup {<<u, i>> : i \in found}
                /\ copied' = u
    /\ UNCHANGED <<limit, alive, table, ips, pc, fixed, seen, reporting, reports, updater>>

DeleteUser ==
    /\ copied # None
    /\ table' = [table EXCEPT ![copied] = None]
    /\ copied' = None
    /\ UNCHANGED <<limit, alive, ips, old, pc, fixed, seen, reporting, unvisited, counted, reports, updater>>

EndReport ==
    /\ reporting /\ unvisited = {} /\ copied = None
    /\ reporting' = FALSE
    /\ UNCHANGED <<tables, pc, fixed, seen, unvisited, copied, counted, reports, updater>>

GetOnlineDevice == BeginReport \/ (\E u \in Users : CopyUser(u)) \/ DeleteUser \/ EndReport

-----------------------------------------------------------------------------
\* nodeInfoMonitor: a new alive list, UpdateUser for a user that has been
\* added, removed, or removed and added because its speed limit changed

\* In a serial behaviour these do not overlap the calls above either.
MayUpdate ==
    /\ updates < MaxUpdates /\ removal = Nobody /\ MayBegin
    /\ updates' = updates + 1

SetAlive(u) ==
    /\ MayUpdate
    /\ \E n \in AliveCounts \ {alive[u]} : alive' = [alive EXCEPT ![u] = n]
    /\ UNCHANGED <<limit, table, ips, old, pc, fixed, seen, reporter, removal>>

\* UpdateUser removes with three deletions and, if the user comes back, a store.
\* Where calls take turns nothing comes between, and they are one step.
RemoveUser(u, l) ==
    /\ serial /\ limit[u] # Unknown
    /\ limit' = [limit EXCEPT ![u] = l]
    /\ table' = [table EXCEPT ![u] = None]
    /\ alive' = [alive EXCEPT ![u] = 0]
    /\ UNCHANGED removal

\* UserLimitInfo.Delete
DeleteInfo(u, l) ==
    /\ ~serial /\ limit[u] # Unknown
    /\ limit' = [limit EXCEPT ![u] = Unknown]
    /\ removal' = [at |-> "online", user |-> u, limit |-> l]
    /\ UNCHANGED <<table, alive>>

AddUser(u, l) ==
    /\ limit[u] = Unknown
    /\ limit' = [limit EXCEPT ![u] = l]
    /\ UNCHANGED <<table, alive, removal>>

UpdateUser(u) ==
    /\ MayUpdate
    /\ \/ \E l \in Limits \cup {Unknown} : RemoveUser(u, l) \/ DeleteInfo(u, l)
       \/ \E l \in Limits : AddUser(u, l)
    /\ UNCHANGED <<ips, old, pc, fixed, seen, reporter>>

\* UserOnlineIP.Delete
DeleteOnline ==
    /\ removal.at = "online" /\ removal' = [removal EXCEPT !.at = "alive"]
    /\ table' = [table EXCEPT ![removal.user] = None]
    /\ UNCHANGED <<limit, alive, ips, old, pc, fixed, seen, reporter, updates>>

\* delete(l.AliveList, id)
DeleteAlive ==
    /\ removal.at = "alive"
    /\ removal' = IF removal.limit = Unknown THEN Nobody ELSE [removal EXCEPT !.at = "info"]
    /\ alive' = [alive EXCEPT ![removal.user] = 0]
    /\ UNCHANGED <<limit, table, ips, old, pc, fixed, seen, reporter, updates>>

\* UserLimitInfo.Store
StoreInfo ==
    /\ removal.at = "info" /\ removal' = Nobody
    /\ limit' = [limit EXCEPT ![removal.user] = removal.limit]
    /\ UNCHANGED <<alive, table, ips, old, pc, fixed, seen, reporter, updates>>

Next ==
    \/ \E c \in Conns : CheckLimit(c)
    \/ GetOnlineDevice
    \/ \E u \in Users : SetAlive(u) \/ UpdateUser(u)
    \/ DeleteOnline \/ DeleteAlive \/ StoreInfo

Spec == Init /\ [][Next]_vars

-----------------------------------------------------------------------------
\* The abstract gate.  Its devices are those of the maps without the IPs that
\* a call has stored but not decided on; a report takes effect as it begins.

Undecided(u) == {IP(c) : c \in {d \in InCheck : User(d) = u /\ pc[d] \in {"old", "claim", "undo"}}}
Held(u) == IF table[u] = None THEN {} ELSE ips[table[u]] \ Undecided(u)
Reported(u) == {i \in IPs : old[i] = u}

Gate == INSTANCE DeviceGate WITH
    online  <- [u \in Users |-> IF reporting THEN {} ELSE Held(u)],
    last    <- [u \in Users |-> Reported(u) \cup (IF reporting THEN Held(u) ELSE {})],
    verdict <- [c \in Conns |-> IF pc[c] \in {"admitted", "refused"} THEN pc[c] ELSE "none"]

-----------------------------------------------------------------------------
\* Properties

TypeOK ==
    /\ serial \in BOOLEAN
    /\ limit \in [Users -> Limits \cup {Unknown}]
    /\ alive \in [Users -> AliveCounts \cup {0}]
    /\ table \in [Users -> Conns \cup {None}]
    /\ ips \in [Conns -> SUBSET IPs]
    /\ old \in [IPs -> Users \cup {None}]
    /\ pc \in [Conns -> {"new", "store", "ip", "old", "claim", "undo", "admitted", "refused"}]
    /\ dev \in [Conns -> Devices]
    /\ seen \in [Conns -> [limit : Limits \cup {0}, alive : AliveCounts \cup {0},
                           map : Conns \cup {None}]]
    /\ reporting \in BOOLEAN /\ unvisited \subseteq Users /\ copied \in Users \cup {None}
    /\ counted \subseteq Devices
    /\ reports \in 0..MaxReports /\ updates \in 0..MaxUpdates
    /\ removal \in [at : {"none"}, user : {None}, limit : {Unknown}] \cup
                   [at : {"online", "alive", "info"}, user : Users, limit : Limits \cup {Unknown}]

\* Calls that do not overlap, of users that share no IP, behave as the gate.
ImplementsGate == Gate!GateInit /\ [][serial => Gate!GateNext]_<<serial, Gate!gateVars>>

\* However calls overlap, an IP in the online table has a connection of that
\* user that was admitted from it or is still being decided on: a refused
\* device never stays behind to be reported to the panel.
NoGhostDevice ==
    \A u \in Users : table[u] # None =>
        \A i \in ips[table[u]] : \E c \in Conns :
            dev[c] = <<u, i>> /\ pc[c] \in {"old", "claim", "undo", "admitted"}
=============================================================================
