--------------------------- MODULE LimiterProofs ---------------------------
(***************************************************************************)
(* Proofs about module Limiter, for any users, IPs and connections: what    *)
(* the maps hold however calls overlap, and that calls which take turns     *)
(* behave as the abstract gate.                                             *)
(***************************************************************************)
EXTENDS Limiter, FiniteSetTheorems, TLAPS

\* Who has stored an IP and has not taken it back
Stored == {"old", "claim", "undo", "admitted"}

\* A connection beyond its second step has in hand a map of its own user, and
\* so has the table; who is in an installed map has a connection that put it
\* there.  Reporting is over when every user has been visited.
MapsInv ==
    /\ \A c \in Conns : pc[c] \in {"ip"} \cup (Stored \ {"admitted"}) =>
            seen[c].map \in Conns /\ User(seen[c].map) = User(c)
    /\ \A u \in Users : table[u] # None =>
            /\ User(table[u]) = u /\ pc[table[u]] \notin {"new", "store", "ip"}
            /\ \A i \in ips[table[u]] : \E c \in Conns :
                    User(c) = u /\ IP(c) = i /\ pc[c] \in Stored /\ seen[c].map = table[u]
    /\ \A i \in IPs : old[i] # None => \E c \in Conns : User(c) = old[i] /\ IP(c) = i
    /\ ~reporting => unvisited = {} /\ copied = None

LEMMA DeviceOf ==
    ASSUME TypeOK, NEW c \in Conns
    PROVE  User(c) \in Users /\ IP(c) \in IPs /\ dev[c] = <<User(c), IP(c)>> /\ dev[c] \in Devices
  BY DevicesAssumption DEF TypeOK, User, IP

\* The types of what a connection changes
CallTypes ==
    /\ table \in [Users -> Conns \cup {None}]
    /\ ips \in [Conns -> SUBSET IPs]
    /\ old \in [IPs -> Users \cup {None}]
    /\ pc \in [Conns -> {"new", "store", "ip", "old", "claim", "undo", "admitted", "refused"}]
    /\ seen \in [Conns -> [limit : Limits \cup {0}, alive : AliveCounts \cup {0}, map : Conns \cup {None}]]

LEMMA CallTypesSuffice ==
    ASSUME TypeOK, NEW c \in Conns, CheckLimit(c), CallTypes'
    PROVE  TypeOK'
<1>1. UNCHANGED <<serial, dev, limit, alive, reporting, unvisited, copied, counted, reports, updater>>
  BY DEF CheckLimit, LoadInfo, StoreMap, StoreIP, LoadOld, Claim, Undo, fixed, tables, reporter
<1> QED BY <1>1 DEF TypeOK, CallTypes, updater

LEMMA InitMaps == Init => TypeOK /\ MapsInv
<1> SUFFICES ASSUME Init PROVE TypeOK /\ MapsInv
  OBVIOUS
<1>1. CallTypes
  BY DEF Init, Nothing, CallTypes
<1>2. reports \in 0..MaxReports /\ updates \in 0..MaxUpdates
  BY BoundsAssumption DEF Init
<1>3. alive \in [Users -> AliveCounts \cup {0}]
  BY DEF Init
<1>4. TypeOK
  BY <1>1, <1>2, <1>3 DEF CallTypes, Init, TypeOK, Nobody
<1>5. MapsInv
  BY NoneAssumption DEF Init, MapsInv, Stored
<1> QED BY <1>4, <1>5

LEMMA LoadInfoMaps ==
    ASSUME TypeOK, MapsInv, NEW c \in Conns, LoadInfo(c)
    PROVE  TypeOK' /\ MapsInv'
<1>1. User(c) \in Users /\ \A d : User(d)' = User(d)
  BY DeviceOf DEF LoadInfo, fixed, User
<1>2. CallTypes'
  <2>1. seen' \in [Conns -> [limit : Limits \cup {0}, alive : AliveCounts \cup {0}, map : Conns \cup {None}]]
    BY <1>1 DEF LoadInfo, TypeOK, updater
  <2> QED BY <2>1 DEF LoadInfo, Goto, TypeOK, CallTypes, tables
<1>3. TypeOK'
  BY <1>2, CallTypesSuffice DEF CheckLimit
<1>4. UNCHANGED <<dev, table, ips, old, reporting, unvisited, copied>> /\ pc[c] = "new"
  BY DEF LoadInfo, fixed, tables, reporter
<1>5. \A d \in Conns : /\ seen'[d].map = seen[d].map
                       /\ d # c => pc'[d] = pc[d]
                       /\ pc'[c] \in {"refused", "store"}
  BY DEF LoadInfo, Goto, TypeOK
<1>6. \A u \in Users : table[u] # None => table[u] \in Conns /\ table[u] # c
  BY <1>4 DEF MapsInv, User, IP, TypeOK
<1>7. MapsInv'
  BY <1>1, <1>4, <1>5, <1>6 DEF MapsInv, User, IP, Stored
<1> QED BY <1>3, <1>7

LEMMA StoreMapMaps ==
    ASSUME TypeOK, MapsInv, NEW c \in Conns, StoreMap(c)
    PROVE  TypeOK' /\ MapsInv'
<1>1. /\ User(c) \in Users /\ IP(c) \in IPs /\ dev[c] = <<User(c), IP(c)>>
      /\ \A d : User(d)' = User(d) /\ dev' = dev /\ pc[c] = "store"
  BY DeviceOf DEF StoreMap, fixed, User
<1>2. CASE table[User(c)] = None
  <2>1. /\ seen' = [seen EXCEPT ![c].alive = alive[User(c)], ![c].map = c]
        /\ table' = [table EXCEPT ![User(c)] = c] /\ ips' = [ips EXCEPT ![c] = {IP(c)}]
        /\ pc' = [pc EXCEPT ![c] = "old"]
        /\ UNCHANGED <<limit, alive, old, fixed, reporter, updater>>
    BY <1>2 DEF StoreMap, Goto
  <2>2. TypeOK'
    <3>1. \A d \in Conns : seen[d] \in [limit : Limits \cup {0}, alive : AliveCounts \cup {0}, map : Conns \cup {None}]
      BY DEF TypeOK
    <3>2. alive[User(c)] \in AliveCounts \cup {0} /\ table[User(c)] \in Conns \cup {None}
      BY <1>1 DEF TypeOK
    <3>3. seen' \in [Conns -> [limit : Limits \cup {0}, alive : AliveCounts \cup {0}, map : Conns \cup {None}]]
      <4>1. seen \in [Conns -> [limit : Limits \cup {0}, alive : AliveCounts \cup {0}, map : Conns \cup {None}]]
        BY DEF TypeOK
      <4>2. seen' = [seen EXCEPT ![c].alive = alive[User(c)], ![c].map = c]
        BY <2>1
      <4> QED BY <3>1, <3>2, <4>1, <4>2
    <3>4. CallTypes'
      BY <1>1, <2>1, <3>3 DEF TypeOK, CallTypes
    <3> QED BY <3>4, CallTypesSuffice DEF CheckLimit
  <2>3. \A u \in Users : table[u] # c
    BY <1>1, NoneAssumption DEF MapsInv, User, IP, TypeOK
  <2>4. \A u \in Users : table'[u] # None =>
            /\ User(table'[u]) = u /\ pc'[table'[u]] \notin {"new", "store", "ip"}
            /\ \A i \in ips'[table'[u]] : \E d \in Conns :
                    User(d) = u /\ IP(d) = i /\ pc'[d] \in Stored /\ seen'[d].map = table'[u]
    <3> SUFFICES ASSUME NEW u \in Users, table'[u] # None
                 PROVE  /\ User(table'[u]) = u /\ pc'[table'[u]] \notin {"new", "store", "ip"}
                        /\ \A i \in ips'[table'[u]] : \E d \in Conns :
                             User(d) = u /\ IP(d) = i /\ pc'[d] \in Stored /\ seen'[d].map = table'[u]
      OBVIOUS
    <3>1. CASE u = User(c)
      <4>1. table'[u] = c /\ ips'[c] = {IP(c)} /\ pc'[c] = "old" /\ seen'[c].map = c
        BY <2>1, <3>1 DEF TypeOK
      <4> QED BY <1>1, <3>1, <4>1 DEF Stored
    <3>2. CASE u # User(c)
      <4>1. table'[u] = table[u] /\ table[u] \in Conns /\ ips'[table[u]] = ips[table[u]]
        BY <2>1, <2>3, <3>2 DEF TypeOK
      <4>2. \A d \in Conns : pc[d] \in Stored => pc'[d] = pc[d] /\ seen'[d] = seen[d]
        BY <1>1, <2>1 DEF Stored, TypeOK
      <4>3. pc'[table[u]] = pc[table[u]]
        BY <2>1, <2>3, <4>1 DEF TypeOK
      <4> QED BY <4>1, <4>2, <4>3 DEF MapsInv, User, IP
    <3> QED BY <3>1, <3>2
  <2>5. MapsInv'
    BY <1>1, <2>1, <2>4 DEF MapsInv, User, IP, TypeOK, Stored, fixed, reporter
  <2> QED BY <2>2, <2>5
<1>3. CASE table[User(c)] # None
  <2>1. /\ seen' = [seen EXCEPT ![c].alive = alive[User(c)], ![c].map = table[User(c)]]
        /\ pc' = [pc EXCEPT ![c] = "ip"]
        /\ UNCHANGED <<limit, alive, table, ips, old, fixed, reporter, updater>>
    BY <1>3 DEF StoreMap, Goto
  <2>2. TypeOK'
    <3>1. \A d \in Conns : seen[d] \in [limit : Limits \cup {0}, alive : AliveCounts \cup {0}, map : Conns \cup {None}]
      BY DEF TypeOK
    <3>2. alive[User(c)] \in AliveCounts \cup {0} /\ table[User(c)] \in Conns \cup {None}
      BY <1>1 DEF TypeOK
    <3>3. seen' \in [Conns -> [limit : Limits \cup {0}, alive : AliveCounts \cup {0}, map : Conns \cup {None}]]
      <4>1. seen \in [Conns -> [limit : Limits \cup {0}, alive : AliveCounts \cup {0}, map : Conns \cup {None}]]
        BY DEF TypeOK
      <4>2. seen' = [seen EXCEPT ![c].alive = alive[User(c)], ![c].map = table[User(c)]]
        BY <2>1
      <4> QED BY <3>1, <3>2, <4>1, <4>2
    <3>4. CallTypes'
      BY <1>1, <2>1, <3>3 DEF TypeOK, CallTypes
    <3> QED BY <3>4, CallTypesSuffice DEF CheckLimit
  <2>3. table[User(c)] \in Conns /\ User(table[User(c)]) = User(c)
    BY <1>1, <1>3 DEF MapsInv, User, IP, TypeOK
  <2>4. \A d \in Conns : pc[d] \in Stored => d # c /\ pc'[d] = pc[d] /\ seen'[d] = seen[d]
    BY <1>1, <2>1 DEF Stored, TypeOK
  <2>5. \A u \in Users : table[u] # None => table[u] # c /\ pc'[table[u]] = pc[table[u]]
    BY <1>1, <2>1 DEF MapsInv, User, IP, TypeOK
  <2>6. \A d \in Conns : pc'[d] \in {"ip"} \cup (Stored \ {"admitted"}) =>
            seen'[d].map \in Conns /\ User(seen'[d].map) = User(d)
    BY <1>1, <2>1, <2>3 DEF MapsInv, User, IP, TypeOK
  <2>7. \A u \in Users : table[u] # None => \A i \in ips[table[u]] : \E d \in Conns :
            User(d) = u /\ IP(d) = i /\ pc'[d] \in Stored /\ seen'[d].map = table[u]
    BY <2>4 DEF MapsInv
  <2>8. UNCHANGED <<table, ips, old, reporting, unvisited, copied>>
    BY <2>1 DEF reporter
  <2>9. MapsInv'
    BY <1>1, <2>5, <2>6, <2>7, <2>8 DEF MapsInv, User, IP
  <2> QED BY <2>2, <2>9
<1> QED BY <1>2, <1>3

LEMMA StoreIPMaps ==
    ASSUME TypeOK, MapsInv, NEW c \in Conns, StoreIP(c)
    PROVE  TypeOK' /\ MapsInv'
<1>1. /\ User(c) \in Users /\ IP(c) \in IPs /\ dev[c] = <<User(c), IP(c)>>
      /\ \A d : User(d)' = User(d) /\ dev' = dev /\ pc[c] = "ip" /\ seen' = seen /\ table' = table
  BY DeviceOf DEF StoreIP, fixed, User
<1> DEFINE m == seen[c].map
<1>2. m \in Conns /\ User(m) = User(c)
  BY <1>1 DEF MapsInv, User, IP
<1>3. \E place \in {"old", "admitted"} :
        /\ pc' = [pc EXCEPT ![c] = place]
        /\ \/ ips' = ips
           \/ place = "old" /\ ips' = [ips EXCEPT ![m] = @ \cup {IP(c)}]
  BY DEF StoreIP, Goto
<1>4. TypeOK'
  <2>1. CallTypes'
    BY <1>1, <1>2, <1>3 DEF StoreIP, TypeOK, CallTypes
  <2> QED BY <2>1, CallTypesSuffice DEF CheckLimit
<1>5. /\ \A d \in Conns : pc[d] \in Stored => pc'[d] \in Stored
      /\ \A d \in Conns : pc[d] \notin {"new", "store", "ip"} => pc'[d] \notin {"new", "store", "ip"}
  BY <1>1, <1>3 DEF Stored, TypeOK
<1>6. \A u \in Users : table[u] # None => \A i \in ips'[table[u]] : \E d \in Conns :
            User(d) = u /\ IP(d) = i /\ pc'[d] \in Stored /\ seen[d].map = table[u]
  <2> SUFFICES ASSUME NEW u \in Users, table[u] # None, NEW i \in ips'[table[u]], i \notin ips[table[u]]
               PROVE  User(c) = u /\ IP(c) = i /\ pc'[c] \in Stored /\ seen[c].map = table[u]
    BY <1>5 DEF MapsInv, User, IP
  <2>1. table[u] \in Conns /\ User(table[u]) = u
    BY DEF TypeOK, MapsInv, User, IP
  <2>2. table[u] = m /\ i = IP(c) /\ pc'[c] = "old"
    BY <1>2, <1>3, <2>1 DEF TypeOK
  <2> QED BY <1>1, <1>2, <2>1, <2>2 DEF Stored
<1>7. MapsInv'
  BY <1>1, <1>3, <1>5, <1>6 DEF MapsInv, User, IP, StoreIP, TypeOK, Stored, fixed, reporter
<1> QED BY <1>4, <1>7

LEMMA DecideMaps ==
    ASSUME TypeOK, MapsInv, NEW c \in Conns, LoadOld(c) \/ Claim(c)
    PROVE  TypeOK' /\ MapsInv'
<1>1. /\ IP(c) \in IPs /\ \A d : User(d)' = User(d) /\ dev' = dev /\ UNCHANGED <<table, ips, seen>>
      /\ pc[c] \in {"old", "claim"}
  BY DeviceOf DEF LoadOld, Claim, fixed, tables, User
<1>2. \E place \in {"claim", "undo", "admitted"} : pc' = [pc EXCEPT ![c] = place]
  BY DEF LoadOld, Claim, Goto
<1>3. TypeOK'
  <2>1. CallTypes'
    BY <1>1, <1>2 DEF LoadOld, Claim, TypeOK, CallTypes, tables
  <2> QED BY <2>1, CallTypesSuffice DEF CheckLimit
<1>4. old' = old \/ old' = [old EXCEPT ![IP(c)] = None]
  BY DEF LoadOld, Claim, tables
<1>5. \A i \in IPs : old'[i] # None => old'[i] = old[i]
  BY <1>1, <1>4 DEF TypeOK
<1>6. \A d \in Conns : pc[d] \in Stored => pc'[d] \in Stored
  BY <1>1, <1>2 DEF Stored, TypeOK
<1>7. \A d \in Conns : /\ pc[d] \notin {"new", "store", "ip"} => pc'[d] \notin {"new", "store", "ip"}
                       /\ pc'[d] \in {"ip"} \cup (Stored \ {"admitted"}) =>
                              pc[d] \in {"ip"} \cup (Stored \ {"admitted"})
  BY <1>1, <1>2 DEF Stored, TypeOK
<1>8. UNCHANGED <<reporting, unvisited, copied>>
  BY DEF LoadOld, Claim, reporter
<1>9. \A u \in Users : table[u] # None => table[u] \in Conns
  BY DEF TypeOK
<1>10. MapsInv'
  BY <1>1, <1>5, <1>6, <1>7, <1>8, <1>9 DEF MapsInv, User, IP
<1> QED BY <1>3, <1>10

LEMMA UndoMaps ==
    ASSUME TypeOK, MapsInv, NEW c \in Conns, Undo(c)
    PROVE  TypeOK' /\ MapsInv'
<1>1. /\ User(c) \in Users /\ IP(c) \in IPs /\ dev[c] = <<User(c), IP(c)>>
      /\ \A d : User(d)' = User(d) /\ dev' = dev /\ seen' = seen /\ old' = old
      /\ pc[c] = "undo" /\ pc' = [pc EXCEPT ![c] = "refused"]
  BY DeviceOf DEF Undo, fixed, User, Goto
<1> DEFINE m == seen[c].map
<1>2. m \in Conns /\ User(m) = User(c)
  BY <1>1 DEF MapsInv, User, IP, Stored
<1>3. TypeOK'
  <2>1. CallTypes'
    BY <1>1, <1>2 DEF Undo, TypeOK, CallTypes
  <2> QED BY <2>1, CallTypesSuffice DEF CheckLimit
<1>4. /\ \A d \in Conns : d # c => pc'[d] = pc[d]
      /\ \A d \in Conns : pc[d] \notin {"new", "store", "ip"} => pc'[d] \notin {"new", "store", "ip"}
      /\ pc'[c] = "refused"
  BY <1>1 DEF TypeOK
<1>5. \A u \in Users : table'[u] # None =>
        /\ table'[u] = table[u] /\ table[u] \in Conns
        /\ \A i \in ips'[table[u]] : i \in ips[table[u]] /\ ~(m = table[u] /\ i = IP(c))
        /\ u = User(c) => m # c
  <2>1. \A u \in Users : table[u] # None => table[u] \in Conns /\ User(table[u]) = u
    BY DEF MapsInv, TypeOK
  <2>2. CASE m = c
    <3>1. table' = [table EXCEPT ![User(c)] = None] /\ ips' = ips
      BY <2>2 DEF Undo
    <3> QED BY <1>1, <1>2, <2>1, <3>1 DEF TypeOK
  <2>3. CASE m # c
    <3>1. ips' = [ips EXCEPT ![m] = @ \ {IP(c)}] /\ table' = table
      BY <2>3 DEF Undo
    <3> QED BY <1>2, <2>1, <2>3, <3>1 DEF TypeOK
  <2> QED BY <2>2, <2>3
<1>6. \A u \in Users : table'[u] # None => \A i \in ips'[table'[u]] : \E d \in Conns :
            User(d) = u /\ IP(d) = i /\ pc'[d] \in Stored /\ seen[d].map = table'[u]
  <2> SUFFICES ASSUME NEW u \in Users, table'[u] # None, NEW i \in ips'[table'[u]]
               PROVE  \E d \in Conns : User(d) = u /\ IP(d) = i /\ pc'[d] \in Stored /\ seen[d].map = table'[u]
    OBVIOUS
  <2>1. table'[u] = table[u] /\ i \in ips[table[u]] /\ ~(m = table[u] /\ i = IP(c))
    BY <1>5
  <2>2. PICK d \in Conns : User(d) = u /\ IP(d) = i /\ pc[d] \in Stored /\ seen[d].map = table[u]
    BY <2>1 DEF MapsInv, User, IP
  <2>3. d # c
    BY <1>1, <2>1, <2>2
  <2> QED BY <1>4, <2>1, <2>2, <2>3
<1>7. \A d \in Conns : pc'[d] \in {"ip"} \cup (Stored \ {"admitted"}) => pc'[d] = pc[d]
  BY <1>4 DEF Stored
<1>8. UNCHANGED <<reporting, unvisited, copied>>
  BY DEF Undo, reporter
<1>9. MapsInv'
  BY <1>1, <1>4, <1>5, <1>6, <1>7, <1>8 DEF MapsInv, User, IP
<1> QED BY <1>3, <1>9

LEMMA ReportMaps ==
    ASSUME TypeOK, MapsInv, GetOnlineDevice
    PROVE  TypeOK' /\ MapsInv'
<1>1. \A d : User(d)' = User(d) /\ dev' = dev /\ pc' = pc /\ seen' = seen /\ ips' = ips
  BY DEF GetOnlineDevice, BeginReport, CopyUser, DeleteUser, EndReport, fixed, tables, User
<1>2. \A u \in Users : table'[u] # None => table'[u] = table[u]
  BY DEF GetOnlineDevice, BeginReport, CopyUser, DeleteUser, EndReport, tables, TypeOK
<1>3. CASE BeginReport
  <2>1. TypeOK'
    BY <1>3, BoundsAssumption DEF BeginReport, TypeOK, fixed, updater
  <2>2. \A i \in IPs : old'[i] = None
    BY <1>3 DEF BeginReport
  <2> QED BY <1>1, <1>2, <1>3, <2>1, <2>2 DEF MapsInv, User, IP, BeginReport
<1>4. ASSUME NEW u \in Users, CopyUser(u) PROVE TypeOK' /\ MapsInv'
  <2>1. CASE table[u] = None
    <3>1. TypeOK'
      BY <1>4, <2>1 DEF CopyUser, TypeOK, fixed, updater
    <3>2. UNCHANGED <<table, old, reporting, copied>> /\ (~reporting => unvisited' = {})
      BY <1>4, <2>1 DEF CopyUser, MapsInv
    <3> QED BY <1>1, <3>1, <3>2 DEF MapsInv, User, IP
  <2>2. CASE table[u] # None
    <3> DEFINE found == ips[table[u]]
    <3>1. /\ old' = [i \in IPs |-> IF i \in found THEN u ELSE old[i]]
          /\ counted' = counted \cup {<<u, i>> : i \in found} /\ copied' = u
          /\ unvisited' = unvisited \ {u} /\ u \in unvisited
          /\ UNCHANGED <<limit, alive, table, ips, pc, fixed, seen, reporting, reports, updater>>
      BY <1>4, <2>2 DEF CopyUser
    <3>2. \A i \in found : \E c \in Conns : User(c) = u /\ IP(c) = i
      BY <2>2 DEF MapsInv, User, IP
    <3>3. \A i \in found : <<u, i>> \in Devices
      BY <3>2, DeviceOf, Zenon
    <3>4. TypeOK'
      BY <3>1, <3>3 DEF TypeOK, fixed, updater
    <3>5. \A i \in IPs : old'[i] # None => \E c \in Conns : User(c) = old'[i] /\ IP(c) = i
      BY <3>1, <3>2 DEF MapsInv, User, IP
    <3>6. reporting
      BY <3>1 DEF MapsInv, User, IP
    <3> QED BY <1>1, <3>1, <3>4, <3>5, <3>6 DEF MapsInv, User, IP
  <2> QED BY <2>1, <2>2
<1>5. CASE DeleteUser
  <2>1. TypeOK'
    BY <1>5 DEF DeleteUser, TypeOK, fixed, updater
  <2>2. old' = old /\ reporting' = reporting /\ reporting
    BY <1>5 DEF DeleteUser, MapsInv
  <2> QED BY <1>1, <1>2, <2>1, <2>2 DEF MapsInv, User, IP
<1>6. CASE EndReport
  <2>1. TypeOK'
    BY <1>6 DEF EndReport, TypeOK, fixed, tables, updater
  <2> QED BY <1>1, <1>6, <2>1 DEF EndReport, MapsInv, User, IP, tables
<1> QED BY <1>3, <1>4, <1>5, <1>6 DEF GetOnlineDevice

LEMMA UpdateMaps ==
    ASSUME TypeOK, MapsInv, (\E u \in Users : SetAlive(u) \/ UpdateUser(u)) \/ DeleteOnline \/ DeleteAlive \/ StoreInfo
    PROVE  TypeOK' /\ MapsInv'
<1>1. /\ \A d : User(d)' = User(d) /\ dev' = dev
      /\ UNCHANGED <<pc, seen, ips, old, reporting, unvisited, copied, counted, reports, serial>>
  BY DEF SetAlive, UpdateUser, DeleteOnline, DeleteAlive, StoreInfo, fixed, reporter, User
<1>2. table' = table \/ \E u \in Users : table' = [table EXCEPT ![u] = None]
  <2>1. CASE \E u \in Users : SetAlive(u) \/ UpdateUser(u)
    BY <2>1 DEF SetAlive, UpdateUser, RemoveUser, DeleteInfo, AddUser
  <2>2. CASE DeleteOnline \/ DeleteAlive \/ StoreInfo
    BY <2>2 DEF DeleteOnline, DeleteAlive, StoreInfo, TypeOK
  <2> QED BY <2>1, <2>2
<1>3. \A v \in Users : table'[v] # None => table'[v] = table[v]
  BY <1>2 DEF TypeOK
<1>4. /\ updates' \in 0..MaxUpdates
      /\ limit' \in [Users -> Limits \cup {Unknown}] /\ alive' \in [Users -> AliveCounts \cup {0}]
      /\ removal' \in [at : {"none"}, user : {None}, limit : {Unknown}] \cup
                      [at : {"online", "alive", "info"}, user : Users, limit : Limits \cup {Unknown}]
  <2>1. ASSUME NEW u \in Users, SetAlive(u) \/ UpdateUser(u)
        PROVE  /\ updates' \in 0..MaxUpdates
               /\ limit' \in [Users -> Limits \cup {Unknown}] /\ alive' \in [Users -> AliveCounts \cup {0}]
               /\ removal' \in [at : {"none"}, user : {None}, limit : {Unknown}] \cup
                      [at : {"online", "alive", "info"}, user : Users, limit : Limits \cup {Unknown}]
    <3>1. updates' \in 0..MaxUpdates
      BY <2>1, BoundsAssumption DEF SetAlive, UpdateUser, MayUpdate, TypeOK
    <3>2. limit' \in [Users -> Limits \cup {Unknown}] /\ alive' \in [Users -> AliveCounts \cup {0}]
      BY <2>1 DEF SetAlive, UpdateUser, RemoveUser, DeleteInfo, AddUser, TypeOK
    <3>3. removal' = removal \/ removal' \in [at : {"online", "alive", "info"}, user : Users, limit : Limits \cup {Unknown}]
      BY <2>1 DEF SetAlive, UpdateUser, RemoveUser, DeleteInfo, AddUser
    <3> QED BY <3>1, <3>2, <3>3 DEF TypeOK
  <2>2. ASSUME DeleteOnline \/ DeleteAlive \/ StoreInfo
        PROVE  /\ updates' \in 0..MaxUpdates
               /\ limit' \in [Users -> Limits \cup {Unknown}] /\ alive' \in [Users -> AliveCounts \cup {0}]
               /\ removal' \in [at : {"none"}, user : {None}, limit : {Unknown}] \cup
                      [at : {"online", "alive", "info"}, user : Users, limit : Limits \cup {Unknown}]
    <3>1. removal \in [at : {"online", "alive", "info"}, user : Users, limit : Limits \cup {Unknown}]
      BY <2>2 DEF DeleteOnline, DeleteAlive, StoreInfo, TypeOK
    <3>2. updates' = updates
      BY <2>2 DEF DeleteOnline, DeleteAlive, StoreInfo
    <3>3. limit' \in [Users -> Limits \cup {Unknown}] /\ alive' \in [Users -> AliveCounts \cup {0}]
      BY <2>2, <3>1 DEF DeleteOnline, DeleteAlive, StoreInfo, TypeOK
    <3>4. removal' \in [at : {"none"}, user : {None}, limit : {Unknown}] \cup
                      [at : {"online", "alive", "info"}, user : Users, limit : Limits \cup {Unknown}]
      BY <2>2, <3>1 DEF DeleteOnline, DeleteAlive, StoreInfo, Nobody
    <3> QED BY <3>2, <3>3, <3>4 DEF TypeOK
  <2> QED BY <2>1, <2>2
<1>5. table' \in [Users -> Conns \cup {None}]
  BY <1>2 DEF TypeOK
<1>6. TypeOK'
  BY <1>1, <1>4, <1>5 DEF TypeOK
<1> QED BY <1>1, <1>3, <1>6 DEF MapsInv, User, IP

LEMMA MapsInductive == TypeOK /\ MapsInv /\ [Next]_vars => TypeOK' /\ MapsInv'
<1> SUFFICES ASSUME TypeOK, MapsInv, [Next]_vars PROVE TypeOK' /\ MapsInv'
  OBVIOUS
<1>1. CASE UNCHANGED vars
  BY <1>1 DEF vars, fixed, tables, reporter, updater, TypeOK, MapsInv, User, IP
<1>2. CASE Next
  BY <1>2, LoadInfoMaps, StoreMapMaps, StoreIPMaps, DecideMaps, UndoMaps, ReportMaps, UpdateMaps
     DEF Next, CheckLimit
<1> QED BY <1>1, <1>2

\* The state of any number of connections and of a report stays within its types.
THEOREM TypeCorrect == Spec => []TypeOK
<1> QED BY InitMaps, MapsInductive, PTL DEF Spec

\* However calls, reports and user changes overlap, an IP in the online table
\* has a connection of that user that was not refused.
THEOREM NoGhostDeviceAlways == Spec => []NoGhostDevice
<1>1. TypeOK /\ MapsInv => NoGhostDevice
  <2> SUFFICES ASSUME TypeOK, MapsInv, NEW u \in Users, table[u] # None, NEW i \in ips[table[u]]
               PROVE  \E c \in Conns : dev[c] = <<u, i>> /\ pc[c] \in {"old", "claim", "undo", "admitted"}
    BY DEF NoGhostDevice
  <2>1. PICK c \in Conns : User(c) = u /\ IP(c) = i /\ pc[c] \in Stored
    BY DEF MapsInv
  <2>2. dev[c] = <<u, i>>
    BY <2>1, DeviceOf
  <2> QED BY <2>1, <2>2, Zenon DEF Stored
<1> QED BY <1>1, InitMaps, MapsInductive, PTL DEF Spec
-----------------------------------------------------------------------------
\* Calls that take turns

Undeciding == {"old", "claim", "undo"}
Checking == {"store", "ip"} \cup Undeciding

OneAtATime ==
    /\ reporting => InCheck = {}
    /\ \A c, d \in InCheck : c = d

\* What a call has read is still so when it acts on it.
CallAt(c) ==
    /\ pc[c] \in Checking => seen[c].limit = limit[User(c)] /\ limit[User(c)] # Unknown
    /\ pc[c] \in {"ip"} \cup Undeciding => seen[c].alive = alive[User(c)] /\ seen[c].map = table[User(c)]
    /\ pc[c] = "ip" => seen[c].map # c
    /\ pc[c] \in Undeciding => /\ IP(c) \in ips[seen[c].map]
                               /\ seen[c].map = c => ips[c] = {IP(c)}
    /\ pc[c] = "claim" => old[IP(c)] = User(c)
    /\ pc[c] = "undo" => old[IP(c)] = None /\ OverLimit(c)

\* A device is in one of the two tables, but for a report that moves it; the
\* entries a report has passed are gone.
DevicesAt ==
    /\ \A u \in Users : limit[u] = Unknown => table[u] = None
    /\ ~reporting => \A u \in Users : \A i \in Held(u) : old[i] # u
    /\ reporting => \A u \in Users \ unvisited : u # copied => table[u] = None
    /\ copied # None /\ table[copied] # None => \A i \in ips[table[copied]] : old[i] = copied

TurnsInv ==
    serial => /\ \A c, d \in Conns : IP(c) = IP(d) => User(c) = User(d)
              /\ OneAtATime /\ DevicesAt
              /\ \A c \in Conns : CallAt(c)

LEMMA CheckingAre == TypeOK => InCheck = {c \in Conns : pc[c] \in Checking}
  BY DEF TypeOK, InCheck, Checking, Undeciding

\* A call that begins finds no other.
LEMMA AloneAtFirst ==
    ASSUME OneAtATime, InFlight < 1
    PROVE  InCheck = {} /\ ~reporting
<1>1. CASE InCheck = {}
  BY <1>1, FS_EmptySet DEF InFlight
<1>2. ASSUME NEW c \in InCheck PROVE FALSE
  <2>1. InCheck = {c}
    BY <1>2 DEF OneAtATime
  <2>2. Cardinality(InCheck) = 1
    BY <2>1, FS_Singleton
  <2> QED BY <2>2 DEF InFlight
<1> QED BY <1>1, <1>2

\* What is held, with one call at most
LEMMA HeldByTable ==
    TypeOK /\ OneAtATime =>
        \A u \in Users :
            /\ InCheck = {} => Held(u) = IF table[u] = None THEN {} ELSE ips[table[u]]
            /\ \A c \in InCheck : Held(u) =
                    IF table[u] = None THEN {}
                    ELSE IF u = User(c) /\ pc[c] \in Undeciding THEN ips[table[u]] \ {IP(c)} ELSE ips[table[u]]
<1> SUFFICES ASSUME TypeOK, OneAtATime, NEW u \in Users
             PROVE  /\ InCheck = {} => Held(u) = IF table[u] = None THEN {} ELSE ips[table[u]]
                    /\ \A c \in InCheck : Held(u) =
                        IF table[u] = None THEN {}
                        ELSE IF u = User(c) /\ pc[c] \in Undeciding THEN ips[table[u]] \ {IP(c)} ELSE ips[table[u]]
  OBVIOUS
<1>1. InCheck = {} => Undecided(u) = {}
  BY DEF Undecided
<1>2. ASSUME NEW c \in InCheck
      PROVE  Undecided(u) = IF u = User(c) /\ pc[c] \in Undeciding THEN {IP(c)} ELSE {}
  BY <1>2 DEF OneAtATime, Undecided, Undeciding
<1>3. \A S : S \ {} = S
  OBVIOUS
<1> QED BY <1>1, <1>2, <1>3 DEF Held

LEMMA HeldByTableNext ==
    TypeOK' /\ OneAtATime' =>
        (\A u \in Users :
            /\ InCheck = {} => Held(u) = IF table[u] = None THEN {} ELSE ips[table[u]]
            /\ \A c \in InCheck : Held(u) =
                    IF table[u] = None THEN {}
                    ELSE IF u = User(c) /\ pc[c] \in Undeciding THEN ips[table[u]] \ {IP(c)} ELSE ips[table[u]])'
  BY HeldByTable, PTL

-----------------------------------------------------------------------------
\* Steps of the gate, device by device

Online(u) == IF reporting THEN {} ELSE Held(u)
Last(u) == Reported(u) \cup (IF reporting THEN Held(u) ELSE {})
Verdict(c) == IF pc[c] \in {"admitted", "refused"} THEN pc[c] ELSE "none"

LEMMA AdmitIs ==
    ASSUME TypeOK, NEW c \in Conns, pc[c] \notin {"admitted", "refused"}, pc' = [pc EXCEPT ![c] = "admitted"],
           limit[User(c)] # Unknown,
           \/ IP(c) \in Online(User(c)) \cup Last(User(c))
           \/ limit[User(c)] = 0 \/ alive[User(c)] < limit[User(c)],
           \A u \in Users : /\ Online(u)' = IF u = User(c) THEN Online(u) \cup {IP(c)} ELSE Online(u)
                            /\ Last(u)' = IF u = User(c) THEN Last(u) \ {IP(c)} ELSE Last(u),
           UNCHANGED <<limit, alive, dev>>
    PROVE  Gate!Admit(c)
<1>1. User(c) \in Users
  BY DeviceOf
<1>2. [d \in Conns |-> Verdict(d)]' = [[d \in Conns |-> Verdict(d)] EXCEPT ![c] = "admitted"]
  BY DEF Verdict, TypeOK
<1>3. [u \in Users |-> Online(u)]' = [[u \in Users |-> Online(u)] EXCEPT ![User(c)] = @ \cup {IP(c)}]
  BY <1>1
<1>4. [u \in Users |-> Last(u)]' = [[u \in Users |-> Last(u)] EXCEPT ![User(c)] = @ \ {IP(c)}]
  BY <1>1
<1> QED BY <1>1, <1>2, <1>3, <1>4 DEF Gate!Admit, Gate!Known, Gate!Room, Online, Last, Verdict, User, IP

LEMMA RefuseIs ==
    ASSUME TypeOK, NEW c \in Conns, pc[c] \notin {"admitted", "refused"}, pc' = [pc EXCEPT ![c] = "refused"],
           \/ limit[User(c)] = Unknown
           \/ /\ IP(c) \notin Online(User(c)) \cup Last(User(c))
              /\ ~(limit[User(c)] = 0 \/ alive[User(c)] < limit[User(c)]),
           \A u \in Users : Online(u)' = Online(u) /\ Last(u)' = Last(u),
           UNCHANGED <<limit, alive, dev>>
    PROVE  Gate!Refuse(c)
<1>1. User(c) \in Users
  BY DeviceOf
<1>2. [d \in Conns |-> Verdict(d)]' = [[d \in Conns |-> Verdict(d)] EXCEPT ![c] = "refused"]
  BY DEF Verdict, TypeOK
<1>3. [u \in Users |-> Online(u)]' = [u \in Users |-> Online(u)]
  OBVIOUS
<1>4. [u \in Users |-> Last(u)]' = [u \in Users |-> Last(u)]
  OBVIOUS
<1> QED BY <1>1, <1>2, <1>3, <1>4 DEF Gate!Refuse, Gate!Known, Gate!Room, Online, Last, Verdict, User, IP

LEMMA StutterIs ==
    ASSUME \A u \in Users : Online(u)' = Online(u) /\ Last(u)' = Last(u),
           \A c \in Conns : Verdict(c)' = Verdict(c),
           UNCHANGED <<limit, alive, dev>>
    PROVE  UNCHANGED Gate!gateVars
<1>1. [u \in Users |-> Online(u)]' = [u \in Users |-> Online(u)]
  OBVIOUS
<1>2. [u \in Users |-> Last(u)]' = [u \in Users |-> Last(u)]
  OBVIOUS
<1>3. [c \in Conns |-> Verdict(c)]' = [c \in Conns |-> Verdict(c)]
  OBVIOUS
<1> QED BY <1>1, <1>2, <1>3 DEF Gate!gateVars, Online, Last, Verdict

-----------------------------------------------------------------------------
\* The steps of a call that is alone

LEMMA CheckingAreNext == TypeOK' => (InCheck = {c \in Conns : pc[c] \in Checking})'
  BY CheckingAre, PTL

\* What a call does for itself is all there is to see to.
LEMMA TurnKept ==
    ASSUME TypeOK, TypeOK', MapsInv, TurnsInv, serial, ~reporting, NEW c \in Conns, InCheck \subseteq {c},
           NEW place, pc' = [pc EXCEPT ![c] = place],
           UNCHANGED <<fixed, limit, reporting, copied>>
    PROVE  /\ OneAtATime' /\ InCheck' = IF place \in Checking THEN {c} ELSE {}
           /\ /\ CallAt(c)'
              /\ \A u \in Users : table'[u] = table[u] \/ table'[u] = None \/ limit[u] # Unknown
              /\ \A u \in Users : \A i \in Held(u)' : old'[i] # u
              => TurnsInv'
<1>1. InCheck = {d \in Conns : pc[d] \in Checking} /\ InCheck' = {d \in Conns : pc'[d] \in Checking}
  BY CheckingAre, CheckingAreNext
<1>2. pc'[c] = place /\ \A d \in Conns : d # c => pc'[d] = pc[d] /\ pc[d] \notin Checking
  BY <1>1 DEF TypeOK
<1>3. OneAtATime' /\ InCheck' = IF place \in Checking THEN {c} ELSE {}
  BY <1>1, <1>2 DEF OneAtATime
<1>4. ASSUME CallAt(c)' PROVE \A d \in Conns : CallAt(d)'
  BY <1>2, <1>4 DEF CallAt, Checking, Undeciding
<1>5. \A d, e \in Conns : IP(d)' = IP(e)' => User(d)' = User(e)'
  BY DEF TurnsInv, fixed, User, IP
<1>6. ASSUME \A u \in Users : table'[u] = table[u] \/ table'[u] = None \/ limit[u] # Unknown,
             \A u \in Users : \A i \in Held(u)' : old'[i] # u
      PROVE  DevicesAt'
  BY <1>6 DEF DevicesAt, TurnsInv, MapsInv
<1> QED BY <1>3, <1>4, <1>5, <1>6 DEF TurnsInv

LEMMA LoadInfoTurn ==
    ASSUME TypeOK, TypeOK', MapsInv, TurnsInv, serial, NEW c \in Conns, LoadInfo(c)
    PROVE  TurnsInv' /\ (Gate!Refuse(c) \/ UNCHANGED Gate!gateVars)
<1>1. InCheck = {} /\ ~reporting /\ OneAtATime
  BY AloneAtFirst DEF LoadInfo, MayBegin, TurnsInv
<1>2. /\ User(c) \in Users /\ pc[c] = "new"
      /\ UNCHANGED <<fixed, dev, limit, alive, table, ips, old, reporting, copied>>
      /\ \A d : User(d)' = User(d) /\ IP(d)' = IP(d)
  BY DeviceOf DEF LoadInfo, tables, fixed, reporter, User, IP
<1>3. ASSUME OneAtATime', NEW place \in {"store", "refused"}, pc'[c] = place, InCheck' \subseteq {c}
      PROVE  \A u \in Users : Held(u)' = Held(u)
  BY <1>1, <1>2, <1>3, HeldByTable, HeldByTableNext DEF Undeciding
<1>4. CASE limit[User(c)] = Unknown
  <2>1. pc' = [pc EXCEPT ![c] = "refused"] /\ seen' = seen /\ pc'[c] = "refused"
    BY <1>4 DEF LoadInfo, Goto, TypeOK
  <2>2. OneAtATime' /\ InCheck' = {}
    BY <1>1, <1>2, <2>1, TurnKept DEF Checking, Undeciding
  <2>3. \A u \in Users : Held(u)' = Held(u)
    BY <1>3, <2>1, <2>2
  <2>4. \A u \in Users : Online(u)' = Online(u) /\ Last(u)' = Last(u)
    BY <1>2, <2>3 DEF Online, Last, Reported
  <2>5. Gate!Refuse(c)
    BY <1>2, <1>4, <2>1, <2>4, RefuseIs
  <2>6. CallAt(c)'
    BY <2>1 DEF CallAt, Checking, Undeciding
  <2>7. \A u \in Users : \A i \in Held(u)' : old'[i] # u
    BY <1>1, <1>2, <2>3 DEF TurnsInv, DevicesAt
  <2> QED BY <1>1, <1>2, <2>1, <2>5, <2>6, <2>7, TurnKept
<1>5. CASE limit[User(c)] # Unknown
  <2>1. /\ pc' = [pc EXCEPT ![c] = "store"] /\ pc'[c] = "store"
        /\ seen' = [seen EXCEPT ![c].limit = limit[User(c)]]
    BY <1>5 DEF LoadInfo, Goto, TypeOK
  <2>2. OneAtATime' /\ InCheck' = {c}
    BY <1>1, <1>2, <2>1, TurnKept DEF Checking, Undeciding
  <2>3. \A u \in Users : Held(u)' = Held(u)
    BY <1>3, <2>1, <2>2
  <2>4. \A u \in Users : Online(u)' = Online(u) /\ Last(u)' = Last(u)
    BY <1>2, <2>3 DEF Online, Last, Reported
  <2>5. \A d \in Conns : Verdict(d)' = Verdict(d)
    BY <1>2, <2>1 DEF Verdict, TypeOK
  <2>6. CallAt(c)'
    <3>1. seen'[c].limit = limit[User(c)]
      BY <2>1 DEF TypeOK
    <3> QED BY <1>2, <1>5, <2>1, <3>1 DEF CallAt, Checking, Undeciding
  <2>7. \A u \in Users : \A i \in Held(u)' : old'[i] # u
    BY <1>1, <1>2, <2>3 DEF TurnsInv, DevicesAt
  <2> QED BY <1>1, <1>2, <2>1, <2>4, <2>5, <2>6, <2>7, TurnKept, StutterIs
<1> QED BY <1>4, <1>5

LEMMA CountsAreNatural == \A n \in Limits \cup AliveCounts \cup {0} : n \in Nat
<1>1. \A n \in Limits : n \in Nat
  BY CountsAssumption
<1>2. \A n \in AliveCounts : n \in Nat
  BY CountsAssumption
<1> QED BY <1>1, <1>2

LEMMA TakeAndReturn == \A S, e : e \in S => (S \ {e}) \cup {e} = S
  OBVIOUS

\* What other users hold changes with their own maps only.
LEMMA OthersHold ==
    ASSUME TypeOK, TypeOK', OneAtATime, OneAtATime', dev' = dev,
           NEW c \in Conns, InCheck = {c}, InCheck' \subseteq {c},
           NEW u \in Users, u # User(c), table'[u] = table[u],
           table[u] # None => ips'[table[u]] = ips[table[u]]
    PROVE  Held(u)' = Held(u)
<1>1. Held(u) = IF table[u] = None THEN {} ELSE ips[table[u]]
  BY HeldByTable
<1>2. User(c)' = User(c)
  BY DEF User
<1>3. Held(u)' = IF table'[u] = None THEN {} ELSE ips'[table'[u]]
  <2>1. CASE InCheck' = {}
    BY <2>1, HeldByTableNext
  <2>2. CASE InCheck' = {c}
    BY <1>2, <2>2, HeldByTableNext
  <2> QED BY <2>1, <2>2
<1> QED BY <1>1, <1>3

LEMMA AloneInCheck ==
    ASSUME TypeOK, TurnsInv, serial, NEW c \in Conns, pc[c] \in Checking
    PROVE  InCheck = {c} /\ ~reporting /\ OneAtATime /\ CallAt(c) /\ limit[User(c)] # Unknown
<1>1. c \in InCheck
  BY CheckingAre
<1> QED BY <1>1 DEF TurnsInv, OneAtATime, CallAt

\* A step of a call that decides nothing, and one that admits.
LEMMA SilentTurn ==
    ASSUME TypeOK, TypeOK', MapsInv, TurnsInv, serial, NEW c \in Conns, pc[c] \in Checking,
           NEW place \in Checking, pc' = [pc EXCEPT ![c] = place],
           UNCHANGED <<fixed, limit, alive, old, reporting, copied>>,
           CallAt(c)',
           \A u \in Users : table'[u] = table[u] \/ limit[u] # Unknown,
           \A u \in Users : Held(u)' = Held(u)
    PROVE  TurnsInv' /\ UNCHANGED Gate!gateVars
<1>1. InCheck = {c} /\ ~reporting
  BY AloneInCheck
<1>2. \A u \in Users : Online(u)' = Online(u) /\ Last(u)' = Last(u)
  BY DEF Online, Last, Reported
<1>3. \A d \in Conns : Verdict(d)' = Verdict(d)
  BY DEF Verdict, TypeOK, Checking, Undeciding
<1>4. \A u \in Users : \A i \in Held(u)' : old'[i] # u
  BY <1>1 DEF TurnsInv, DevicesAt
<1>5. dev' = dev
  BY DEF fixed
<1> QED BY <1>1, <1>2, <1>3, <1>4, <1>5, TurnKept, StutterIs

LEMMA AdmitTurn ==
    ASSUME TypeOK, TypeOK', MapsInv, TurnsInv, serial, NEW c \in Conns, pc[c] \in Checking,
           pc' = [pc EXCEPT ![c] = "admitted"],
           UNCHANGED <<fixed, limit, alive, table, reporting, copied>>,
           \A u \in Users :
               /\ Held(u)' = IF u = User(c) THEN Held(u) \cup {IP(c)} ELSE Held(u)
               /\ Reported(u)' = IF u = User(c) THEN Reported(u) \ {IP(c)} ELSE Reported(u),
           \/ IP(c) \in Held(User(c)) \cup Reported(User(c))
           \/ limit[User(c)] = 0 \/ alive[User(c)] < limit[User(c)]
    PROVE  TurnsInv' /\ Gate!Admit(c)
<1>1. InCheck = {c} /\ ~reporting /\ limit[User(c)] # Unknown
  BY AloneInCheck
<1>2. \A u \in Users : /\ Online(u)' = IF u = User(c) THEN Online(u) \cup {IP(c)} ELSE Online(u)
                       /\ Last(u)' = IF u = User(c) THEN Last(u) \ {IP(c)} ELSE Last(u)
  BY <1>1 DEF Online, Last
<1>3. User(c) \in Users /\ IP(c) \in IPs
  BY DeviceOf
<1>4. \/ IP(c) \in Online(User(c)) \cup Last(User(c))
      \/ limit[User(c)] = 0 \/ alive[User(c)] < limit[User(c)]
  BY <1>1 DEF Online, Last
<1>5. pc[c] \notin {"admitted", "refused"} /\ dev' = dev
  BY DEF Checking, Undeciding, fixed
<1>6. Gate!Admit(c)
  BY <1>1, <1>2, <1>4, <1>5, AdmitIs
<1>7. \A u \in Users : \A i \in Held(u)' : old'[i] # u
  <2> SUFFICES ASSUME NEW u \in Users, NEW i \in Held(u)', old'[i] = u PROVE FALSE
    OBVIOUS
  <2>1. i \in IPs
    <3>1. TypeOK => \A v \in Users : \A j \in Held(v) : j \in IPs
      BY NoneAssumption DEF TypeOK, Held
    <3>2. i \in Held(u) \/ i = IP(c)
      OBVIOUS
    <3> QED BY <1>3, <3>1, <3>2
  <2>2. i \in Reported(u)'
    BY <2>1 DEF Reported
  <2>3. i \in Reported(u) /\ ~(u = User(c) /\ i = IP(c))
    BY <2>2
  <2>4. i \in Held(u) /\ old[i] = u
    BY <2>3 DEF Reported
  <2> QED BY <1>1, <2>4 DEF TurnsInv, DevicesAt
<1>8. CallAt(c)'
  <2>1. pc'[c] = "admitted"
    BY DEF TypeOK
  <2> QED BY <2>1 DEF CallAt, Checking, Undeciding
<1> QED BY <1>1, <1>6, <1>7, <1>8, TurnKept

LEMMA StoreMapTurn ==
    ASSUME TypeOK, TypeOK', MapsInv, TurnsInv, serial, NEW c \in Conns, StoreMap(c)
    PROVE  TurnsInv' /\ UNCHANGED Gate!gateVars
<1>1. /\ User(c) \in Users /\ IP(c) \in IPs /\ pc[c] = "store"
      /\ UNCHANGED <<fixed, dev, limit, alive, old, reporting, copied>>
      /\ \A d : User(d)' = User(d) /\ IP(d)' = IP(d)
  BY DeviceOf DEF StoreMap, fixed, reporter, User, IP
<1>2. InCheck = {c} /\ ~reporting /\ OneAtATime /\ CallAt(c) /\ limit[User(c)] # Unknown
  BY <1>1, AloneInCheck DEF Checking
<1>3. CASE table[User(c)] = None
  <2>1. /\ seen' = [seen EXCEPT ![c].alive = alive[User(c)], ![c].map = c]
        /\ table' = [table EXCEPT ![User(c)] = c] /\ ips' = [ips EXCEPT ![c] = {IP(c)}]
        /\ pc' = [pc EXCEPT ![c] = "old"] /\ pc'[c] = "old"
    BY <1>3 DEF StoreMap, Goto, TypeOK
  <2>2. /\ seen'[c].limit = seen[c].limit /\ seen'[c].alive = alive[User(c)] /\ seen'[c].map = c
        /\ table'[User(c)] = c /\ ips'[c] = {IP(c)}
        /\ \A u \in Users : u # User(c) => table'[u] = table[u]
    BY <1>1, <2>1 DEF TypeOK
  <2>3. OneAtATime' /\ InCheck' = {c}
    BY <1>1, <1>2, <2>1, TurnKept DEF Checking, Undeciding
  <2>4. CallAt(c)'
    BY <1>1, <1>2, <2>1, <2>2 DEF CallAt, Checking, Undeciding
  <2>5. \A u \in Users : u # User(c) /\ table[u] # None => ips'[table[u]] = ips[table[u]]
    BY <1>1, <2>1 DEF MapsInv, TypeOK
  <2>6. \A u \in Users : Held(u)' = Held(u)
    <3> SUFFICES ASSUME NEW u \in Users PROVE Held(u)' = Held(u)
      OBVIOUS
    <3>1. CASE u = User(c)
      <4>1. Held(u) = {}
        BY <1>3, <3>1 DEF Held
      <4>2. Held(u)' = {}
        BY <1>1, <2>1, <2>2, <2>3, <3>1, HeldByTableNext, NoneAssumption DEF Undeciding
      <4> QED BY <4>1, <4>2
    <3>2. CASE u # User(c)
      BY <1>1, <1>2, <2>2, <2>3, <2>5, <3>2, OthersHold
    <3> QED BY <3>1, <3>2
  <2> QED BY <1>1, <1>2, <2>1, <2>2, <2>4, <2>6, SilentTurn DEF Checking, Undeciding
<1>4. CASE table[User(c)] # None
  <2>1. /\ seen' = [seen EXCEPT ![c].alive = alive[User(c)], ![c].map = table[User(c)]]
        /\ table' = table /\ ips' = ips
        /\ pc' = [pc EXCEPT ![c] = "ip"] /\ pc'[c] = "ip"
    BY <1>4 DEF StoreMap, Goto, TypeOK
  <2>2. /\ seen'[c].limit = seen[c].limit /\ seen'[c].alive = alive[User(c)]
        /\ seen'[c].map = table[User(c)] /\ table[User(c)] # c
    BY <1>1, <1>4, <2>1 DEF TypeOK, MapsInv
  <2>3. OneAtATime' /\ InCheck' = {c}
    BY <1>1, <1>2, <2>1, TurnKept DEF Checking, Undeciding
  <2>4. CallAt(c)'
    BY <1>1, <1>2, <2>1, <2>2 DEF CallAt, Checking, Undeciding
  <2>5. \A u \in Users : Held(u)' = Held(u)
    BY <1>1, <1>2, <2>1, <2>3, HeldByTable, HeldByTableNext DEF Undeciding
  <2> QED BY <1>1, <1>2, <2>1, <2>4, <2>5, SilentTurn DEF Checking, Undeciding
<1> QED BY <1>3, <1>4

\* From then on the call's map is the one installed.
LEMMA MapInHand ==
    ASSUME TypeOK, MapsInv, TurnsInv, serial, NEW c \in Conns, pc[c] \in {"ip"} \cup Undeciding
    PROVE  /\ seen[c].map = table[User(c)] /\ table[User(c)] \in Conns /\ table[User(c)] # None
           /\ \A u \in Users : u # User(c) => table[u] # table[User(c)] \/ table[u] = None
<1>1. seen[c].map = table[User(c)] /\ User(c) \in Users
  BY DeviceOf DEF TurnsInv, CallAt
<1>2. seen[c].map \in Conns
  BY DEF MapsInv, Stored, Undeciding
<1> QED BY <1>1, <1>2, NoneAssumption DEF MapsInv

LEMMA StoreIPTurn ==
    ASSUME TypeOK, TypeOK', MapsInv, TurnsInv, serial, NEW c \in Conns, StoreIP(c)
    PROVE  TurnsInv' /\ (Gate!Admit(c) \/ UNCHANGED Gate!gateVars)
<1>1. /\ User(c) \in Users /\ IP(c) \in IPs /\ pc[c] = "ip"
      /\ UNCHANGED <<fixed, dev, limit, alive, table, old, seen, reporting, copied>>
      /\ \A d : User(d)' = User(d) /\ IP(d)' = IP(d)
  BY DeviceOf DEF StoreIP, fixed, reporter, User, IP
<1>2. InCheck = {c} /\ ~reporting /\ OneAtATime /\ CallAt(c) /\ limit[User(c)] # Unknown
  BY <1>1, AloneInCheck DEF Checking
<1> DEFINE m == seen[c].map
<1>3. /\ m = table[User(c)] /\ m \in Conns /\ m # None
      /\ \A u \in Users : u # User(c) => table[u] # m \/ table[u] = None
  BY <1>1, MapInHand
<1>4. Held(User(c)) = ips[m]
  BY <1>1, <1>2, <1>3, HeldByTable DEF Undeciding
<1>5. CASE IP(c) \in ips[m]
  <2>1. pc' = [pc EXCEPT ![c] = "admitted"] /\ pc'[c] = "admitted" /\ ips' = ips
    BY <1>5 DEF StoreIP, Goto, TypeOK
  <2>2. OneAtATime' /\ InCheck' = {}
    BY <1>1, <1>2, <2>1, TurnKept DEF Checking, Undeciding
  <2>3. \A u \in Users : Held(u)' = Held(u)
    BY <1>1, <1>2, <2>1, <2>2, HeldByTable, HeldByTableNext DEF Undeciding
  <2>4. old[IP(c)] # User(c)
    BY <1>1, <1>2, <1>4, <1>5 DEF TurnsInv, DevicesAt
  <2>5. \A u \in Users : Reported(u)' = Reported(u) /\ (u = User(c) => IP(c) \notin Reported(u))
    BY <1>1, <2>4 DEF Reported
  <2>6. \A u \in Users :
            /\ Held(u)' = IF u = User(c) THEN Held(u) \cup {IP(c)} ELSE Held(u)
            /\ Reported(u)' = IF u = User(c) THEN Reported(u) \ {IP(c)} ELSE Reported(u)
    BY <1>4, <1>5, <2>3, <2>5
  <2>7. IP(c) \in Held(User(c)) /\ pc[c] \in Checking
    BY <1>1, <1>4, <1>5 DEF Checking
  <2> QED BY <1>1, <2>1, <2>6, <2>7, AdmitTurn
<1>6. CASE IP(c) \notin ips[m]
  <2>1. /\ pc' = [pc EXCEPT ![c] = "old"] /\ pc'[c] = "old" /\ ips' = [ips EXCEPT ![m] = @ \cup {IP(c)}]
        /\ ips'[m] = ips[m] \cup {IP(c)}
    BY <1>3, <1>6 DEF StoreIP, Goto, TypeOK
  <2>2. OneAtATime' /\ InCheck' = {c}
    BY <1>1, <1>2, <2>1, TurnKept DEF Checking, Undeciding
  <2>3. CallAt(c)'
    BY <1>1, <1>2, <1>3, <2>1 DEF CallAt, Checking, Undeciding
  <2>4. \A u \in Users : Held(u)' = Held(u)
    <3> SUFFICES ASSUME NEW u \in Users PROVE Held(u)' = Held(u)
      OBVIOUS
    <3>1. CASE u = User(c)
      <4>1. Held(u)' = ips'[m] \ {IP(c)}
        BY <1>1, <1>3, <2>1, <2>2, <3>1, HeldByTableNext DEF Undeciding
      <4> QED BY <1>4, <1>6, <2>1, <3>1, <4>1
    <3>2. CASE u # User(c)
      <4>1. table[u] = None \/ ips'[table[u]] = ips[table[u]]
        BY <1>3, <2>1, <3>2 DEF TypeOK
      <4> QED BY <1>1, <1>2, <2>2, <3>2, <4>1, OthersHold
    <3> QED BY <3>1, <3>2
  <2> QED BY <1>1, <2>1, <2>3, <2>4, SilentTurn DEF Checking, Undeciding
<1> QED BY <1>5, <1>6

LEMMA LoadOldTurn ==
    ASSUME TypeOK, TypeOK', MapsInv, TurnsInv, serial, NEW c \in Conns, LoadOld(c)
    PROVE  TurnsInv' /\ (Gate!Admit(c) \/ UNCHANGED Gate!gateVars)
<1>1. /\ User(c) \in Users /\ IP(c) \in IPs /\ pc[c] = "old"
      /\ UNCHANGED <<fixed, dev, limit, alive, table, ips, old, seen, reporting, copied>>
      /\ \A d : User(d)' = User(d) /\ IP(d)' = IP(d)
  BY DeviceOf DEF LoadOld, fixed, tables, reporter, User, IP
<1>2. InCheck = {c} /\ ~reporting /\ OneAtATime /\ CallAt(c) /\ limit[User(c)] # Unknown
  BY <1>1, AloneInCheck DEF Checking, Undeciding
<1> DEFINE m == seen[c].map
<1>3. m = table[User(c)] /\ m \in Conns /\ m # None /\ IP(c) \in ips[m]
  BY <1>1, <1>2, MapInHand DEF CallAt, Undeciding
<1>4. old[IP(c)] \in {None, User(c)}
  BY <1>1 DEF MapsInv, TurnsInv
<1>5. ASSUME NEW place \in {"claim", "undo"}, pc' = [pc EXCEPT ![c] = place],
             place = "claim" => old[IP(c)] = User(c),
             place = "undo" => old[IP(c)] = None /\ OverLimit(c)
      PROVE  TurnsInv' /\ UNCHANGED Gate!gateVars
  <2>1. OneAtATime' /\ InCheck' = {c} /\ pc'[c] = place
    BY <1>1, <1>2, <1>5, TurnKept DEF Checking, Undeciding, TypeOK
  <2>2. OverLimit(c)' = OverLimit(c)
    BY <1>1 DEF OverLimit
  <2>3. CallAt(c)'
    BY <1>1, <1>2, <1>5, <2>1, <2>2 DEF CallAt, Checking, Undeciding
  <2>4. \A u \in Users : Held(u)' = Held(u)
    BY <1>1, <1>2, <1>5, <2>1, HeldByTable, HeldByTableNext DEF Undeciding
  <2> QED BY <1>1, <1>5, <2>3, <2>4, SilentTurn DEF Checking, Undeciding
<1>6. CASE old[IP(c)] = User(c)
  <2>1. pc' = [pc EXCEPT ![c] = "claim"]
    BY <1>1, <1>6, NoneAssumption DEF LoadOld, Goto
  <2> QED BY <1>5, <1>6, <2>1
<1>7. CASE old[IP(c)] = None /\ OverLimit(c)
  <2>1. pc' = [pc EXCEPT ![c] = "undo"]
    BY <1>1, <1>7, NoneAssumption DEF LoadOld, Goto
  <2> QED BY <1>5, <1>7, <2>1
<1>8. CASE old[IP(c)] = None /\ ~OverLimit(c)
  <2>1. pc' = [pc EXCEPT ![c] = "admitted"] /\ pc'[c] = "admitted"
    BY <1>1, <1>8, NoneAssumption DEF LoadOld, Goto, TypeOK
  <2>2. OneAtATime' /\ InCheck' = {}
    BY <1>1, <1>2, <2>1, TurnKept DEF Checking, Undeciding
  <2>3. \A u \in Users : Held(u)' = IF u = User(c) THEN Held(u) \cup {IP(c)} ELSE Held(u)
    <3>1. ASSUME NEW u \in Users, u = User(c) PROVE Held(u)' = Held(u) \cup {IP(c)}
      <4>1. Held(u) = ips[m] \ {IP(c)} /\ Held(u)' = ips[m]
        BY <1>1, <1>2, <1>3, <2>2, <3>1, HeldByTable, HeldByTableNext DEF Undeciding
      <4> QED BY <1>3, <4>1, TakeAndReturn
    <3>2. ASSUME NEW u \in Users, u # User(c) PROVE Held(u)' = Held(u)
      <4>1. table'[u] = table[u] /\ ips'[table[u]] = ips[table[u]] /\ dev' = dev
        BY <1>1
      <4>2. InCheck' \subseteq {c} /\ OneAtATime' /\ OneAtATime /\ InCheck = {c}
        BY <1>2, <2>2
      <4> QED BY <3>2, <4>1, <4>2, OthersHold
    <3> QED BY <3>1, <3>2
  <2>4. \A u \in Users : Reported(u)' = Reported(u) /\ IP(c) \notin Reported(u)
    BY <1>1, <1>8, NoneAssumption DEF Reported
  <2>5. limit[User(c)] = 0 \/ alive[User(c)] < limit[User(c)]
    <3>1. seen[c].limit = limit[User(c)] /\ seen[c].alive = alive[User(c)]
      BY <1>1, <1>2 DEF CallAt, Checking, Undeciding
    <3>2. limit[User(c)] \in Limits /\ alive[User(c)] \in AliveCounts \cup {0}
      BY <1>1, <1>2 DEF TypeOK
    <3>3. limit[User(c)] \in Nat /\ alive[User(c)] \in Nat
      BY <3>2, CountsAreNatural
    <3> QED BY <1>8, <3>1, <3>3 DEF OverLimit
  <2>6. \A u \in Users :
            /\ Held(u)' = IF u = User(c) THEN Held(u) \cup {IP(c)} ELSE Held(u)
            /\ Reported(u)' = IF u = User(c) THEN Reported(u) \ {IP(c)} ELSE Reported(u)
    BY <2>3, <2>4
  <2> QED BY <1>1, <2>1, <2>5, <2>6, AdmitTurn DEF Checking, Undeciding
<1> QED BY <1>4, <1>6, <1>7, <1>8

LEMMA ClaimTurn ==
    ASSUME TypeOK, TypeOK', MapsInv, TurnsInv, serial, NEW c \in Conns, Claim(c)
    PROVE  TurnsInv' /\ Gate!Admit(c)
<1>1. /\ User(c) \in Users /\ IP(c) \in IPs /\ pc[c] = "claim"
      /\ UNCHANGED <<fixed, dev, limit, alive, table, ips, seen, reporting, copied>>
      /\ \A d : User(d)' = User(d) /\ IP(d)' = IP(d)
      /\ old' = [old EXCEPT ![IP(c)] = None]
      /\ pc' = [pc EXCEPT ![c] = "admitted"]
  BY DeviceOf DEF Claim, Goto, fixed, reporter, User, IP
<1>2. InCheck = {c} /\ ~reporting /\ OneAtATime /\ CallAt(c) /\ limit[User(c)] # Unknown
  BY <1>1, AloneInCheck DEF Checking, Undeciding
<1> DEFINE m == seen[c].map
<1>3. m = table[User(c)] /\ m \in Conns /\ m # None /\ IP(c) \in ips[m] /\ old[IP(c)] = User(c)
  BY <1>1, <1>2, MapInHand DEF CallAt, Undeciding
<1>4. OneAtATime' /\ InCheck' = {}
  <2>1. pc' = [pc EXCEPT ![c] = "admitted"] /\ UNCHANGED <<fixed, limit, reporting, copied>> /\ "admitted" \notin Checking
    BY <1>1 DEF Checking, Undeciding
  <2> QED BY <1>2, <2>1, TurnKept
<1>5. \A u \in Users : Held(u)' = IF u = User(c) THEN Held(u) \cup {IP(c)} ELSE Held(u)
  <2>1. ASSUME NEW u \in Users, u = User(c) PROVE Held(u)' = Held(u) \cup {IP(c)}
    <3>1. Held(u) = ips[m] \ {IP(c)} /\ Held(u)' = ips[m]
      BY <1>1, <1>2, <1>3, <1>4, <2>1, HeldByTable, HeldByTableNext DEF Undeciding
    <3> QED BY <1>3, <3>1, TakeAndReturn
  <2>2. ASSUME NEW u \in Users, u # User(c) PROVE Held(u)' = Held(u)
    <3>1. table'[u] = table[u] /\ ips'[table[u]] = ips[table[u]] /\ dev' = dev
      BY <1>1
    <3>2. InCheck' \subseteq {c} /\ OneAtATime' /\ OneAtATime /\ InCheck = {c}
      BY <1>2, <1>4
    <3> QED BY <2>2, <3>1, <3>2, OthersHold
  <2> QED BY <2>1, <2>2
<1>6. \A u \in Users : Reported(u)' = IF u = User(c) THEN Reported(u) \ {IP(c)} ELSE Reported(u)
  <2>1. \A u \in Users, i \in IPs : old'[i] = u <=> old[i] = u /\ i # IP(c)
    BY <1>1, NoneAssumption DEF TypeOK
  <2> QED BY <1>1, <1>3, <2>1 DEF Reported
<1>7. IP(c) \in Reported(User(c))
  BY <1>1, <1>3 DEF Reported
<1> QED BY <1>1, <1>5, <1>6, <1>7, AdmitTurn DEF Checking, Undeciding

LEMMA UndoTurn ==
    ASSUME TypeOK, TypeOK', MapsInv, TurnsInv, serial, NEW c \in Conns, Undo(c)
    PROVE  TurnsInv' /\ Gate!Refuse(c)
<1>1. /\ User(c) \in Users /\ IP(c) \in IPs /\ pc[c] = "undo"
      /\ UNCHANGED <<fixed, dev, limit, alive, old, seen, reporting, copied>>
      /\ \A d : User(d)' = User(d) /\ IP(d)' = IP(d)
      /\ pc' = [pc EXCEPT ![c] = "refused"]
  BY DeviceOf DEF Undo, Goto, fixed, reporter, User, IP
<1>2. InCheck = {c} /\ ~reporting /\ OneAtATime /\ CallAt(c) /\ limit[User(c)] # Unknown
  BY <1>1, AloneInCheck DEF Checking, Undeciding
<1> DEFINE m == seen[c].map
<1>3. /\ m = table[User(c)] /\ m \in Conns /\ m # None /\ IP(c) \in ips[m]
      /\ old[IP(c)] = None /\ OverLimit(c) /\ (m = c => ips[c] = {IP(c)})
      /\ \A u \in Users : u # User(c) => table[u] # m \/ table[u] = None
  BY <1>1, <1>2, MapInHand DEF CallAt, Undeciding
<1>4. OneAtATime' /\ InCheck' = {}
  <2>1. pc' = [pc EXCEPT ![c] = "refused"] /\ UNCHANGED <<fixed, limit, reporting, copied>> /\ "refused" \notin Checking
    BY <1>1 DEF Checking, Undeciding
  <2> QED BY <1>2, <2>1, TurnKept
<1>5. Held(User(c)) = ips[m] \ {IP(c)}
  BY <1>1, <1>2, <1>3, HeldByTable DEF Undeciding
<1>6. \A u \in Users : Held(u)' = Held(u)
  <2> SUFFICES ASSUME NEW u \in Users PROVE Held(u)' = Held(u)
    OBVIOUS
  <2>1. CASE u # User(c)
    <3>1. table'[u] = table[u] /\ (table[u] # None => ips'[table[u]] = ips[table[u]])
      BY <1>1, <1>3, <2>1 DEF Undo, TypeOK
    <3> QED BY <1>1, <1>2, <1>4, <2>1, <3>1, OthersHold
  <2>2. CASE u = User(c) /\ m = c
    <3>1. table'[u] = None
      BY <1>1, <2>2 DEF Undo, TypeOK
    <3>2. Held(u)' = {}
      BY <1>4, <3>1, HeldByTableNext
    <3> QED BY <1>3, <1>5, <2>2, <3>2
  <2>3. CASE u = User(c) /\ m # c
    <3>1. table'[u] = m /\ ips'[m] = ips[m] \ {IP(c)}
      BY <1>3, <2>3 DEF Undo, TypeOK
    <3>2. Held(u)' = ips[m] \ {IP(c)}
      BY <1>3, <1>4, <3>1, HeldByTableNext
    <3> QED BY <1>5, <2>3, <3>2
  <2> QED BY <2>1, <2>2, <2>3
<1>7. \A u \in Users : Online(u)' = Online(u) /\ Last(u)' = Last(u)
  BY <1>1, <1>6 DEF Online, Last, Reported
<1>8. IP(c) \notin Online(User(c)) \cup Last(User(c))
  BY <1>1, <1>2, <1>3, <1>5, NoneAssumption DEF Online, Last, Reported
<1>9. ~(limit[User(c)] = 0 \/ alive[User(c)] < limit[User(c)])
  <2>1. seen[c].limit = limit[User(c)] /\ seen[c].alive = alive[User(c)]
    BY <1>1, <1>2 DEF CallAt, Checking, Undeciding
  <2>2. limit[User(c)] \in Limits /\ alive[User(c)] \in AliveCounts \cup {0}
    BY <1>1, <1>2 DEF TypeOK
  <2>3. limit[User(c)] \in Nat /\ alive[User(c)] \in Nat
    BY <2>2, CountsAreNatural
  <2> QED BY <1>3, <2>1, <2>3 DEF OverLimit
<1>10. Gate!Refuse(c)
  BY <1>1, <1>7, <1>8, <1>9, RefuseIs
<1>11. CallAt(c)'
  <2>1. pc'[c] = "refused"
    BY <1>1 DEF TypeOK
  <2> QED BY <2>1 DEF CallAt, Checking, Undeciding
<1>12. \A u \in Users : \A i \in Held(u)' : old'[i] # u
  BY <1>1, <1>2, <1>6 DEF TurnsInv, DevicesAt
<1>13. \A u \in Users : table'[u] = table[u] \/ table'[u] = None
  BY DEF Undo, TypeOK
<1> QED BY <1>1, <1>2, <1>10, <1>11, <1>12, <1>13, TurnKept

-----------------------------------------------------------------------------
\* The steps of a report and of the panel's updates, which find no call

LEMMA NoCallNext ==
    ASSUME TypeOK, TypeOK', TurnsInv, serial, InCheck = {}, UNCHANGED <<fixed, pc, seen>>
    PROVE  /\ InCheck' = {} /\ OneAtATime' /\ (DevicesAt' => TurnsInv')
           /\ \A c \in Conns : Verdict(c)' = Verdict(c)
<1>1. InCheck' = {}
  BY DEF InCheck
<1>2. OneAtATime'
  BY <1>1 DEF OneAtATime
<1>3. \A c \in Conns : pc[c] \notin Checking
  BY CheckingAre
<1>4. \A c \in Conns : CallAt(c)'
  BY <1>3 DEF CallAt, Checking, Undeciding
<1>5. \A c, d \in Conns : IP(c)' = IP(d)' => User(c)' = User(d)'
  BY DEF TurnsInv, fixed, User, IP
<1>6. \A c \in Conns : Verdict(c)' = Verdict(c)
  BY DEF Verdict
<1> QED BY <1>1, <1>2, <1>4, <1>5, <1>6 DEF TurnsInv

LEMMA BeginReportTurn ==
    ASSUME TypeOK, TypeOK', MapsInv, TurnsInv, serial, BeginReport
    PROVE  TurnsInv' /\ Gate!Report
<1>1. InCheck = {} /\ ~reporting /\ OneAtATime
  BY AloneAtFirst DEF BeginReport, MayBegin, TurnsInv
<1>2. /\ UNCHANGED <<limit, alive, dev, table, ips, pc, fixed, seen, copied>>
      /\ reporting' /\ unvisited' = Users /\ \A i \in IPs : old'[i] = None
  BY DEF BeginReport, fixed
<1>3. InCheck' = {} /\ OneAtATime' /\ (DevicesAt' => TurnsInv') /\ \A c \in Conns : Verdict(c)' = Verdict(c)
  BY <1>1, <1>2, NoCallNext
<1>4. \A u \in Users : Held(u)' = Held(u) /\ Reported(u)' = {}
  BY <1>1, <1>2, <1>3, HeldByTable, HeldByTableNext, NoneAssumption DEF Reported
<1>5. \A u \in Users : Online(u)' = {} /\ Last(u)' = Online(u)
  BY <1>1, <1>2, <1>4 DEF Online, Last
<1>6. DevicesAt'
  BY <1>1, <1>2 DEF DevicesAt, MapsInv, TurnsInv
<1>7. [u \in Users |-> Last(u)]' = [u \in Users |-> Online(u)]
  BY <1>5
<1>8. [u \in Users |-> Online(u)]' = [u \in Users |-> {}]
  BY <1>5
<1>9. [c \in Conns |-> Verdict(c)]' = [c \in Conns |-> Verdict(c)]
  BY <1>3
<1>10. Gate!Report
  BY <1>2, <1>7, <1>8, <1>9 DEF Gate!Report, Online, Last, Verdict
<1> QED BY <1>3, <1>6, <1>10

LEMMA CopyUserTurn ==
    ASSUME TypeOK, TypeOK', MapsInv, TurnsInv, serial, NEW u \in Users, CopyUser(u)
    PROVE  TurnsInv' /\ UNCHANGED Gate!gateVars
<1>1. reporting /\ InCheck = {} /\ OneAtATime /\ copied = None
  BY DEF CopyUser, MapsInv, TurnsInv, OneAtATime
<1>2. /\ UNCHANGED <<limit, alive, dev, table, ips, pc, fixed, seen, reporting>>
      /\ unvisited' = unvisited \ {u}
  BY DEF CopyUser, fixed
<1>3. InCheck' = {} /\ OneAtATime' /\ (DevicesAt' => TurnsInv') /\ \A c \in Conns : Verdict(c)' = Verdict(c)
  BY <1>1, <1>2, NoCallNext
<1>4. \A v \in Users : Held(v)' = Held(v)
  BY <1>1, <1>2, <1>3, HeldByTable, HeldByTableNext
<1>5. CASE table[u] = None
  <2>1. old' = old /\ copied' = copied
    BY <1>5 DEF CopyUser
  <2>2. \A v \in Users : Online(v)' = Online(v) /\ Last(v)' = Last(v)
    BY <1>2, <1>4, <2>1 DEF Online, Last, Reported
  <2>3. DevicesAt'
    BY <1>1, <1>2, <1>5, <2>1 DEF DevicesAt, TurnsInv
  <2> QED BY <1>2, <1>3, <2>2, <2>3, StutterIs
<1>6. CASE table[u] # None
  <2> DEFINE found == ips[table[u]]
  <2>1. old' = [i \in IPs |-> IF i \in found THEN u ELSE old[i]] /\ copied' = u
    BY <1>6 DEF CopyUser
  <2>2. found \subseteq IPs /\ Held(u) = found
    BY <1>1, <1>6, HeldByTable DEF TypeOK
  <2>3. \A i \in found : old[i] \in {None, u}
    <3> SUFFICES ASSUME NEW i \in found, old[i] # None PROVE old[i] = u
      OBVIOUS
    <3>1. PICK c \in Conns : User(c) = u /\ IP(c) = i
      BY <1>6 DEF MapsInv
    <3>2. PICK d \in Conns : User(d) = old[i] /\ IP(d) = i
      BY <2>2 DEF MapsInv
    <3> QED BY <3>1, <3>2 DEF TurnsInv
  <2>4. \A v \in Users : Reported(v)' = IF v = u THEN Reported(v) \cup found ELSE Reported(v)
    <3>1. \A v \in Users, i \in IPs : old'[i] = v <=> old[i] = v \/ (v = u /\ i \in found)
      BY <2>1, <2>3, NoneAssumption
    <3> QED BY <2>2, <3>1 DEF Reported
  <2>5. \A v \in Users : Online(v)' = Online(v) /\ Last(v)' = Last(v)
    BY <1>1, <1>2, <1>4, <2>2, <2>4 DEF Online, Last
  <2>6. DevicesAt'
    <3>1. \A i \in ips[table[u]] : old'[i] = u
      BY <2>1, <2>2
    <3>2. \A v \in Users \ unvisited : table[v] = None
      BY <1>1, NoneAssumption DEF DevicesAt, TurnsInv
    <3> QED BY <1>1, <1>2, <2>1, <3>1, <3>2 DEF DevicesAt, TurnsInv
  <2> QED BY <1>2, <1>3, <2>5, <2>6, StutterIs
<1> QED BY <1>5, <1>6

LEMMA DeleteUserTurn ==
    ASSUME TypeOK, TypeOK', MapsInv, TurnsInv, serial, DeleteUser
    PROVE  TurnsInv' /\ UNCHANGED Gate!gateVars
<1>1. reporting /\ InCheck = {} /\ OneAtATime /\ copied \in Users
  BY DEF DeleteUser, MapsInv, TurnsInv, OneAtATime, TypeOK
<1>2. /\ UNCHANGED <<limit, alive, dev, old, ips, pc, fixed, seen, reporting, unvisited>>
      /\ table' = [table EXCEPT ![copied] = None] /\ copied' = None
  BY DEF DeleteUser, fixed
<1>3. InCheck' = {} /\ OneAtATime' /\ (DevicesAt' => TurnsInv') /\ \A c \in Conns : Verdict(c)' = Verdict(c)
  BY <1>1, <1>2, NoCallNext
<1>4. table'[copied] = None /\ \A v \in Users : v # copied => table'[v] = table[v]
  BY <1>1, <1>2 DEF TypeOK
<1>5. \A v \in Users : v # copied => Held(v)' = Held(v)
  BY <1>1, <1>2, <1>3, <1>4, HeldByTable, HeldByTableNext
<1>6. ASSUME NEW v \in Users, v = copied PROVE Held(v)' = {} /\ Held(v) \subseteq Reported(v)
  <2>1. Held(v)' = {}
    BY <1>3, <1>4, <1>6, HeldByTableNext
  <2>2. Held(v) = IF table[v] = None THEN {} ELSE ips[table[v]]
    BY <1>1, HeldByTable
  <2>3. table[v] # None => ips[table[v]] \subseteq IPs
    BY DEF TypeOK
  <2>4. table[v] # None => \A i \in ips[table[v]] : old[i] = v
    BY <1>6 DEF TurnsInv, DevicesAt, DeleteUser
  <2> QED BY <2>1, <2>2, <2>3, <2>4 DEF Reported
<1>7. \A v \in Users : Reported(v)' = Reported(v)
  BY <1>2 DEF Reported
<1>8. \A v \in Users : Online(v)' = Online(v) /\ Last(v)' = Last(v)
  <2> SUFFICES ASSUME NEW v \in Users PROVE Online(v)' = Online(v) /\ Last(v)' = Last(v)
    OBVIOUS
  <2>1. CASE v = copied
    <3>1. Reported(v) \cup Held(v) = Reported(v) /\ Held(v)' = {}
      BY <1>6, <2>1
    <3> QED BY <1>1, <1>2, <1>7, <3>1 DEF Online, Last
  <2>2. CASE v # copied
    BY <1>2, <1>5, <1>7, <2>2 DEF Online, Last
  <2> QED BY <2>1, <2>2
<1>9. DevicesAt'
  BY <1>1, <1>2, <1>4 DEF DevicesAt, TurnsInv
<1> QED BY <1>2, <1>3, <1>8, <1>9, StutterIs

LEMMA EndReportTurn ==
    ASSUME TypeOK, TypeOK', MapsInv, TurnsInv, serial, EndReport
    PROVE  TurnsInv' /\ UNCHANGED Gate!gateVars
<1>1. reporting /\ InCheck = {} /\ OneAtATime
  BY DEF EndReport, TurnsInv, OneAtATime
<1>2. /\ UNCHANGED <<limit, alive, dev, table, old, ips, pc, fixed, seen, copied>>
      /\ ~reporting' /\ copied = None
  BY DEF EndReport, fixed, tables
<1>3. InCheck' = {} /\ OneAtATime' /\ (DevicesAt' => TurnsInv') /\ \A c \in Conns : Verdict(c)' = Verdict(c)
  BY <1>1, <1>2, NoCallNext
<1>4. \A u \in Users : table[u] = None
  BY NoneAssumption DEF EndReport, TurnsInv, DevicesAt
<1>5. \A u \in Users : Held(u) = {} /\ Held(u)' = {}
  BY <1>1, <1>2, <1>3, <1>4, HeldByTable, HeldByTableNext
<1>6. \A u \in Users : Online(u)' = Online(u) /\ Last(u)' = Last(u)
  BY <1>1, <1>2, <1>5 DEF Online, Last, Reported
<1>7. DevicesAt'
  BY <1>2, <1>4, <1>5 DEF DevicesAt
<1> QED BY <1>2, <1>3, <1>6, <1>7, StutterIs

LEMMA SetAliveTurn ==
    ASSUME TypeOK, TypeOK', MapsInv, TurnsInv, serial, NEW u \in Users, SetAlive(u)
    PROVE  TurnsInv' /\ \E n \in AliveCounts : Gate!SetAlive(u, n)
<1>1. InCheck = {} /\ ~reporting /\ OneAtATime
  BY AloneAtFirst DEF SetAlive, MayUpdate, MayBegin, TurnsInv
<1>2. UNCHANGED <<limit, dev, table, old, ips, pc, fixed, seen, reporting, unvisited, copied>>
  BY DEF SetAlive, fixed, reporter
<1>3. InCheck' = {} /\ OneAtATime' /\ (DevicesAt' => TurnsInv') /\ \A c \in Conns : Verdict(c)' = Verdict(c)
  BY <1>1, <1>2, NoCallNext
<1>4. \A v \in Users : Held(v)' = Held(v)
  BY <1>1, <1>2, <1>3, HeldByTable, HeldByTableNext
<1>5. \A v \in Users : Online(v)' = Online(v) /\ Last(v)' = Last(v)
  BY <1>2, <1>4 DEF Online, Last, Reported
<1>6. DevicesAt'
  BY <1>1, <1>2, <1>4 DEF DevicesAt, TurnsInv
<1>7. [v \in Users |-> Last(v)]' = [v \in Users |-> Last(v)]
  BY <1>5
<1>8. [v \in Users |-> Online(v)]' = [v \in Users |-> Online(v)]
  BY <1>5
<1>9. [c \in Conns |-> Verdict(c)]' = [c \in Conns |-> Verdict(c)]
  BY <1>3
<1>10. PICK n \in AliveCounts : alive' = [alive EXCEPT ![u] = n]
  BY DEF SetAlive
<1>11. Gate!SetAlive(u, n)
  BY <1>2, <1>7, <1>8, <1>9, <1>10 DEF Gate!SetAlive, Online, Last, Verdict
<1> QED BY <1>3, <1>6, <1>11

LEMMA UpdateUserTurn ==
    ASSUME TypeOK, TypeOK', MapsInv, TurnsInv, serial, NEW u \in Users, UpdateUser(u)
    PROVE  TurnsInv' /\ \E l \in Limits \cup {Unknown} : Gate!SetUser(u, l)
<1>1. InCheck = {} /\ ~reporting /\ OneAtATime
  BY AloneAtFirst DEF UpdateUser, MayUpdate, MayBegin, TurnsInv
<1>2. UNCHANGED <<dev, old, ips, pc, fixed, seen, reporting, unvisited, copied>>
  BY DEF UpdateUser, fixed, reporter
<1>3. InCheck' = {} /\ OneAtATime' /\ (DevicesAt' => TurnsInv') /\ \A c \in Conns : Verdict(c)' = Verdict(c)
  BY <1>1, <1>2, NoCallNext
<1>4. PICK l \in Limits \cup {Unknown} : RemoveUser(u, l) \/ AddUser(u, l)
  BY DEF UpdateUser, DeleteInfo
<1>5. /\ limit' = [limit EXCEPT ![u] = l]
      /\ alive' = IF limit[u] = Unknown THEN alive ELSE [alive EXCEPT ![u] = 0]
  BY <1>4 DEF RemoveUser, AddUser
<1>6. table'[u] = None /\ \A v \in Users : v # u => table'[v] = table[v] /\ limit'[v] = limit[v]
  BY <1>4 DEF RemoveUser, AddUser, TurnsInv, DevicesAt, TypeOK
<1>7. \A v \in Users : Held(v)' = IF v = u THEN {} ELSE Held(v)
  BY <1>1, <1>2, <1>3, <1>6, HeldByTable, HeldByTableNext
<1>8. \A v \in Users : Online(v)' = (IF v = u THEN {} ELSE Online(v)) /\ Last(v)' = Last(v)
  BY <1>1, <1>2, <1>7 DEF Online, Last, Reported
<1>9. DevicesAt'
  BY <1>1, <1>2, <1>6, <1>7 DEF DevicesAt, TurnsInv, MapsInv
<1>10. [v \in Users |-> Last(v)]' = [v \in Users |-> Last(v)]
  BY <1>8
<1>11. [v \in Users |-> Online(v)]' = [[v \in Users |-> Online(v)] EXCEPT ![u] = {}]
  BY <1>8
<1>12. [c \in Conns |-> Verdict(c)]' = [c \in Conns |-> Verdict(c)]
  BY <1>3
<1>13. Gate!SetUser(u, l)
  BY <1>2, <1>5, <1>10, <1>11, <1>12 DEF Gate!SetUser, Online, Last, Verdict
<1> QED BY <1>3, <1>9, <1>13

-----------------------------------------------------------------------------
LEMMA InitTurns == Init => TurnsInv /\ Gate!GateInit
<1> SUFFICES ASSUME Init PROVE TurnsInv /\ Gate!GateInit
  OBVIOUS
<1>1. InCheck = {} /\ \A u \in Users : Held(u) = {} /\ Reported(u) = {}
  BY NoneAssumption DEF Init, InCheck, Held, Reported
<1>2. TurnsInv
  BY <1>1 DEF Init, TurnsInv, OneAtATime, DevicesAt, CallAt, Checking, Undeciding, User, IP
<1>3. Gate!GateInit
  BY <1>1 DEF Init, Gate!GateInit
<1> QED BY <1>2, <1>3

\* A removal in several steps is not under way where calls take turns.
WholeInv == serial => removal = Nobody

LEMMA WholeInductive == (Init => WholeInv) /\ (WholeInv /\ [Next]_vars => WholeInv')
<1>1. Init => WholeInv
  BY DEF Init, WholeInv
<1>2. ASSUME WholeInv, UNCHANGED <<serial, removal>> PROVE WholeInv'
  BY <1>2 DEF WholeInv, Nobody
<1>3. ASSUME WholeInv, UNCHANGED vars PROVE WholeInv'
  BY <1>2, <1>3 DEF vars, fixed, updater
<1>4. ASSUME WholeInv, NEW c \in Conns, CheckLimit(c) PROVE WholeInv'
  BY <1>2, <1>4 DEF CheckLimit, LoadInfo, StoreMap, StoreIP, LoadOld, Claim, Undo, fixed, updater
<1>5. ASSUME WholeInv, GetOnlineDevice PROVE WholeInv'
  BY <1>2, <1>5 DEF GetOnlineDevice, BeginReport, CopyUser, DeleteUser, EndReport, fixed, updater
<1>6. ASSUME WholeInv, NEW u \in Users, SetAlive(u) \/ UpdateUser(u) PROVE WholeInv'
  <2>1. CASE SetAlive(u)
    BY <1>2, <1>6, <2>1 DEF SetAlive, fixed
  <2>2. CASE UpdateUser(u)
    BY <1>6, <2>2 DEF UpdateUser, RemoveUser, DeleteInfo, AddUser, fixed, WholeInv, Nobody
  <2> QED BY <1>6, <2>1, <2>2
<1>7. ASSUME WholeInv, DeleteOnline \/ DeleteAlive \/ StoreInfo PROVE WholeInv'
  <2>1. removal.at \in {"online", "alive", "info"} /\ serial' = serial
    BY <1>7 DEF DeleteOnline, DeleteAlive, StoreInfo, fixed
  <2>2. removal # Nobody
    BY <2>1 DEF Nobody
  <2> QED BY <1>7, <2>1, <2>2 DEF WholeInv
<1> QED BY <1>1, <1>3, <1>4, <1>5, <1>6, <1>7 DEF Next

LEMMA TurnsInductive ==
    ASSUME TypeOK, TypeOK', MapsInv, TurnsInv, WholeInv, [Next]_vars
    PROVE  TurnsInv' /\ [serial => Gate!GateNext]_<<serial, Gate!gateVars>>
<1>1. CASE UNCHANGED vars
  <2>1. TurnsInv'
    BY <1>1 DEF vars, fixed, tables, reporter, TurnsInv, OneAtATime, DevicesAt, CallAt, InCheck, Held,
                Undecided, OverLimit, User, IP
  <2>2. UNCHANGED <<serial, Gate!gateVars>>
    BY <1>1 DEF vars, fixed, tables, reporter, Gate!gateVars, Held, Undecided, InCheck, Reported, User, IP
  <2> QED BY <2>1, <2>2
<1>2. CASE Next
  <2>1. serial' = serial
    BY <1>2 DEF Next, CheckLimit, LoadInfo, StoreMap, StoreIP, LoadOld, Claim, Undo, GetOnlineDevice,
                BeginReport, CopyUser, DeleteUser, EndReport, SetAlive, UpdateUser,
                DeleteOnline, DeleteAlive, StoreInfo, fixed
  <2>2. CASE ~serial
    BY <2>1, <2>2 DEF TurnsInv
  <2>3. CASE serial
    <3>1. TurnsInv' /\ (Gate!GateNext \/ UNCHANGED Gate!gateVars)
      <4>1. ASSUME NEW c \in Conns, CheckLimit(c) PROVE TurnsInv' /\ (Gate!GateNext \/ UNCHANGED Gate!gateVars)
        BY <2>3, <4>1, LoadInfoTurn, StoreMapTurn, StoreIPTurn, LoadOldTurn, ClaimTurn, UndoTurn
           DEF CheckLimit, Gate!GateNext
      <4>2. ASSUME GetOnlineDevice PROVE TurnsInv' /\ (Gate!GateNext \/ UNCHANGED Gate!gateVars)
        BY <2>3, <4>2, BeginReportTurn, CopyUserTurn, DeleteUserTurn, EndReportTurn
           DEF GetOnlineDevice, Gate!GateNext
      <4>3. ASSUME NEW u \in Users, SetAlive(u) \/ UpdateUser(u) PROVE TurnsInv' /\ Gate!GateNext
        BY <2>3, <4>3, SetAliveTurn, UpdateUserTurn DEF Gate!GateNext
      <4>4. ~(DeleteOnline \/ DeleteAlive \/ StoreInfo)
        BY <2>3 DEF WholeInv, Nobody, DeleteOnline, DeleteAlive, StoreInfo
      <4> QED BY <1>2, <4>1, <4>2, <4>3, <4>4 DEF Next
    <3> QED BY <2>1, <3>1
  <2> QED BY <2>2, <2>3
<1> QED BY <1>1, <1>2

\* Calls of users that share no IP, taking turns, behave as the abstract gate,
\* for any number of calls, devices and reports.
THEOREM ImplementsGateAlways == Spec => ImplementsGate
<1>1. TypeOK /\ MapsInv /\ TurnsInv /\ WholeInv /\ [Next]_vars =>
          TypeOK' /\ MapsInv' /\ TurnsInv' /\ WholeInv' /\ [serial => Gate!GateNext]_<<serial, Gate!gateVars>>
  BY MapsInductive, TurnsInductive, WholeInductive
<1> QED BY <1>1, InitMaps, InitTurns, WholeInductive, PTL DEF Spec, ImplementsGate
=============================================================================
