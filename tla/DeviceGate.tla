----------------------------- MODULE DeviceGate -----------------------------
(***************************************************************************)
(* What limiter.Limiter promises about devices, one call at a time: a       *)
(* device (a user's IP) that was admitted since the last report, or was in  *)
(* it, is admitted again; any other only while the panel counts fewer       *)
(* online IPs of the user than its device limit.  GetOnlineDevice reports   *)
(* the devices admitted since the report before.                            *)
(***************************************************************************)
EXTENDS Naturals

CONSTANTS Users, IPs, Devices, Conns, Limits, AliveCounts, Unknown

VARIABLES
    limit,     \* each user's device limit, 0 = none, or Unknown
    alive,     \* online IPs of each user, as counted by the panel
    online,    \* each user's IPs admitted since the last report
    last,      \* each user's IPs of the last report not admitted since
    dev,       \* the device of each call
    verdict    \* the answer to each call

gateVars == <<limit, alive, online, last, dev, verdict>>

GateInit ==
    /\ limit \in [Users -> Limits \cup {Unknown}]
    /\ alive \in [Users -> AliveCounts]
    /\ online = [u \in Users |-> {}] /\ last = [u \in Users |-> {}]
    /\ dev \in [Conns -> Devices]
    /\ verdict = [c \in Conns |-> "none"]

Known(u, i) == i \in online[u] \cup last[u]
Room(u) == limit[u] = 0 \/ alive[u] < limit[u]

Admit(c) ==
    LET u == dev[c][1]
        i == dev[c][2]
    IN  /\ verdict[c] = "none"
        /\ limit[u] # Unknown /\ (Known(u, i) \/ Room(u))
        /\ online' = [online EXCEPT ![u] = @ \cup {i}]
        /\ last' = [last EXCEPT ![u] = @ \ {i}]
        /\ verdict' = [verdict EXCEPT ![c] = "admitted"]
        /\ UNCHANGED <<limit, alive, dev>>

Refuse(c) ==
    LET u == dev[c][1]
        i == dev[c][2]
    IN  /\ verdict[c] = "none"
        /\ limit[u] = Unknown \/ ~(Known(u, i) \/ Room(u))
        /\ verdict' = [verdict EXCEPT ![c] = "refused"]
        /\ UNCHANGED <<limit, alive, online, last, dev>>

Report ==
    /\ last' = online
    /\ online' = [u \in Users |-> {}]
    /\ UNCHANGED <<limit, alive, dev, verdict>>

SetAlive(u, n) ==
    /\ alive' = [alive EXCEPT ![u] = n]
    /\ UNCHANGED <<limit, online, last, dev, verdict>>

\* A user that is removed, or replaced by itself with another profile, loses
\* what is online; the last report stays.
SetUser(u, l) ==
    /\ limit' = [limit EXCEPT ![u] = l]
    /\ online' = [online EXCEPT ![u] = {}]
    /\ alive' = IF limit[u] = Unknown THEN alive ELSE [alive EXCEPT ![u] = 0]
    /\ UNCHANGED <<last, dev, verdict>>

GateNext ==
    \/ \E c \in Conns : Admit(c) \/ Refuse(c)
    \/ Report
    \/ \E u \in Users, n \in AliveCounts : SetAlive(u, n)
    \/ \E u \in Users, l \in Limits \cup {Unknown} : SetUser(u, l)

GateSpec == GateInit /\ [][GateNext]_gateVars
=============================================================================
