-------------------------- MODULE CertStoreProofs --------------------------
(***************************************************************************)
(* Proofs about module CertStore, for any nodes and any number of failures  *)
(* and crashes at any place.                                                *)
(***************************************************************************)
EXTENDS CertStore, FiniteSetTheorems, TLAPS

\* A node that is not in the config file has no goroutine, and one that has not
\* been started has no renewal.
PlacesInv ==
    /\ \A n \in Nodes, a \in Goroutines : pc[n][a] # "off" => n \in members
    /\ \A n \in Nodes : pc[n]["renew"] # "off" => n \in up /\ mode = "acme"

Types == TypeOK /\ PlacesInv

\* A step of one goroutine leaves the others where they are.
LEMMA GotoIs ==
    ASSUME TypeOK, NEW n \in Nodes, NEW a \in Goroutines, NEW place \in Places, Goto(n, a, place)
    PROVE  /\ pc' \in [Nodes -> [Goroutines -> Places]] /\ pc'[n][a] = place
           /\ \A m \in Nodes, b \in Goroutines : m # n \/ b # a => pc'[m][b] = pc[m][b]
  BY DEF TypeOK, Goto

LEMMA TakeIs ==
    ASSUME TypeOK, NEW n \in Nodes, NEW a \in Goroutines, Take(n, a)
    PROVE  /\ hand'[n][a] \in Pairs
           /\ \A m \in Nodes, b \in Goroutines : m # n \/ b # a => hand'[m][b] = hand[m][b]
<1>1. PICK p \in Pairs \ InUse : hand' = [hand EXCEPT ![n][a] = p]
  BY DEF Take
<1> QED BY <1>1 DEF TypeOK

\* The types of what is not a place or in a goroutine's hand
FilesTyped ==
    /\ cert \in Pairs \cup {None, Torn} /\ key \in Pairs \cup {None, Torn}
    /\ account \in {None, Torn, "saved"} /\ old \in BOOLEAN /\ (old => mode = "acme" /\ cert \in Pairs)
    /\ lost \subseteq {"account", "pair"}
    /\ registered \in Nat /\ failures \in 0..MaxFailures /\ crashes \in 0..MaxCrashes

\* A goroutine that goes on: its hand is full as long as it writes.
LEMMA WalkTypes ==
    ASSUME Types, NEW n \in members, NEW a \in Goroutines, NEW place \in Places, Goto(n, a, place),
           UNCHANGED <<config, up>>, a = "renew" => n \in up /\ mode = "acme", FilesTyped',
           \/ hand' = hand /\ (place \in Writing <=> pc[n][a] \in Writing)
           \/ Take(n, a) /\ place \in Writing
           \/ hand' = [hand EXCEPT ![n][a] = None] /\ place \notin Writing
    PROVE  Types'
<1>1. n \in Nodes /\ members \subseteq Nodes /\ UNCHANGED <<mode, literal, members, strict>>
  BY DEF Types, TypeOK, config
<1>2. /\ pc' \in [Nodes -> [Goroutines -> Places]] /\ pc'[n][a] = place
      /\ \A m \in Nodes, b \in Goroutines : m # n \/ b # a => pc'[m][b] = pc[m][b]
  BY <1>1, GotoIs DEF Types
<1>3. /\ hand' \in [Nodes -> [Goroutines -> Pairs \cup {None}]]
      /\ IF place \in Writing THEN hand'[n][a] \in Pairs ELSE hand'[n][a] = None
      /\ \A m \in Nodes, b \in Goroutines : m # n \/ b # a => hand'[m][b] = hand[m][b]
  <2>1. CASE hand' = hand /\ (place \in Writing <=> pc[n][a] \in Writing)
    BY <1>1, <2>1 DEF Types, TypeOK
  <2>2. CASE Take(n, a) /\ place \in Writing
    <3>1. hand' \in [Nodes -> [Goroutines -> Pairs \cup {None}]]
      BY <1>1, <2>2 DEF Types, TypeOK, Take
    <3> QED BY <1>1, <2>2, <3>1, TakeIs DEF Types
  <2>3. CASE hand' = [hand EXCEPT ![n][a] = None] /\ place \notin Writing
    BY <1>1, <2>3 DEF Types, TypeOK
  <2> QED BY <2>1, <2>2, <2>3
<1>4. \A m \in Nodes, b \in Goroutines : IF pc'[m][b] \in Writing THEN hand'[m][b] \in Pairs ELSE hand'[m][b] = None
  BY <1>2, <1>3 DEF Types, TypeOK
<1>5. PlacesInv'
  BY <1>1, <1>2 DEF Types, PlacesInv, Goroutines
<1>6. TypeOK'
  BY <1>1, <1>2, <1>3, <1>4 DEF Types, TypeOK, FilesTyped
<1> QED BY <1>5, <1>6 DEF Types

LEMMA DieTypes ==
    ASSUME Types, Die, FilesTyped', UNCHANGED config
    PROVE  Types'
<1>1. \A n \in Nodes, a \in Goroutines : pc'[n][a] = "off" /\ hand'[n][a] = None
  BY DEF Die
<1>2. pc' \in [Nodes -> [Goroutines -> Places]] /\ hand' \in [Nodes -> [Goroutines -> Pairs \cup {None}]]
  BY DEF Die, Places
<1>3. up' = {} /\ UNCHANGED <<mode, literal, members, strict>>
  BY DEF Die, config
<1>4. PlacesInv'
  BY <1>1, <1>3 DEF PlacesInv, Goroutines
<1>5. TypeOK'
  BY <1>1, <1>2, <1>3 DEF Types, TypeOK, FilesTyped, Writing
<1> QED BY <1>4, <1>5 DEF Types

LEMMA InitTypes == Init => Types
<1> SUFFICES ASSUME Init PROVE Types
  OBVIOUS
<1>1. /\ pc \in [Nodes -> [Goroutines -> Places]] /\ hand \in [Nodes -> [Goroutines -> Pairs \cup {None}]]
      /\ \A n \in Nodes, a \in Goroutines : pc[n][a] = "off" /\ hand[n][a] = None
  BY DEF Init, Places
<1>2. failures \in 0..MaxFailures /\ crashes \in 0..MaxCrashes /\ registered \in Nat
  BY CertBounds DEF Init
<1>3. PlacesInv
  BY <1>1 DEF PlacesInv, Goroutines
<1>4. TypeOK
  BY <1>1, <1>2 DEF Init, TypeOK, Writing
<1> QED BY <1>3, <1>4 DEF Types

\* A file that has been left half-written is noted as such and no more.
LEMMA LeftBehindType == \A place : LeftBehind(place) \subseteq {"account", "pair"}
  BY DEF LeftBehind

LEMMA DieLost ==
    ASSUME Types, Die
    PROVE  lost' \subseteq {"account", "pair"}
  BY DEF Die, Types, TypeOK

LEMMA CallTypes ==
    ASSUME Types, NEW n \in members, StartNode(n) \/ ReloadNode(n) \/ Renewal(n) \/ CheckFiles(n) \/ ReadCert(n)
    PROVE  Types'
<1>1. UNCHANGED <<config, files, up, history>> /\ FilesTyped'
  <2>1. UNCHANGED <<config, files, up, history>>
    BY DEF StartNode, ReloadNode, Renewal, CheckFiles, ReadCert
  <2> QED BY <2>1 DEF config, files, history, Types, TypeOK, FilesTyped
<1>2. n \in Nodes
  BY DEF Types, TypeOK
<1>3. CASE StartNode(n) \/ ReloadNode(n)
  <2>1. Goto(n, "main", "check") /\ hand' = hand /\ pc[n]["main"] \in {"off", "idle", "failed"}
    BY <1>3 DEF StartNode, ReloadNode
  <2> QED BY <1>1, <2>1, WalkTypes DEF Goroutines, Places, Writing
<1>4. CASE Renewal(n) \/ ReadCert(n)
  <2>1. PICK place \in {"account", "obtain", "idle"} : Goto(n, "renew", place) /\ hand' = hand
    BY <1>4 DEF Renewal, ReadCert
  <2>2. n \in up /\ mode = "acme" /\ pc[n]["renew"] \in {"idle", "read"}
    BY <1>2, <1>4 DEF Renewal, ReadCert, Types, PlacesInv
  <2> QED BY <1>1, <2>1, <2>2, WalkTypes DEF Goroutines, Places, Writing
<1>5. CASE CheckFiles(n)
  <2>1. pc[n]["main"] = "check"
    BY <1>5 DEF CheckFiles
  <2>2. \/ \E place \in {"load", "account"} : Goto(n, "main", place) /\ hand' = hand
        \/ Goto(n, "main", "openCert") /\ Take(n, "main")
    BY <1>5 DEF CheckFiles
  <2> QED BY <1>1, <2>1, <2>2, WalkTypes DEF Goroutines, Places, Writing
<1> QED BY <1>3, <1>4, <1>5

LEMMA AddNodeTypes ==
    ASSUME Types, NEW n \in members, AddNode(n)
    PROVE  Types'
<1>1. n \in Nodes /\ pc[n]["main"] = "load" /\ UNCHANGED config
  BY DEF Types, TypeOK, AddNode
<1>2. FilesTyped'
  <2>2. lost' \subseteq {"account", "pair"}
    BY DieLost DEF AddNode, Types, TypeOK
  <2> QED BY <2>2 DEF AddNode, files, config, Types, TypeOK, FilesTyped
<1>3. CASE ~Accepted
  BY <1>1, <1>2, <1>3, DieTypes DEF AddNode
<1>4. CASE Accepted
  <2> DEFINE renewal == IF n \notin up /\ mode = "acme" THEN "idle" ELSE pc[n]["renew"]
  <2>1. /\ up' = up \cup {n} /\ hand' = hand
        /\ pc' = [pc EXCEPT ![n] = [main |-> "idle", renew |-> renewal]]
    BY <1>4 DEF AddNode
  <2>2. renewal \in Places
    BY <1>1 DEF Types, TypeOK, Goroutines, Places
  <2>3. [main |-> "idle", renew |-> renewal] \in [Goroutines -> Places]
    BY <2>2 DEF Goroutines, Places
  <2>4. pc' \in [Nodes -> [Goroutines -> Places]]
    BY <2>1, <2>3 DEF Types, TypeOK
  <2>5. /\ pc'[n]["main"] = "idle" /\ pc'[n]["renew"] = renewal
        /\ \A m \in Nodes, b \in Goroutines : m # n => pc'[m][b] = pc[m][b]
    BY <1>1, <2>1 DEF Types, TypeOK
  <2>7. renewal \in Writing <=> pc[n]["renew"] \in Writing
    BY <1>1 DEF Types, PlacesInv, Writing
  <2>6. \A m \in Nodes, b \in Goroutines : IF pc'[m][b] \in Writing THEN hand'[m][b] \in Pairs ELSE hand'[m][b] = None
    <3> SUFFICES ASSUME NEW m \in Nodes, NEW b \in Goroutines
                 PROVE  IF pc'[m][b] \in Writing THEN hand[m][b] \in Pairs ELSE hand[m][b] = None
      BY <2>1
    <3>1. IF pc[m][b] \in Writing THEN hand[m][b] \in Pairs ELSE hand[m][b] = None
      BY DEF Types, TypeOK
    <3>2. pc'[m][b] \in Writing <=> pc[m][b] \in Writing
      <4>1. CASE m # n
        BY <2>5, <4>1
      <4>2. CASE m = n /\ b = "main"
        BY <1>1, <2>5, <4>2 DEF Writing
      <4>3. CASE m = n /\ b = "renew"
        BY <2>5, <2>7, <4>3
      <4> QED BY <4>1, <4>2, <4>3 DEF Goroutines
    <3> QED BY <3>1, <3>2
  <2>8. PlacesInv'
    BY <1>1, <2>1, <2>5 DEF Types, PlacesInv, Goroutines, config
  <2>9. TypeOK'
    BY <1>1, <1>2, <2>1, <2>4, <2>6 DEF Types, TypeOK, FilesTyped, config
  <2> QED BY <2>8, <2>9 DEF Types
<1> QED BY <1>3, <1>4

LEMMA IssueTypes ==
    ASSUME Types, NEW n \in members, NEW a \in Goroutines, Issue(n, a)
    PROVE  Types'
<1>1. n \in Nodes /\ UNCHANGED <<config, up>> /\ failures' = failures /\ crashes' = crashes /\ lost' = lost
  BY DEF Types, TypeOK, Issue, LoadAccount, Register, OpenAccount, SaveAccount, Obtain, OpenCert, WriteCert,
         OpenKey, WriteKey, history
<1>2. mode' = mode /\ (a = "renew" => n \in up /\ mode = "acme")
  <2>1. pc[n][a] # "off"
    BY DEF Issue, LoadAccount, Register, OpenAccount, SaveAccount, Obtain, OpenCert, WriteCert, OpenKey, WriteKey
  <2> QED BY <1>1, <2>1 DEF Types, PlacesInv, config
<1>3. CASE LoadAccount(n, a) \/ SaveAccount(n, a)
  <2>1. PICK place \in {"register", "obtain", "read"} : Goto(n, a, place)
    BY <1>3 DEF LoadAccount, SaveAccount, AsRegistered
  <2>2. FilesTyped' /\ hand' = hand /\ pc[n][a] \in {"account", "saveAccount"}
    BY <1>1, <1>2, <1>3 DEF LoadAccount, SaveAccount, files, history, Types, TypeOK, FilesTyped
  <2> QED BY <1>1, <1>2, <2>1, <2>2, WalkTypes DEF Places, Writing
<1>4. CASE Register(n, a)
  <2>1. FilesTyped' /\ hand' = hand /\ pc[n][a] = "register"
    BY <1>1, <1>2, <1>4 DEF Register, files, Types, TypeOK, FilesTyped
  <2>2. Goto(n, a, "openAccount")
    BY <1>4 DEF Register
  <2> QED BY <1>1, <1>2, <2>1, <2>2, WalkTypes DEF Places, Writing
<1>5. CASE OpenAccount(n, a)
  <2>1. FilesTyped' /\ hand' = hand /\ pc[n][a] = "openAccount"
    BY <1>1, <1>2, <1>5 DEF OpenAccount, history, Types, TypeOK, FilesTyped
  <2>2. Goto(n, a, "saveAccount")
    BY <1>5 DEF OpenAccount
  <2> QED BY <1>1, <1>2, <2>1, <2>2, WalkTypes DEF Places, Writing
<1>6. CASE Obtain(n, a)
  <2>1. FilesTyped' /\ Goto(n, a, "openCert") /\ Take(n, a)
    BY <1>1, <1>2, <1>6 DEF Obtain, files, history, Types, TypeOK, FilesTyped
  <2> QED BY <1>1, <1>2, <2>1, WalkTypes DEF Places, Writing
<1>7. CASE OpenCert(n, a)
  <2>1. cert' \in {cert, Torn} /\ Goto(n, a, "writeCert") /\ pc[n][a] = "openCert" /\ hand' = hand
        /\ old' = FALSE /\ UNCHANGED <<key, account, registered>>
    BY <1>7 DEF OpenCert, Opened
  <2>2. FilesTyped'
    BY <1>1, <1>2, <2>1 DEF Types, TypeOK, FilesTyped
  <2> QED BY <1>1, <1>2, <2>1, <2>2, WalkTypes DEF Places, Writing
<1>8. CASE WriteCert(n, a)
  <2>1. cert' \in {cert, hand[n][a]} /\ Goto(n, a, "openKey") /\ pc[n][a] = "writeCert" /\ hand' = hand
        /\ old' = FALSE /\ UNCHANGED <<key, account, registered>>
    BY <1>8 DEF WriteCert
  <2>2. hand[n][a] \in Pairs
    BY <1>1, <2>1 DEF Types, TypeOK, Writing
  <2>3. FilesTyped'
    BY <1>1, <1>2, <2>1, <2>2 DEF Types, TypeOK, FilesTyped
  <2> QED BY <1>1, <1>2, <2>1, <2>3, WalkTypes DEF Places, Writing
<1>9. CASE OpenKey(n, a)
  <2>1. key' \in {key, Torn} /\ Goto(n, a, "writeKey") /\ pc[n][a] = "openKey" /\ hand' = hand
        /\ UNCHANGED <<cert, account, history>>
    BY <1>9 DEF OpenKey, Opened
  <2>2. FilesTyped'
    BY <1>1, <1>2, <2>1 DEF history, Types, TypeOK, FilesTyped
  <2> QED BY <1>1, <1>2, <2>1, <2>2, WalkTypes DEF Places, Writing
<1>10. CASE WriteKey(n, a)
  <2>1. /\ key' \in {key, hand[n][a]} /\ pc[n][a] = "writeKey" /\ hand' = [hand EXCEPT ![n][a] = None]
        /\ \E place \in {"load", "idle"} : Goto(n, a, place)
        /\ UNCHANGED <<cert, account, history>>
    BY <1>10 DEF WriteKey
  <2>2. hand[n][a] \in Pairs
    BY <1>1, <2>1 DEF Types, TypeOK, Writing
  <2>3. FilesTyped'
    BY <1>1, <1>2, <2>1, <2>2 DEF history, Types, TypeOK, FilesTyped
  <2> QED BY <1>1, <1>2, <2>1, <2>3, WalkTypes DEF Places, Writing
<1> QED BY <1>3, <1>4, <1>5, <1>6, <1>7, <1>8, <1>9, <1>10 DEF Issue

\* What a failure leaves: the process ends, or the goroutine gives up.
LEMMA FailsIs ==
    ASSUME Types, NEW n \in members, NEW a \in Goroutines, Fails(n, a)
    PROVE  /\ n \in Nodes /\ pc[n][a] \notin {"off", "idle", "check", "read", "load", "failed"}
           /\ UNCHANGED <<config, files, old, registered, crashes>>
           /\ failures' \in 0..MaxFailures
           /\ \/ failures' = failures /\ pc[n][a] = "account" /\ account = Torn
              \/ failures' = failures + 1
           /\ \/ a = "main" /\ n \notin up /\ Die
              \/ /\ a = "main" => n \in up
                 /\ Goto(n, a, IF a = "main" THEN "failed" ELSE "idle")
                 /\ hand' = [hand EXCEPT ![n][a] = None] /\ up' = up
                 /\ lost' = lost \cup LeftBehind(pc[n][a])
<1>1. n \in Nodes /\ failures \in 0..MaxFailures
  BY DEF Types, TypeOK
<1>2. failures < MaxFailures => failures + 1 \in 0..MaxFailures
  BY <1>1, CertBounds
<1> QED BY <1>1, <1>2 DEF Fails, GiveUp

LEMMA FailsTypes ==
    ASSUME Types, NEW n \in members, NEW a \in Goroutines, Fails(n, a)
    PROVE  Types'
<1>1. lost' \subseteq {"account", "pair"}
  BY FailsIs, DieLost, LeftBehindType DEF Types, TypeOK
<1>2. FilesTyped'
  BY <1>1, FailsIs DEF files, config, Types, TypeOK, FilesTyped
<1>3. UNCHANGED config
  BY FailsIs
<1>4. CASE Die
  BY <1>2, <1>3, <1>4, DieTypes
<1>5. CASE ~Die
  <2>1. PICK place \in {"failed", "idle"} : Goto(n, a, place)
    BY <1>5, FailsIs
  <2>2. hand' = [hand EXCEPT ![n][a] = None] /\ up' = up
    BY <1>5, FailsIs
  <2>3. a = "renew" => n \in up /\ mode = "acme"
    BY FailsIs DEF Types, PlacesInv
  <2> QED BY <1>2, <1>3, <2>1, <2>2, <2>3, WalkTypes DEF Places, Writing
<1> QED BY <1>4, <1>5

LEMMA CrashTypes ==
    ASSUME Types, Crash
    PROVE  Types'
<1>1. lost' \subseteq {"account", "pair"}
  BY DieLost DEF Crash
<1>2. crashes' \in 0..MaxCrashes
  BY CertBounds DEF Crash, Types, TypeOK
<1>3. FilesTyped'
  BY <1>1, <1>2 DEF Crash, config, files, Types, TypeOK, FilesTyped
<1> QED BY <1>3, DieTypes DEF Crash

LEMMA AgeTypes == ASSUME Types, Age PROVE Types'
  BY DEF Age, config, files, Types, TypeOK, PlacesInv

LEMMA StutterTypes == ASSUME Types, UNCHANGED vars PROVE Types'
  BY DEF vars, config, files, history, Types, TypeOK, PlacesInv

LEMMA TypesInductive ==
    ASSUME Types, [Next]_vars
    PROVE  Types'
<1>1. ASSUME NEW n \in members, Main(n) PROVE Types'
  BY <1>1, CallTypes, AddNodeTypes, IssueTypes DEF Main, Goroutines
<1>2. ASSUME NEW n \in members, Renew(n) PROVE Types'
  BY <1>2, CallTypes, IssueTypes DEF Renew, Goroutines
<1>3. ASSUME NEW n \in members, ReloadNode(n) \/ \E a \in Goroutines : Fails(n, a) PROVE Types'
  BY <1>3, CallTypes, FailsTypes
<1> QED BY <1>1, <1>2, <1>3, CrashTypes, AgeTypes, StutterTypes DEF Next

\* The state of any number of nodes and their files stays within its types.
THEOREM TypeCorrect == Spec => []TypeOK
<1>1. Types => TypeOK
  BY DEF Types
<1> QED BY <1>1, InitTypes, TypesInductive, PTL DEF Spec

-----------------------------------------------------------------------------
\* The account: while there is no file of it, no node has been started, and one
\* goroutine at most is on its way to register; afterwards there always is one.

Early == {"off", "check", "account", "register", "openAccount"}
AccountPlaces == {"account", "register", "openAccount", "saveAccount"}

Unregistered ==
    mode = "acme" /\ account = None =>
        /\ up = {} /\ cert = None /\ key = None
        /\ \A n \in Nodes : pc[n]["main"] \in Early
        /\ \A n, m \in Nodes : pc[n]["main"] # "off" /\ pc[m]["main"] # "off" => n = m
        /\ registered <= failures + crashes + (IF \E n \in Nodes : pc[n]["main"] = "openAccount" THEN 1 ELSE 0)

AccountInv ==
    /\ mode = "self" => /\ account = None /\ registered = 0
                        /\ \A n \in Nodes : pc[n]["main"] \notin AccountPlaces
    /\ Unregistered
    /\ account # None => \A n \in Nodes, a \in Goroutines : pc[n][a] \notin {"register", "openAccount"}
    /\ account = Torn => "account" \in lost \/ \E n \in members, a \in Goroutines : pc[n][a] = "saveAccount"
    /\ registered <= 1 + failures + crashes

LEMMA AccountNumbers == Types => registered \in Nat /\ failures \in Nat /\ crashes \in Nat
  BY CertBounds DEF Types, TypeOK

\* A goroutine that goes on without touching the account
LEMMA AccountWalk ==
    ASSUME Types, AccountInv, NEW n \in members, NEW a \in Goroutines, NEW place \in Places, Goto(n, a, place),
           UNCHANGED <<config, account, registered, failures, crashes, lost, up>>,
           mode = "acme" /\ account = None =>
               /\ place \in Early \ {"off", "openAccount"} /\ pc[n][a] # "openAccount" /\ a = "main"
               /\ pc[n][a] # "off" \/ \A m \in Nodes : pc[m]["main"] = "off"
               /\ cert' = cert /\ key' = key,
           account # None => place \notin {"register", "openAccount"},
           mode = "self" => place \notin AccountPlaces,
           pc[n][a] # "saveAccount"
    PROVE  AccountInv'
<1>1. n \in Nodes /\ mode' = mode /\ members' = members
  BY DEF Types, TypeOK, config
<1>2. /\ pc'[n][a] = place
      /\ \A m \in Nodes, b \in Goroutines : m # n \/ b # a => pc'[m][b] = pc[m][b]
  BY <1>1, GotoIs DEF Types
<1>3. mode = "self" => \A m \in Nodes : pc'[m]["main"] \notin AccountPlaces
  BY <1>2 DEF AccountInv, Goroutines
<1>4. Unregistered'
  <2> SUFFICES ASSUME mode = "acme", account = None PROVE Unregistered'
    BY <1>1 DEF Unregistered
  <2>1. a = "main" /\ place \in Early \ {"off", "openAccount"} /\ pc[n]["main"] # "openAccount"
    OBVIOUS
  <2>2. \A m \in Nodes : pc'[m]["main"] = IF m = n THEN place ELSE pc[m]["main"]
    BY <1>1, <1>2, <2>1 DEF Goroutines
  <2>3. \A m \in Nodes : m # n => pc[m]["main"] = "off"
    BY <1>1 DEF AccountInv, Unregistered
  <2>4. \A m \in Nodes : pc'[m]["main"] \in Early /\ (pc'[m]["main"] # "off" => m = n)
    BY <2>1, <2>2, <2>3 DEF Early
  <2>5. \A m \in Nodes : pc[m]["main"] # "openAccount" /\ pc'[m]["main"] # "openAccount"
    BY <2>1, <2>2, <2>3
  <2> QED BY <1>1, <2>4, <2>5 DEF AccountInv, Unregistered
<1>5. account # None => \A m \in Nodes, b \in Goroutines : pc'[m][b] \notin {"register", "openAccount"}
  BY <1>2 DEF AccountInv
<1>6. \A m \in members, b \in Goroutines : pc[m][b] = "saveAccount" => pc'[m][b] = "saveAccount"
  BY <1>2 DEF Types, TypeOK
<1> QED BY <1>1, <1>3, <1>4, <1>5, <1>6 DEF AccountInv

LEMMA AccountDies ==
    ASSUME Types, AccountInv, Die, UNCHANGED <<config, files, registered>>,
           failures' \in Nat, crashes' \in Nat, failures + crashes <= failures' + crashes',
           mode = "acme" /\ account = None /\ (\E n \in Nodes : pc[n]["main"] = "openAccount") =>
               failures + crashes < failures' + crashes'
    PROVE  AccountInv'
<1>1. /\ \A n \in Nodes, a \in Goroutines : pc'[n][a] = "off"
      /\ up' = {} /\ UNCHANGED <<mode, members, cert, key, account, registered>>
  BY DEF Die, config, files
<1>2. registered \in Nat /\ failures + crashes \in Nat
  BY AccountNumbers
<1>3. \A n \in Nodes : pc'[n]["main"] = "off"
  BY <1>1 DEF Goroutines
<1>4. Unregistered'
  <2> SUFFICES ASSUME mode = "acme", account = None PROVE Unregistered'
    BY <1>1 DEF Unregistered
  <2>1. registered <= failures' + crashes'
    <3>1. CASE \E n \in Nodes : pc[n]["main"] = "openAccount"
      <4>1. registered <= failures + crashes + 1
        BY <3>1 DEF AccountInv, Unregistered
      <4> QED BY <3>1, <4>1, AccountNumbers
    <3>2. CASE ~\E n \in Nodes : pc[n]["main"] = "openAccount"
      <4>1. registered <= failures + crashes + 0
        BY <3>2 DEF AccountInv, Unregistered
      <4> QED BY <4>1, AccountNumbers
    <3> QED BY <3>1, <3>2
  <2>2. \A n \in Nodes : pc'[n]["main"] \in Early /\ pc'[n]["main"] # "openAccount"
    BY <1>3 DEF Early
  <2>3. failures' + crashes' + 0 = failures' + crashes'
    OBVIOUS
  <2> QED BY <1>1, <1>3, <2>1, <2>2, <2>3 DEF AccountInv, Unregistered
<1>5. account = Torn => "account" \in lost'
  <2>1. \A n \in Nodes, a \in Goroutines : pc[n][a] = "saveAccount" => "account" \in LeftBehind(pc[n][a])
    BY DEF LeftBehind
  <2>2. lost' = lost \cup {f \in {"account", "pair"} : \E n \in Nodes, a \in Goroutines : f \in LeftBehind(pc[n][a])}
    BY DEF Die
  <2> QED BY <2>1, <2>2 DEF AccountInv, Types, TypeOK
<1>6. registered <= 1 + failures' + crashes'
  <2>1. registered <= 1 + failures + crashes
    BY DEF AccountInv
  <2> QED BY <2>1, AccountNumbers
<1>7. mode = "self" => account = None /\ registered = 0
  BY DEF AccountInv
<1> QED BY <1>1, <1>3, <1>4, <1>5, <1>6, <1>7 DEF AccountInv, AccountPlaces

\* The steps that only walk, by where they come from and go to
LEMMA WalkersKeepAccount ==
    ASSUME Types, AccountInv, NEW n \in members,
           \/ StartNode(n) \/ ReloadNode(n) \/ Renewal(n) \/ CheckFiles(n) \/ ReadCert(n)
    PROVE  AccountInv'
<1>1. n \in Nodes /\ UNCHANGED <<config, cert, key, account, registered, failures, crashes, lost, up>>
  <2>1. UNCHANGED <<config, files, history, up>>
    BY DEF StartNode, ReloadNode, Renewal, CheckFiles, ReadCert
  <2> QED BY <2>1 DEF files, history, Types, TypeOK
<1>2. mode = "acme" /\ account = None => pc[n]["renew"] = "off" /\ pc[n]["main"] \in Early /\ cert = None
  BY <1>1 DEF AccountInv, Unregistered, Types, PlacesInv
<1>3. mode = "self" => pc[n]["renew"] = "off"
  BY <1>1 DEF Types, PlacesInv
<1>4. CASE StartNode(n)
  <2>1. Goto(n, "main", "check") /\ pc[n]["main"] = "off" /\ \A m \in members : m \in up \/ pc[m]["main"] = "off"
    BY <1>4 DEF StartNode
  <2>2. mode = "acme" /\ account = None => \A m \in Nodes : pc[m]["main"] = "off"
    BY <2>1 DEF AccountInv, Unregistered, Types, PlacesInv, Goroutines
  <2> QED BY <1>1, <2>1, <2>2, AccountWalk DEF Goroutines, Places, Early, AccountPlaces
<1>5. CASE ReloadNode(n)
  <2>1. Goto(n, "main", "check") /\ pc[n]["main"] \in {"idle", "failed"}
    BY <1>5 DEF ReloadNode
  <2>2. ~(mode = "acme" /\ account = None)
    BY <1>2, <2>1 DEF Early
  <2> QED BY <1>1, <2>1, <2>2, AccountWalk DEF Goroutines, Places, AccountPlaces
<1>6. CASE Renewal(n) \/ ReadCert(n)
  <2>1. PICK place \in {"account", "obtain", "idle"} : Goto(n, "renew", place)
    BY <1>6 DEF Renewal, ReadCert
  <2>2. pc[n]["renew"] \in {"idle", "read"}
    BY <1>6 DEF Renewal, ReadCert
  <2>3. ~(mode = "acme" /\ account = None) /\ mode # "self"
    BY <1>2, <1>3, <2>2
  <2> QED BY <1>1, <2>1, <2>2, <2>3, AccountWalk DEF Goroutines, Places
<1>7. CASE CheckFiles(n)
  <2>1. pc[n]["main"] = "check"
    BY <1>7 DEF CheckFiles
  <2>2. PICK place \in {"load", "account", "openCert"} :
            /\ Goto(n, "main", place)
            /\ place = "load" => Exists(cert)
            /\ place = "account" => mode = "acme"
            /\ place = "openCert" => mode = "self"
    BY <1>7 DEF CheckFiles
  <2>3. mode = "acme" /\ account = None => place = "account"
    BY <1>2, <2>2 DEF Exists
  <2>4. mode = "self" => place # "account"
    BY <2>2
  <2> QED BY <1>1, <2>1, <2>2, <2>3, <2>4, AccountWalk DEF Goroutines, Places, Early, AccountPlaces
<1> QED BY <1>4, <1>5, <1>6, <1>7

LEMMA WritersKeepAccount ==
    ASSUME Types, AccountInv, NEW n \in members, NEW a \in Goroutines,
           \/ Obtain(n, a) \/ OpenCert(n, a) \/ WriteCert(n, a) \/ OpenKey(n, a) \/ WriteKey(n, a)
    PROVE  AccountInv'
<1>1. n \in Nodes /\ UNCHANGED <<config, account, registered, failures, crashes, lost, up>>
  BY DEF Obtain, OpenCert, WriteCert, OpenKey, WriteKey, files, history, Types, TypeOK
<1>2. pc[n][a] \in {"obtain"} \cup Writing
  BY DEF Obtain, OpenCert, WriteCert, OpenKey, WriteKey, Writing
<1>3. ~(mode = "acme" /\ account = None)
  BY <1>1, <1>2 DEF AccountInv, Unregistered, Types, PlacesInv, Goroutines, Early, Writing
<1>4. \E place \in {"load", "idle"} \cup Writing : Goto(n, a, place)
  BY DEF Obtain, OpenCert, WriteCert, OpenKey, WriteKey, Writing
<1> QED BY <1>1, <1>2, <1>3, <1>4, AccountWalk DEF Places, AccountPlaces, Writing

LEMMA LoadKeepsAccount ==
    ASSUME Types, AccountInv, NEW n \in members, NEW a \in Goroutines, LoadAccount(n, a)
    PROVE  AccountInv'
<1>1. n \in Nodes /\ pc[n][a] = "account" /\ UNCHANGED <<config, cert, key, account, registered, failures, crashes, lost, up>>
  BY DEF LoadAccount, files, history, Types, TypeOK
<1>2. mode = "acme"
  BY <1>1 DEF AccountInv, Types, PlacesInv, TypeOK, Goroutines, AccountPlaces
<1>3. CASE account = None
  <2>1. Goto(n, a, "register") /\ a = "main"
    BY <1>1, <1>2, <1>3, CertNames DEF LoadAccount, AccountInv, Unregistered, Types, PlacesInv, Goroutines
  <2>2. "register" \in Early \ {"off", "openAccount"} /\ "register" \in Places
    BY DEF Places, Early
  <2>3. mode # "self" /\ cert' = cert /\ key' = key
    BY <1>1, <1>2
  <2> QED BY <1>1, <1>3, <2>1, <2>2, <2>3, AccountWalk
<1>4. CASE account # None
  <2>1. \E place \in {"obtain", "read"} : Goto(n, a, place)
    BY <1>4 DEF LoadAccount, AsRegistered
  <2> QED BY <1>1, <1>2, <1>4, <2>1, AccountWalk DEF Places
<1> QED BY <1>3, <1>4

\* Only one registers, at its first start.
LEMMA AloneToRegister ==
    ASSUME Types, AccountInv, NEW n \in members, NEW a \in Goroutines, pc[n][a] \in {"register", "openAccount"}
    PROVE  /\ mode = "acme" /\ account = None /\ a = "main" /\ n \in Nodes /\ cert = None /\ key = None
           /\ \A m \in Nodes : m # n => pc[m]["main"] = "off"
           /\ \A m \in Nodes : pc[m]["renew"] = "off"
           /\ up = {}
<1>1. n \in Nodes
  BY DEF Types, TypeOK
<1>2. account = None
  BY <1>1 DEF AccountInv
<1>3. mode = "acme"
  BY <1>1 DEF AccountInv, Types, PlacesInv, TypeOK, Goroutines, AccountPlaces
<1>4. up = {} /\ \A m \in Nodes : pc[m]["renew"] = "off"
  BY <1>2, <1>3 DEF AccountInv, Unregistered, Types, PlacesInv
<1>5. a = "main"
  BY <1>1, <1>4 DEF Goroutines
<1> QED BY <1>1, <1>2, <1>3, <1>4, <1>5 DEF AccountInv, Unregistered

LEMMA RegisterKeepsAccount ==
    ASSUME Types, AccountInv, NEW n \in members, NEW a \in Goroutines, Register(n, a)
    PROVE  AccountInv'
<1>1. /\ mode = "acme" /\ account = None /\ a = "main" /\ n \in Nodes /\ cert = None /\ key = None
      /\ \A m \in Nodes : m # n => pc[m]["main"] = "off"
      /\ \A m \in Nodes : pc[m]["renew"] = "off"
      /\ up = {} /\ pc[n]["main"] = "register"
  BY AloneToRegister DEF Register
<1>2. /\ Goto(n, "main", "openAccount") /\ registered' = registered + 1
      /\ UNCHANGED <<mode, members, cert, key, account, up, failures, crashes, lost>>
  BY <1>1 DEF Register, config, files
<1>3. \A m \in Nodes : pc'[m]["main"] = IF m = n THEN "openAccount" ELSE "off"
  BY <1>1, <1>2, GotoIs DEF Types, Goroutines, Places
<1>4. ~\E m \in Nodes : pc[m]["main"] = "openAccount"
  BY <1>1
<1>5. registered <= failures + crashes + 0
  BY <1>1, <1>4 DEF AccountInv, Unregistered
<1>6. registered' <= failures' + crashes' + 1 /\ registered' <= 1 + failures' + crashes'
  BY <1>2, <1>5, AccountNumbers
<1>7. Unregistered'
  BY <1>1, <1>2, <1>3, <1>6 DEF Unregistered, Early
<1> QED BY <1>1, <1>2, <1>6, <1>7, CertNames DEF AccountInv

LEMMA OpenKeepsAccount ==
    ASSUME Types, AccountInv, NEW n \in members, NEW a \in Goroutines, OpenAccount(n, a)
    PROVE  AccountInv'
<1>1. /\ mode = "acme" /\ a = "main" /\ n \in Nodes
      /\ \A m \in Nodes : m # n => pc[m]["main"] = "off"
      /\ \A m \in Nodes : pc[m]["renew"] = "off"
  BY AloneToRegister DEF OpenAccount
<1>2. /\ Goto(n, "main", "saveAccount") /\ account' = Torn
      /\ UNCHANGED <<mode, members, registered, failures, crashes, lost>>
  BY <1>1 DEF OpenAccount, config, history
<1>3. /\ \A m \in Nodes, b \in Goroutines : pc'[m][b] \in {"off", "saveAccount"}
      /\ pc'[n]["main"] = "saveAccount"
  BY <1>1, <1>2, GotoIs DEF Types, Goroutines, Places
<1> QED BY <1>1, <1>2, <1>3, CertNames DEF AccountInv, Unregistered, Goroutines

LEMMA SaveKeepsAccount ==
    ASSUME Types, AccountInv, NEW n \in members, NEW a \in Goroutines, SaveAccount(n, a)
    PROVE  AccountInv'
<1>1. n \in Nodes /\ pc[n][a] = "saveAccount"
  BY DEF SaveAccount, Types, TypeOK
<1>2. mode = "acme"
  BY <1>1 DEF AccountInv, Types, PlacesInv, TypeOK, Goroutines, AccountPlaces
<1>3. account # None
  BY <1>1, <1>2 DEF AccountInv, Unregistered, Types, PlacesInv, Goroutines, Early
<1>4. PICK place \in {"obtain", "read"} : Goto(n, a, place)
  BY DEF SaveAccount, AsRegistered
<1>5. account' = "saved" /\ UNCHANGED <<mode, members, registered, failures, crashes, lost>>
  BY DEF SaveAccount, config, history
<1>6. \A m \in Nodes, b \in Goroutines : pc'[m][b] \notin {"register", "openAccount"}
  BY <1>1, <1>3, <1>4, GotoIs DEF AccountInv, Types, Places
<1>7. account' # None /\ account' # Torn
  BY <1>5, CertNames
<1> QED BY <1>2, <1>5, <1>6, <1>7 DEF AccountInv, Unregistered

LEMMA AddNodeKeepsAccount ==
    ASSUME Types, AccountInv, NEW n \in members, AddNode(n)
    PROVE  AccountInv'
<1>1. /\ n \in Nodes /\ pc[n]["main"] = "load"
      /\ UNCHANGED <<config, files, registered, failures, crashes>>
  BY DEF AddNode, Types, TypeOK
<1>2. ~(mode = "acme" /\ account = None)
  BY <1>1 DEF AccountInv, Unregistered, Early
<1>3. CASE ~Accepted
  BY <1>1, <1>2, <1>3, AccountDies, AccountNumbers DEF AddNode
<1>4. CASE Accepted
  <2>1. /\ lost' = lost /\ UNCHANGED <<mode, members, account>>
        /\ pc' = [pc EXCEPT ![n] = [main |-> "idle",
                    renew |-> IF n \notin up /\ mode = "acme" THEN "idle" ELSE pc[n]["renew"]]]
    BY <1>1, <1>4 DEF AddNode, config, files
  <2>2. \A m \in Nodes, b \in Goroutines : pc'[m][b] \in {"idle", pc[m][b]}
    BY <1>1, <2>1 DEF Types, TypeOK, Goroutines
  <2>3. \A m \in Nodes, b \in Goroutines : pc[m][b] = "saveAccount" => pc'[m][b] = "saveAccount"
    <3> SUFFICES ASSUME NEW m \in Nodes, NEW b \in Goroutines, pc[m][b] = "saveAccount"
                 PROVE  pc'[m][b] = "saveAccount"
      OBVIOUS
    <3>1. m # n \/ b = "renew"
      BY <1>1 DEF Goroutines
    <3>2. pc[m]["renew"] = "saveAccount" => m \in up
      BY DEF Types, PlacesInv
    <3> QED BY <1>1, <2>1, <3>1, <3>2 DEF Types, TypeOK, Goroutines
  <2>4. Unregistered'
    BY <1>2, <2>1 DEF Unregistered
  <2>5. members \subseteq Nodes /\ AccountPlaces \cap {"idle"} = {} /\ "main" \in Goroutines
    BY DEF Types, TypeOK, AccountPlaces, Goroutines
  <2>6. mode = "self" => \A m \in Nodes : pc'[m]["main"] \notin AccountPlaces
    BY <2>2, <2>5 DEF AccountInv
  <2>7. account # None => \A m \in Nodes, b \in Goroutines : pc'[m][b] \notin {"register", "openAccount"}
    BY <2>2 DEF AccountInv
  <2>8. account = Torn => "account" \in lost \/ \E m \in members, b \in Goroutines : pc'[m][b] = "saveAccount"
    BY <2>3, <2>5 DEF AccountInv
  <2> QED BY <1>1, <2>1, <2>4, <2>6, <2>7, <2>8 DEF AccountInv
<1> QED BY <1>3, <1>4

LEMMA FailsKeepsAccount ==
    ASSUME Types, AccountInv, NEW n \in members, NEW a \in Goroutines, Fails(n, a)
    PROVE  AccountInv'
<1>1. n \in Nodes /\ UNCHANGED <<config, files, registered, crashes>> /\ failures' \in Nat /\ failures <= failures'
  BY FailsIs, AccountNumbers
<1>2. CASE Die
  <2>1. mode = "acme" /\ account = None => failures' = failures + 1
    BY FailsIs, CertNames
  <2> QED BY <1>1, <1>2, <2>1, AccountDies, AccountNumbers
<1>3. CASE ~Die
  <2>1. /\ a = "main" => n \in up
        /\ Goto(n, a, IF a = "main" THEN "failed" ELSE "idle")
        /\ lost' = lost \cup LeftBehind(pc[n][a]) /\ pc[n][a] # "off"
    BY <1>3, FailsIs
  <2>2. ~(mode = "acme" /\ account = None)
    BY <1>1, <2>1 DEF AccountInv, Unregistered, Types, PlacesInv, Goroutines
  <2>3. UNCHANGED <<mode, members, account>>
    BY <1>1 DEF config, files
  <2>4. \A m \in Nodes, b \in Goroutines :
            IF m = n /\ b = a THEN pc'[m][b] \in {"failed", "idle"} ELSE pc'[m][b] = pc[m][b]
    BY <1>1, <2>1, GotoIs DEF Types, Places
  <2>5. members \subseteq Nodes /\ AccountPlaces \cap {"idle", "failed"} = {} /\ "main" \in Goroutines
    BY DEF Types, TypeOK, AccountPlaces, Goroutines
  <2>6. Unregistered'
    BY <2>2, <2>3 DEF Unregistered
  <2>7. mode = "self" => \A m \in Nodes : pc'[m]["main"] \notin AccountPlaces
    BY <2>4, <2>5 DEF AccountInv
  <2>8. account # None => \A m \in Nodes, b \in Goroutines : pc'[m][b] \notin {"register", "openAccount"}
    BY <2>4 DEF AccountInv
  <2>9. account = Torn => "account" \in lost' \/ \E m \in members, b \in Goroutines : pc'[m][b] = "saveAccount"
    <3>1. pc[n][a] = "saveAccount" => "account" \in lost'
      BY <2>1 DEF LeftBehind
    <3> QED BY <2>1, <2>4, <2>5, <3>1 DEF AccountInv
  <2>10. registered <= 1 + failures' + crashes
    BY <1>1, AccountNumbers DEF AccountInv
  <2> QED BY <1>1, <2>3, <2>6, <2>7, <2>8, <2>9, <2>10 DEF AccountInv
<1> QED BY <1>2, <1>3

LEMMA TimeKeepsAccount ==
    ASSUME Types, AccountInv, Crash \/ Age \/ UNCHANGED vars
    PROVE  AccountInv'
<1>1. CASE Crash
  <2>1. /\ Die /\ crashes' = crashes + 1 /\ failures' = failures
        /\ UNCHANGED <<config, files, registered>>
    BY <1>1 DEF Crash
  <2> QED BY <2>1, AccountDies, AccountNumbers
<1>2. CASE Age \/ UNCHANGED vars
  <2>1. UNCHANGED <<mode, members, cert, key, account, pc, up, registered, failures, crashes, lost>>
    BY <1>2 DEF Age, vars, config, files, history
  <2> QED BY <2>1 DEF AccountInv, Unregistered
<1> QED BY <1>1, <1>2

LEMMA AccountInductive ==
    ASSUME Types, AccountInv, [Next]_vars
    PROVE  AccountInv'
<1>1. ASSUME NEW n \in members, NEW a \in Goroutines, Issue(n, a) PROVE AccountInv'
  BY <1>1, LoadKeepsAccount, RegisterKeepsAccount, OpenKeepsAccount, SaveKeepsAccount, WritersKeepAccount DEF Issue
<1>2. ASSUME NEW n \in members, Main(n) \/ Renew(n) \/ ReloadNode(n) PROVE AccountInv'
  BY <1>1, <1>2, WalkersKeepAccount, AddNodeKeepsAccount DEF Main, Renew, Goroutines
<1> QED BY <1>2, FailsKeepsAccount, TimeKeepsAccount DEF Next

LEMMA InitAccount == Init => AccountInv
<1> SUFFICES ASSUME Init PROVE AccountInv
  OBVIOUS
<1>1. \A n \in Nodes, a \in Goroutines : pc[n][a] = "off"
  BY DEF Init
<1>2. Unregistered
  BY <1>1 DEF Init, Unregistered, Early, Goroutines
<1> QED BY <1>1, <1>2, CertNames DEF Init, AccountInv, AccountPlaces, Goroutines

-----------------------------------------------------------------------------
\* The pair of a node with files of its own

Own(n) == Named /\ members = {n} /\ "pair" \notin lost

\* Before the node is started, a key on file belongs to the certificate, and
\* one is written only if there was none.
DownPair(n) ==
    /\ pc[n]["main"] \notin {"idle", "failed", "read"}
    /\ pc[n]["main"] \in {"off", "check"} => Match \/ key = None
    /\ pc[n]["main"] \in AccountPlaces \cup {"obtain", "openCert", "writeCert", "openKey"} => key = None
    /\ pc[n]["main"] \in {"openKey", "writeKey"} => cert = hand[n]["main"]
    /\ pc[n]["main"] = "load" => Match

\* Afterwards both files are there, so that reloads ask for nothing, and the
\* renewal is the only one that writes.
UpPair(n) ==
    /\ pc[n]["main"] \in {"idle", "check", "load"}
    /\ Exists(cert) /\ Exists(key)
    /\ pc[n]["renew"] \notin {"writeCert", "openKey", "writeKey"} => Match
    /\ pc[n]["renew"] \in {"openKey", "writeKey"} => cert = hand[n]["renew"]

PairAt(n) == IF n \in up THEN UpPair(n) ELSE DownPair(n)
PairInv == \A n \in Nodes : Own(n) => PairAt(n)

LEMMA MatchExists == Match => Exists(cert) /\ Exists(key)
  BY CertNames DEF Match, Exists

\* Only the node's own steps matter, and a pair once lost remains so.
LEMMA OwnKept ==
    ASSUME Types, Types', NEW n \in Nodes, Own(n)', UNCHANGED config, lost \subseteq lost'
    PROVE  Own(n) /\ members = {n}
  BY DEF Own, Named, config

\* Where the process dies without leaving the pair half-written, it was whole or
\* there was no key.
LEMMA PairDies ==
    ASSUME Types, Types', PairInv, Die, UNCHANGED <<config, files>>
    PROVE  PairInv'
<1> SUFFICES ASSUME NEW n \in Nodes, Own(n)' PROVE PairAt(n)'
  BY DEF PairInv
<1>1. /\ \A m \in Nodes, a \in Goroutines : pc'[m][a] = "off"
      /\ up' = {} /\ cert' = cert /\ key' = key
      /\ lost' = lost \cup {f \in {"account", "pair"} : \E m \in Nodes, a \in Goroutines : f \in LeftBehind(pc[m][a])}
  BY DEF Die, files
<1>2. PairAt(n)
  BY <1>1, OwnKept DEF PairInv
<1>3. \A a \in Goroutines : "pair" \notin LeftBehind(pc[n][a])
  BY <1>1 DEF Own
<1>4. \A a \in Goroutines : /\ pc[n][a] # "writeKey"
                            /\ pc[n][a] \in {"writeCert", "openKey"} => ~Exists(key)
  BY <1>3 DEF LeftBehind
<1>5. Match \/ key = None
  <2>1. CASE n \in up
    BY <1>2, <1>4, <2>1 DEF PairAt, UpPair, Goroutines
  <2>2. CASE n \notin up
    <3>1. pc[n]["main"] \in Places /\ pc[n]["main"] # "writeKey"
      BY <1>4 DEF Types, TypeOK, Goroutines
    <3> QED BY <1>2, <2>2, <3>1 DEF PairAt, DownPair, Places, AccountPlaces
  <2> QED BY <2>1, <2>2
<1>6. Match' \/ key' = None
  BY <1>1, <1>5 DEF Match
<1>7. pc'[n]["main"] = "off" /\ n \notin up'
  BY <1>1 DEF Goroutines
<1> QED BY <1>6, <1>7 DEF PairAt, DownPair, AccountPlaces

LEMMA CallsKeepPair ==
    ASSUME Types, Types', PairInv, NEW n \in members,
           StartNode(n) \/ ReloadNode(n) \/ Renewal(n) \/ CheckFiles(n) \/ ReadCert(n)
    PROVE  PairInv'
<1> SUFFICES ASSUME Own(n)' PROVE PairAt(n)'
  BY DEF PairInv, Own, config, StartNode, ReloadNode, Renewal, CheckFiles, ReadCert
<1>1. UNCHANGED <<config, cert, key, lost, up>> /\ n \in Nodes
  BY DEF StartNode, ReloadNode, Renewal, CheckFiles, ReadCert, files, history, Types, TypeOK
<1>2. PairAt(n) /\ (Match' <=> Match)
  BY <1>1, OwnKept DEF PairInv, Match
<1>3. CASE StartNode(n) \/ ReloadNode(n)
  <2>1. Goto(n, "main", "check") /\ pc[n]["main"] \in {"off", "idle", "failed"} /\ hand' = hand
    BY <1>3 DEF StartNode, ReloadNode
  <2>2. pc'[n]["main"] = "check" /\ pc'[n]["renew"] = pc[n]["renew"]
    BY <1>1, <2>1, GotoIs DEF Types, Goroutines, Places
  <2> QED BY <1>1, <1>2, <2>1, <2>2 DEF PairAt, UpPair, DownPair, AccountPlaces, Exists
<1>4. CASE Renewal(n) \/ ReadCert(n)
  <2>1. /\ pc[n]["renew"] \in {"idle", "read"} /\ hand' = hand
        /\ \E place \in {"account", "obtain", "idle"} : Goto(n, "renew", place)
    BY <1>4 DEF Renewal, ReadCert
  <2>2. pc'[n]["renew"] \in {"account", "obtain", "idle"} /\ pc'[n]["main"] = pc[n]["main"]
    BY <1>1, <2>1, GotoIs DEF Types, Goroutines, Places
  <2>3. n \in up
    BY <1>1, <2>1 DEF Types, PlacesInv
  <2> QED BY <1>1, <1>2, <2>1, <2>2, <2>3 DEF PairAt, UpPair, Exists
<1>5. CASE CheckFiles(n)
  <2>1. pc[n]["main"] = "check"
    BY <1>5 DEF CheckFiles
  <2>2. \/ Goto(n, "main", "load") /\ Exists(cert) /\ Exists(key)
        \/ ~(Exists(cert) /\ Exists(key)) /\ \E place \in {"account", "openCert"} : Goto(n, "main", place)
    BY <1>5 DEF CheckFiles
  <2>3. pc'[n]["renew"] = pc[n]["renew"]
    BY <1>1, <2>2, GotoIs DEF Types, Goroutines, Places
  <2>4. hand'[n]["renew"] = hand[n]["renew"]
    BY <1>1, <1>5, TakeIs DEF CheckFiles, Types, Goroutines
  <2>5. CASE Exists(cert) /\ Exists(key)
    <3>1. pc'[n]["main"] = "load"
      BY <1>1, <2>2, <2>5, GotoIs DEF Types, Goroutines, Places
    <3> QED BY <1>1, <1>2, <2>1, <2>3, <2>4, <2>5, <3>1 DEF PairAt, UpPair, DownPair, AccountPlaces, Exists
  <2>6. CASE ~(Exists(cert) /\ Exists(key))
    <3>1. pc'[n]["main"] \in {"account", "openCert"}
      BY <1>1, <2>2, <2>6, GotoIs DEF Types, Goroutines, Places
    <3>2. n \notin up /\ key = None
      BY <1>2, <2>1, <2>6, MatchExists DEF PairAt, UpPair, DownPair
    <3> QED BY <1>1, <3>1, <3>2 DEF PairAt, DownPair, AccountPlaces
  <2> QED BY <2>5, <2>6
<1> QED BY <1>3, <1>4, <1>5

LEMMA AddNodeKeepsPair ==
    ASSUME Types, Types', PairInv, NEW n \in members, AddNode(n)
    PROVE  PairInv'
<1>1. CASE ~Accepted
  BY <1>1, PairDies DEF AddNode
<1>2. CASE Accepted
  <2> SUFFICES ASSUME Own(n)' PROVE PairAt(n)'
    BY DEF PairInv, Own, config, AddNode
  <2>1. n \in Nodes /\ UNCHANGED <<config, cert, key, lost, hand>> /\ n \in up'
    BY <1>2 DEF AddNode, files, Types, TypeOK
  <2>2. PairAt(n)
    BY <2>1, OwnKept DEF PairInv
  <2>3. pc'[n] = [main |-> "idle", renew |-> IF n \notin up /\ mode = "acme" THEN "idle" ELSE pc[n]["renew"]]
    BY <1>2, <2>1 DEF AddNode, Types, TypeOK
  <2>4. pc'[n]["main"] = "idle" /\ (pc'[n]["renew"] = "idle" \/ pc'[n]["renew"] = pc[n]["renew"])
    BY <2>3
  <2>5. pc'[n]["renew"] \in {"openKey", "writeKey"} => cert' = hand'[n]["renew"]
    <3>1. pc[n]["renew"] \in {"openKey", "writeKey"} => n \in up
      BY <2>1 DEF Types, PlacesInv
    <3> QED BY <2>1, <2>2, <2>4, <3>1 DEF PairAt, UpPair
  <2>6. Exists(cert)' /\ Exists(key)'
    BY <1>2, <2>1, MatchExists DEF Accepted, Exists
  <2>7. pc'[n]["renew"] \notin {"writeCert", "openKey", "writeKey"} => Match'
    <3>1. CASE n \in up
      BY <2>1, <2>2, <2>3, <3>1 DEF PairAt, UpPair, Match
    <3>2. CASE n \notin up
      <4>1. pc[n]["main"] = "load"
        BY DEF AddNode
      <4> QED BY <2>1, <2>2, <3>2, <4>1 DEF PairAt, DownPair, Match
    <3> QED BY <3>1, <3>2
  <2> QED BY <2>1, <2>4, <2>5, <2>6, <2>7 DEF PairAt, UpPair
<1> QED BY <1>1, <1>2

LEMMA AccountKeepsPair ==
    ASSUME Types, Types', PairInv, NEW n \in members, NEW a \in Goroutines,
           LoadAccount(n, a) \/ Register(n, a) \/ OpenAccount(n, a) \/ SaveAccount(n, a) \/ Obtain(n, a)
    PROVE  PairInv'
<1> SUFFICES ASSUME Own(n)' PROVE PairAt(n)'
  BY DEF PairInv, Own, config, LoadAccount, Register, OpenAccount, SaveAccount, Obtain
<1>1. n \in Nodes /\ UNCHANGED <<config, cert, key, lost, up>>
  BY DEF LoadAccount, Register, OpenAccount, SaveAccount, Obtain, files, history, Types, TypeOK
<1>2. PairAt(n) /\ (Match' <=> Match)
  BY <1>1, OwnKept DEF PairInv, Match
<1>3. pc[n][a] \in AccountPlaces \cup {"obtain"}
  BY DEF LoadAccount, Register, OpenAccount, SaveAccount, Obtain, AccountPlaces
<1>4. \E place \in AccountPlaces \cup {"obtain", "read", "openCert"} :
          Goto(n, a, place) /\ (place = "read" => a = "renew")
  <2>1. CASE LoadAccount(n, a) \/ SaveAccount(n, a)
    <3>1. \E place \in {"register", "obtain", "read"} : Goto(n, a, place) /\ (place = "read" => a = "renew")
      BY <2>1 DEF LoadAccount, SaveAccount, AsRegistered, Goroutines
    <3> QED BY <3>1 DEF AccountPlaces
  <2>2. CASE Register(n, a) \/ OpenAccount(n, a) \/ Obtain(n, a)
    <3>1. \E place \in {"openAccount", "saveAccount", "openCert"} : Goto(n, a, place)
      BY <2>2 DEF Register, OpenAccount, Obtain
    <3> QED BY <3>1 DEF AccountPlaces
  <2> QED BY <2>1, <2>2
<1>5. /\ pc'[n][a] \in AccountPlaces \cup {"obtain", "read", "openCert"} /\ (pc'[n][a] = "read" => a = "renew")
      /\ \A b \in Goroutines : b # a => pc'[n][b] = pc[n][b]
  BY <1>1, <1>4, GotoIs DEF Types, Places, AccountPlaces
<1>6. \A b \in Goroutines : b # a => hand'[n][b] = hand[n][b]
  BY <1>1, TakeIs DEF LoadAccount, Register, OpenAccount, SaveAccount, Obtain, Types
<1>7. CASE a = "renew"
  <2>1. n \in up
    BY <1>1, <1>3, <1>7 DEF Types, PlacesInv, AccountPlaces
  <2> QED BY <1>1, <1>2, <1>3, <1>5, <1>7, <2>1 DEF PairAt, UpPair, Goroutines, AccountPlaces, Exists
<1>8. CASE a = "main"
  <2>1. n \notin up /\ key = None
    BY <1>2, <1>3, <1>8 DEF PairAt, UpPair, DownPair, AccountPlaces
  <2> QED BY <1>1, <1>5, <1>8, <2>1 DEF PairAt, DownPair, AccountPlaces
<1> QED BY <1>7, <1>8 DEF Goroutines

\* Each write of the node's first pair, or of the renewal's.
LEMMA WriteKeepsPair ==
    ASSUME Types, Types', PairInv, NEW n \in members, NEW a \in Goroutines,
           OpenCert(n, a) \/ WriteCert(n, a) \/ OpenKey(n, a) \/ WriteKey(n, a)
    PROVE  PairInv'
<1> SUFFICES ASSUME Own(n)' PROVE PairAt(n)'
  BY DEF PairInv, Own, config, OpenCert, WriteCert, OpenKey, WriteKey
<1>1. n \in Nodes /\ UNCHANGED <<config, lost, up>>
  BY DEF OpenCert, WriteCert, OpenKey, WriteKey, history, Types, TypeOK
<1>2. PairAt(n) /\ Named
  BY <1>1, OwnKept DEF PairInv, Own
<1>3. /\ pc[n][a] \in Writing /\ hand[n][a] \in Pairs
      /\ \A b \in Goroutines : b # a => hand'[n][b] = hand[n][b] /\ pc'[n][b] = pc[n][b]
  BY <1>1 DEF OpenCert, WriteCert, OpenKey, WriteKey, Writing, Types, TypeOK, Goto
<1>4. CASE a = "renew"
  <2>1. n \in up /\ mode = "acme" /\ UpPair(n)
    BY <1>1, <1>2, <1>3, <1>4 DEF Types, PlacesInv, Writing, PairAt
  <2>2. pc'[n]["main"] = pc[n]["main"]
    BY <1>3, <1>4 DEF Goroutines
  <2>3. CASE OpenCert(n, a)
    <3>1. pc'[n]["renew"] = "writeCert" /\ Exists(cert)' /\ key' = key
      BY <1>1, <1>2, <1>4, <2>1, <2>3, CertNames, GotoIs DEF OpenCert, Opened, Exists, Types, Places
    <3> QED BY <1>1, <2>1, <2>2, <3>1 DEF PairAt, UpPair, Exists
  <2>4. CASE WriteCert(n, a)
    <3>1. pc'[n]["renew"] = "openKey" /\ cert' = hand'[n]["renew"] /\ key' = key
      BY <1>1, <1>2, <1>4, <2>4, GotoIs DEF WriteCert, Types, Places
    <3>2. Exists(cert)'
      BY <1>2, <1>3, <1>4, <2>4, CertNames DEF WriteCert, Exists
    <3> QED BY <1>1, <2>1, <2>2, <3>1, <3>2 DEF PairAt, UpPair, Exists
  <2>5. CASE OpenKey(n, a)
    <3>1. pc'[n]["renew"] = "writeKey" /\ cert' = cert /\ hand' = hand /\ Exists(key)' /\ pc[n]["renew"] = "openKey"
      BY <1>1, <1>2, <1>4, <2>1, <2>5, CertNames, GotoIs DEF OpenKey, Opened, Exists, Types, Places
    <3> QED BY <1>1, <2>1, <2>2, <3>1 DEF PairAt, UpPair, Exists
  <2>6. CASE WriteKey(n, a)
    <3>1. pc'[n]["renew"] = "idle" /\ cert' = cert /\ key' = hand[n]["renew"] /\ pc[n]["renew"] = "writeKey"
      BY <1>1, <1>2, <1>4, <2>6, GotoIs DEF WriteKey, Types, Places, Goroutines
    <3>2. Match'
      BY <1>3, <1>4, <2>1, <3>1 DEF UpPair, Match
    <3>3. Exists(cert)' /\ Exists(key)'
      BY <1>3, <1>4, <2>1, <3>1, CertNames DEF UpPair, Exists
    <3> QED BY <1>1, <2>1, <2>2, <3>1, <3>2, <3>3 DEF PairAt, UpPair
  <2> QED BY <2>3, <2>4, <2>5, <2>6
<1>5. CASE a = "main"
  <2>1. n \notin up /\ DownPair(n)
    BY <1>2, <1>3, <1>5 DEF PairAt, UpPair, Writing
  <2>2. CASE OpenCert(n, a)
    <3>1. pc[n]["main"] = "openCert" /\ pc'[n]["main"] = "writeCert" /\ key' = key
      BY <1>1, <1>5, <2>2, GotoIs DEF OpenCert, Types, Places
    <3> QED BY <1>1, <2>1, <3>1 DEF PairAt, DownPair, AccountPlaces
  <2>3. CASE WriteCert(n, a)
    <3>1. /\ pc[n]["main"] = "writeCert" /\ pc'[n]["main"] = "openKey" /\ key' = key
          /\ cert' = hand'[n]["main"]
      BY <1>1, <1>2, <1>5, <2>3, GotoIs DEF WriteCert, Types, Places
    <3> QED BY <1>1, <2>1, <3>1 DEF PairAt, DownPair, AccountPlaces
  <2>4. CASE OpenKey(n, a)
    <3>1. /\ pc[n]["main"] = "openKey" /\ pc'[n]["main"] = "writeKey"
          /\ cert' = cert /\ hand' = hand
      BY <1>1, <1>5, <2>4, GotoIs DEF OpenKey, Types, Places
    <3> QED BY <1>1, <2>1, <3>1 DEF PairAt, DownPair, AccountPlaces
  <2>5. CASE WriteKey(n, a)
    <3>1. /\ pc[n]["main"] = "writeKey" /\ pc'[n]["main"] = "load"
          /\ cert' = cert /\ key' = hand[n]["main"]
      BY <1>1, <1>2, <1>5, <2>5, GotoIs DEF WriteKey, Types, Places
    <3>2. Match'
      BY <1>3, <1>5, <2>1, <3>1 DEF DownPair, Match
    <3> QED BY <1>1, <2>1, <3>1, <3>2 DEF PairAt, DownPair, AccountPlaces
  <2> QED BY <2>2, <2>3, <2>4, <2>5
<1> QED BY <1>4, <1>5 DEF Goroutines

\* A renewal that fails leaves the pair as it was, or half-written.
LEMMA FailsKeepsPair ==
    ASSUME Types, Types', PairInv, NEW n \in members, NEW a \in Goroutines, Fails(n, a)
    PROVE  PairInv'
<1>1. n \in Nodes /\ UNCHANGED <<config, files>>
  BY FailsIs DEF Types, TypeOK
<1>2. CASE Die
  BY <1>1, <1>2, PairDies
<1>3. CASE ~Die
  <2>1. /\ a = "main" => n \in up
        /\ Goto(n, a, IF a = "main" THEN "failed" ELSE "idle")
        /\ lost' = lost \cup LeftBehind(pc[n][a]) /\ pc[n][a] # "off"
    BY <1>3, FailsIs
  <2>2. up' = up /\ pc[n][a] \notin {"idle", "check", "load"}
    BY <1>3 DEF Fails, GiveUp
  <2> SUFFICES ASSUME Own(n)' PROVE PairAt(n)'
    BY <1>1 DEF PairInv, Own, config
  <2>3. PairAt(n)
    BY <1>1, <2>1, OwnKept DEF PairInv
  <2>4. a = "renew" /\ n \in up /\ UpPair(n)
    BY <1>1, <2>1, <2>2, <2>3 DEF PairAt, UpPair, Goroutines, Types, PlacesInv
  <2>5. /\ pc'[n]["renew"] = "idle" /\ pc'[n]["main"] = pc[n]["main"]
        /\ cert' = cert /\ key' = key
    BY <1>1, <2>1, <2>4, GotoIs DEF Types, Places, Goroutines, files
  <2>6. "pair" \notin LeftBehind(pc[n]["renew"])
    BY <2>1, <2>4 DEF Own
  <2>7. pc[n]["renew"] \notin {"writeCert", "openKey", "writeKey"}
    BY <2>4, <2>6 DEF LeftBehind, UpPair
  <2> QED BY <2>2, <2>4, <2>5, <2>7 DEF PairAt, UpPair, Match, Exists
<1> QED BY <1>2, <1>3

LEMMA TimeKeepsPair ==
    ASSUME Types, Types', PairInv, Crash \/ Age \/ UNCHANGED vars
    PROVE  PairInv'
<1>1. CASE Crash
  BY <1>1, PairDies DEF Crash
<1>2. CASE Age \/ UNCHANGED vars
  <2>1. UNCHANGED <<mode, literal, members, cert, key, pc, hand, up, lost>>
    BY <1>2 DEF Age, vars, config, files, history
  <2> QED BY <2>1 DEF PairInv, Own, Named, PairAt, UpPair, DownPair, Match, Exists
<1> QED BY <1>1, <1>2

LEMMA PairInductive ==
    ASSUME Types, Types', PairInv, [Next]_vars
    PROVE  PairInv'
<1>1. ASSUME NEW n \in members, NEW a \in Goroutines, Issue(n, a) PROVE PairInv'
  BY <1>1, AccountKeepsPair, WriteKeepsPair DEF Issue
<1>2. ASSUME NEW n \in members, Main(n) \/ Renew(n) \/ ReloadNode(n) PROVE PairInv'
  BY <1>1, <1>2, CallsKeepPair, AddNodeKeepsPair DEF Main, Renew, Goroutines
<1> QED BY <1>2, FailsKeepsPair, TimeKeepsPair DEF Next

LEMMA InitPair == Init => PairInv
<1> SUFFICES ASSUME Init, NEW n \in Nodes PROVE PairAt(n)
  BY DEF PairInv
<1>1. pc[n]["main"] = "off" /\ key = None /\ n \notin up
  BY DEF Init, Goroutines
<1> QED BY <1>1 DEF PairAt, DownPair, AccountPlaces

\* Files that are not shared are those of the config's one node.
LEMMA OneMember ==
    ASSUME TypeOK, ~Shared, NEW n \in members
    PROVE  members = {n}
<1>1. IsFiniteSet(members)
  BY CertNodes, FS_Subset DEF TypeOK
<1>2. Cardinality(members) \in Nat /\ Cardinality(members) # 0
  BY <1>1, FS_CardinalityType, FS_EmptySet
<1>3. Cardinality(members) = 1
  BY <1>2 DEF Shared
<1>4. PICK m : members = {m}
  BY <1>1, <1>3, FS_Singleton
<1> QED BY <1>4

\* The certificate a node serves with belongs to its key, whatever the process
\* dies of, and the account is registered once and found again: FilesAreKept,
\* for any nodes, and any number of failures and crashes at any place of
\* requestCert, NewLegoUser and RenewCert.
THEOREM FilesAreKeptAlways == Spec => []FilesAreKept
<1>1. Init => Types /\ AccountInv /\ PairInv
  BY InitTypes, InitAccount, InitPair
<1>2. Types /\ AccountInv /\ PairInv /\ [Next]_vars => (Types /\ AccountInv /\ PairInv)'
  BY TypesInductive, AccountInductive, PairInductive
<1>3. Types /\ AccountInv /\ PairInv => FilesAreKept
  <2> SUFFICES ASSUME Types, AccountInv, PairInv PROVE FilesAreKept
    OBVIOUS
  <2>1. AccountIsKept
    BY DEF AccountIsKept, AccountInv
  <2>2. OwnPairMatches
    <3> SUFFICES ASSUME Named, ~Shared, "pair" \notin lost, NEW n \in members,
                        pc[n]["main"] \in {"load", "idle"}, pc[n]["renew"] \notin Writing
                 PROVE  Match
      BY DEF OwnPairMatches
    <3>1. PairAt(n)
      BY OneMember DEF PairInv, Own, Types, TypeOK
    <3> QED BY <3>1 DEF PairAt, UpPair, DownPair, Writing
  <2> QED BY <2>1, <2>2 DEF FilesAreKept
<1> QED BY <1>1, <1>2, <1>3, PTL DEF Spec
=============================================================================
