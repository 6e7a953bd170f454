----------------------------- MODULE CertStore -----------------------------
(***************************************************************************)
(* The certificate files of a node: requestCert, which the controller calls *)
(* before it adds the node to a core, at its start and at each reload, and  *)
(* the daily renewCertTask.  Both go through the file of the ACME account   *)
(* and write certificate and key one after the other, truncating first.     *)
(* Several nodes may be configured with the same files.                     *)
(*                                                                          *)
(* A certificate and its key are one number: files match when their numbers *)
(* do.  CertMode "file" writes nothing and is left out; "http" and "dns"    *)
(* differ in how the CA is satisfied only and are "acme".  When a node cannot *)
(* be started, or cannot be added at a reload, the process ends; it is then  *)
(* started again.                                                            *)
(***************************************************************************)
EXTENDS Naturals, FiniteSets

CONSTANTS
    Nodes,                   \* nodes with the same CertFile, KeyFile and Email
    Pairs,                   \* names of certificates, used again when gone
    None, Torn,              \* a file that is not there; one that is cut short
    MaxFailures, MaxCrashes  \* bounds: failing CAs or disks, deaths of the process

ASSUME CertBounds == MaxFailures \in Nat /\ MaxCrashes \in Nat
ASSUME CertNames == None \notin Pairs /\ Torn \notin Pairs /\ None # Torn /\ "saved" \notin {None, Torn}
ASSUME CertNodes == IsFiniteSet(Nodes)

VARIABLES
    mode,        \* CertMode: "acme" or "self"
    literal,     \* CertFile and KeyFile contain no {domain} or {email}
    members,     \* the nodes of the config file
    strict,      \* the core refuses a pair that does not match (xray does not)
    cert, key,   \* contents of CertFile and KeyFile
    account,     \* of the account's file: None, Torn or "saved"
    old,         \* whether the certificate on file has 30 days to go at most
    pc, hand,    \* of each goroutine: place, and the certificate to be written
    up,          \* nodes that have started since the process was
    registered,  \* accounts that the CA has been asked for
    failures, crashes,
    lost         \* what a failure or a crash has left half-written

config == <<mode, literal, members, strict>>
files == <<cert, key, account>>
history == <<old, registered, failures, crashes, lost>>
vars == <<config, files, pc, hand, up, history>>

\* The goroutine of Start, later of polls; that of the renewal task
Goroutines == {"main", "renew"}

Init ==
    /\ mode \in {"acme", "self"} /\ literal \in BOOLEAN /\ members \in SUBSET Nodes \ {{}} /\ strict \in BOOLEAN
    /\ cert = None /\ key = None /\ account = None /\ old = FALSE
    /\ pc = [n \in Nodes |-> [a \in Goroutines |-> "off"]]
    /\ hand = [n \in Nodes |-> [a \in Goroutines |-> None]]
    /\ up = {} /\ registered = 0 /\ failures = 0 /\ crashes = 0 /\ lost = {}

Goto(n, a, place) == pc' = [pc EXCEPT ![n][a] = place]
Exists(f) == f # None
Match == cert \in Pairs /\ key = cert

\* Where a stop leaves a file behind that is there but not what it should be.
\* (A first certificate without its key is asked for again.)
LeftBehind(place) ==
    (IF place = "saveAccount" THEN {"account"} ELSE {}) \cup
    (IF place = "writeKey" \/ (place \in {"writeCert", "openKey"} /\ Exists(key)) THEN {"pair"} ELSE {})

\* The process ends, with every goroutine in it.
Die ==
    /\ lost' = lost \cup {f \in {"account", "pair"} : \E n \in Nodes, a \in Goroutines : f \in LeftBehind(pc[n][a])}
    /\ pc' = [n \in Nodes |-> [a \in Goroutines |-> "off"]]
    /\ hand' = [n \in Nodes |-> [a \in Goroutines |-> None]]
    /\ up' = {}

\* A name that no file and no goroutine has
InUse == {cert, key} \cup {hand[n][a] : n \in Nodes, a \in Goroutines}
Take(n, a) ==
    \E p \in Pairs \ InUse :
        /\ p = CHOOSE q \in Pairs \ InUse : TRUE
        /\ hand' = [hand EXCEPT ![n][a] = p]

-----------------------------------------------------------------------------
\* The callers

\* Node.Start starts one node after the other and stops at the first that fails.
StartNode(n) ==
    /\ pc[n]["main"] = "off" /\ \A m \in members : m \in up \/ pc[m]["main"] = "off"
    /\ Goto(n, "main", "check")
    /\ UNCHANGED <<config, files, hand, up, history>>

\* nodeInfoMonitor, for a node with a new config, also after a reload that failed
ReloadNode(n) ==
    /\ pc[n]["main"] \in {"idle", "failed"} /\ Goto(n, "main", "check")
    /\ UNCHANGED <<config, files, hand, up, history>>

\* xray reads the files, and leaves out a pair that it cannot use.
Accepted == IF strict THEN Match ELSE Exists(cert) /\ Exists(key)

\* The core's AddNode, which reads the pair; a Start then starts the tasks, and
\* the renewal executes at once.  An error ends the process: Start returns it,
\* nodeInfoMonitor panics.
AddNode(n) ==
    /\ pc[n]["main"] = "load"
    /\ IF Accepted
       THEN /\ up' = up \cup {n}
            /\ pc' = [pc EXCEPT ![n] = [main |-> "idle",
                        renew |-> IF n \notin up /\ mode = "acme" THEN "idle" ELSE @["renew"]]]
            /\ UNCHANGED <<hand, lost>>
       ELSE Die
    /\ UNCHANGED <<config, files, old, registered, failures, crashes>>

\* renewCertTask begins with NewLego.
Renewal(n) ==
    /\ pc[n]["renew"] = "idle" /\ Goto(n, "renew", "account")
    /\ UNCHANGED <<config, files, hand, up, history>>

\* Mutant: one file is enough.
CheckFiles_Either(n) ==
    /\ pc[n]["main"] = "check" /\ mode = "acme"
    /\ Goto(n, "main", IF Exists(cert) \/ Exists(key) THEN "load" ELSE "account")
    /\ UNCHANGED <<config, files, hand, up, history>>

\* requestCert does nothing if both files are there, whatever is in them.
CheckFiles(n) ==
    /\ pc[n]["main"] = "check"
    /\ \/ /\ Exists(cert) /\ Exists(key)
          /\ Goto(n, "main", "load") /\ UNCHANGED hand
       \/ /\ mode = "acme" /\ ~(Exists(cert) /\ Exists(key))
          /\ Goto(n, "main", "account") /\ UNCHANGED hand
       \/ /\ mode = "self" /\ ~(Exists(cert) /\ Exists(key))
          /\ Take(n, "main") /\ Goto(n, "main", "openCert")
    /\ UNCHANGED <<config, files, up, history>>

-----------------------------------------------------------------------------
\* The account

\* With the account in hand, the renewal reads the certificate first.
AsRegistered(n, a) == Goto(n, a, IF a = "main" THEN "obtain" ELSE "read")

\* NewLegoUser; a file that does not decode is an error: see Fails.
LoadAccount(n, a) ==
    /\ pc[n][a] = "account"
    /\ \/ account = None /\ Goto(n, a, "register")
       \/ account = "saved" /\ AsRegistered(n, a)
    /\ UNCHANGED <<config, files, hand, up, history>>

Register(n, a) ==
    /\ pc[n][a] = "register" /\ Goto(n, a, "openAccount")
    /\ registered' = registered + 1
    /\ UNCHANGED <<config, files, hand, up, old, failures, crashes, lost>>

\* User.Save truncates, then encodes.
OpenAccount(n, a) ==
    /\ pc[n][a] = "openAccount" /\ Goto(n, a, "saveAccount")
    /\ account' = Torn
    /\ UNCHANGED <<config, cert, key, hand, up, history>>

SaveAccount(n, a) ==
    /\ pc[n][a] = "saveAccount" /\ AsRegistered(n, a)
    /\ account' = "saved"
    /\ UNCHANGED <<config, cert, key, hand, up, history>>

-----------------------------------------------------------------------------
\* Issue and renewal

\* Mutant: the certificates to be renewed are those that need not be.
ReadCert_Inverted(n) ==
    /\ pc[n]["renew"] = "read"
    /\ Goto(n, "renew", IF cert \in Pairs /\ ~old THEN "obtain" ELSE "idle")
    /\ UNCHANGED <<config, files, hand, up, history>>

\* RenewCert ends without an error when CheckCert cannot parse the file.
ReadCert(n) ==
    /\ pc[n]["renew"] = "read"
    /\ Goto(n, "renew", IF cert \in Pairs /\ old THEN "obtain" ELSE "idle")
    /\ UNCHANGED <<config, files, hand, up, history>>

\* Mutant: an error of the CA is not looked at.
Obtain_ErrorIgnored(n, a) ==
    /\ pc[n][a] = "obtain" /\ Goto(n, a, "openCert")
    /\ UNCHANGED <<config, files, hand, up, history>>

Obtain(n, a) ==
    /\ pc[n][a] = "obtain" /\ Goto(n, a, "openCert")
    /\ Take(n, a)
    /\ UNCHANGED <<config, files, up, history>>

\* parseParams: with placeholders in the paths other files are written than
\* those that requestCert looks for and the core reads.
Named == literal \/ mode = "self"

\* os.WriteFile truncates; OpenFile of a self-signed pair creates, and what is
\* there is overwritten by as much again.
Opened(f) == IF mode = "self" /\ Exists(f) THEN f ELSE Torn

OpenCert(n, a) ==
    /\ pc[n][a] = "openCert" /\ Goto(n, a, "writeCert")
    /\ cert' = IF Named THEN Opened(cert) ELSE cert
    /\ old' = FALSE
    /\ UNCHANGED <<config, key, account, hand, up, registered, failures, crashes, lost>>

WriteCert(n, a) ==
    /\ pc[n][a] = "writeCert" /\ Goto(n, a, "openKey")
    /\ cert' = IF Named THEN hand[n][a] ELSE cert
    /\ old' = FALSE
    /\ UNCHANGED <<config, key, account, hand, up, registered, failures, crashes, lost>>

OpenKey(n, a) ==
    /\ pc[n][a] = "openKey" /\ Goto(n, a, "writeKey")
    /\ key' = IF Named THEN Opened(key) ELSE key
    /\ UNCHANGED <<config, cert, account, hand, up, history>>

WriteKey(n, a) ==
    /\ pc[n][a] = "writeKey" /\ Goto(n, a, IF a = "main" THEN "load" ELSE "idle")
    /\ key' = IF Named THEN hand[n][a] ELSE key
    /\ hand' = [hand EXCEPT ![n][a] = None]
    /\ UNCHANGED <<config, cert, account, up, history>>

Issue(n, a) ==
    \/ LoadAccount(n, a) \/ Register(n, a) \/ OpenAccount(n, a) \/ SaveAccount(n, a)
    \/ Obtain(n, a) \/ OpenCert(n, a) \/ WriteCert(n, a) \/ OpenKey(n, a) \/ WriteKey(n, a)

-----------------------------------------------------------------------------
\* The environment

\* An error on the way: requestCert returns it, which ends a Start and with it
\* the process, and leaves a reload without the node; a renewal logs it.
GiveUp(n, a) ==
    /\ IF a = "main" /\ n \notin up THEN Die
       ELSE /\ Goto(n, a, IF a = "main" THEN "failed" ELSE "idle")
            /\ hand' = [hand EXCEPT ![n][a] = None]
            /\ lost' = lost \cup LeftBehind(pc[n][a])
            /\ UNCHANGED up
    /\ UNCHANGED <<config, files, old, registered, crashes>>

\* The account's file cannot be decoded, or a CA or a disk fails.
Fails(n, a) ==
    \/ /\ pc[n][a] = "account" /\ account = Torn
       /\ GiveUp(n, a) /\ UNCHANGED failures
    \/ /\ pc[n][a] \notin {"off", "idle", "check", "read", "load", "failed"}
       /\ failures < MaxFailures /\ failures' = failures + 1
       /\ GiveUp(n, a)

Crash ==
    /\ crashes < MaxCrashes /\ crashes' = crashes + 1 /\ Die
    /\ UNCHANGED <<config, files, old, registered, failures>>

\* Certificates of the CA run out (self-signed ones in thirty years), but not
\* while they are being written.
Age ==
    /\ mode = "acme" /\ cert \in Pairs /\ \A n \in Nodes, a \in Goroutines : hand[n][a] # cert
    /\ ~old /\ old' = TRUE
    /\ UNCHANGED <<config, files, pc, hand, up, registered, failures, crashes, lost>>

Main(n) == StartNode(n) \/ CheckFiles(n) \/ AddNode(n) \/ Issue(n, "main")
Renew(n) == Renewal(n) \/ ReadCert(n) \/ Issue(n, "renew")

Next ==
    \/ \E n \in members : Main(n) \/ Renew(n) \/ ReloadNode(n) \/ \E a \in Goroutines : Fails(n, a)
    \/ Crash \/ Age

Spec == Init /\ [][Next]_vars

\* Goroutines run on, and the process is started again.
FairSpec ==
    /\ Spec
    /\ \A n \in Nodes : /\ WF_vars(n \in members /\ (Main(n) \/ Fails(n, "main")))
                        /\ WF_vars(n \in members /\ (Renew(n) \/ Fails(n, "renew")))

-----------------------------------------------------------------------------
\* Properties

Places == {"off", "idle", "check", "account", "register", "openAccount", "saveAccount", "read",
           "obtain", "openCert", "writeCert", "openKey", "writeKey", "load", "failed"}
Writing == {"openCert", "writeCert", "openKey", "writeKey"}

TypeOK ==
    /\ mode \in {"acme", "self"} /\ literal \in BOOLEAN /\ members \in SUBSET Nodes \ {{}} /\ strict \in BOOLEAN
    /\ cert \in Pairs \cup {None, Torn} /\ key \in Pairs \cup {None, Torn}
    /\ account \in {None, Torn, "saved"} /\ old \in BOOLEAN /\ (old => mode = "acme" /\ cert \in Pairs)
    /\ pc \in [Nodes -> [Goroutines -> Places]]
    /\ hand \in [Nodes -> [Goroutines -> Pairs \cup {None}]]
    /\ \A n \in Nodes, a \in Goroutines : IF pc[n][a] \in Writing THEN hand[n][a] \in Pairs ELSE hand[n][a] = None
    /\ up \subseteq members /\ lost \subseteq {"account", "pair"}
    /\ registered \in Nat /\ failures \in 0..MaxFailures /\ crashes \in 0..MaxCrashes

Shared == Cardinality(members) > 1

\* A node with files of its own serves with a certificate and the key that
\* belongs to it, whenever the process has died, unless that was inside the
\* writing of the pair; then and when it adds the node, except for the moments
\* of a renewal.
OwnPairMatches ==
    Named /\ ~Shared /\ "pair" \notin lost =>
        \A n \in members : pc[n]["main"] \in {"load", "idle"} /\ pc[n]["renew"] \notin Writing => Match

\* The account is registered once and found again by every later start and
\* renewal, of whichever node; each failure or crash costs one more at most.
AccountIsKept ==
    /\ registered <= 1 + failures + crashes
    /\ account = Torn => "account" \in lost \/ \E n \in members, a \in Goroutines : pc[n][a] = "saveAccount"

\* Neither certificates nor the account are lost but by a file cut short.
FilesAreKept == OwnPairMatches /\ AccountIsKept

\* A node with files of its own has its certificate renewed (README.md:29), key
\* included, whenever the process dies and the CA fails, unless that has left a
\* file half-written: that file is not repaired.
OldIsRenewed ==
    ~Shared /\ Match /\ old ~> (Match /\ ~old) \/ lost # {}
=============================================================================
