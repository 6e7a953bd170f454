------------------------------ MODULE Dispatch ------------------------------
(***************************************************************************)
(* One connection of xray from getLink to its outbound handler: admission,  *)
(* sniffing through a cachedReader, rules, choice of the handler; with the  *)
(* client that writes, and the monitor that meanwhile deletes the user,     *)
(* deletes the limiter and replaces its rules.                              *)
(*                                                                          *)
(* via = "pipe" is Dispatch: the uplink is a pipe, its writer is managed.   *)
(* via = "link" is DispatchLink: the uplink is the inbound's own reader,    *)
(* behind a CounterReader if the user has a name; the downlink is managed.  *)
(* Of payloads it matters how many chunks were written and which sniffer    *)
(* recognises them; what it recognises is left open.  Pipes, the inbound's  *)
(* reader and the handler are external.  Which device is admitted is module *)
(* Limiter's, several connections with one manager are Traffic's.           *)
(***************************************************************************)
EXTENDS Naturals, Sequences, FiniteSets

CONSTANTS
    Modes,      \* the connections considered: members of ModeType
    Chunks,     \* bound on what the client writes
    Patience,   \* cacheDeadline, 200 ms, in units
    Sniffers,   \* protocol sniffers of the connection's network
    Domains, Excluded, Overrides, \* names in payloads; the SniffingRequest
    RuleLists, ProtocolLists,     \* what the panel may send as rules
    MaxUpdates, \* bound on UpdateRule
    None

ModeType == [via : {"pipe", "link"}, sniff : {"off", "metadata", "content"},
             user : {"none", "nameless", "named"}, routeOnly : BOOLEAN,
             fakeIP : BOOLEAN]  \* the destination is in the pool of the fake DNS

ASSUME ModesAssumption == Modes \subseteq ModeType
ASSUME NumbersAssumption == Chunks \in Nat /\ Patience \in Nat /\ MaxUpdates \in Nat
\* A rule is the name it matches, or a pattern that does not compile.
ASSUME RulesAssumption == RuleLists \subseteq Seq(Domains \cup {"address", "invalid"})
ASSUME ProtocolsAssumption == \A list \in ProtocolLists : None \notin list
ASSUME NoneAssumption ==
    /\ None \notin Domains \cup Sniffers \cup {"address", "invalid", "fakedns"} /\ None \notin RuleLists
    /\ "invalid" \notin Domains

VARIABLES
    mode, place,
    up, cache,        \* the uplink; what sniffing has taken out of it
    down,             \* the downlink: "open" or "closed"
    managed, cutting, \* the link is in its LinkManager; CloseAll is between Close and Interrupt
    limiter, held,    \* the tag has a limiter; this connection has found it
    meta, pending, attempts, left, \* sniffer: metadata result, Sniffer.sniffer, totalAttempt, cacheDeadline
    protocol, dest, target, route, \* content.Protocol, destination, ob.Target, ob.RouteTarget
    rules, fresh, protocols, updates, \* DomainRules, the list UpdateRule is filling in, ProtocolRules
    at, count,        \* CheckDomainRule's loop
    sent, got, ended, \* chunks written; read by the handler; how its reading has ended
    inForce, raced,   \* history: the lists in force, and what of an update came, as rules were looked at
    crashed           \* the process has panicked

uplink == <<up, cache>>
ends == <<down, managed, cutting>>
admission == <<limiter, held>>
sniffing == <<meta, pending, attempts, left>>
names == <<protocol, dest, target, route>>
ruleVars == <<rules, fresh, protocols, updates>>
loop == <<at, count>>
history == <<sent, got, ended>>
outcome == <<inForce, raced, crashed>>
vars == <<mode, place, uplink, ends, admission, sniffing, names, ruleVars, loop, history, outcome>>

Init ==
    /\ mode \in Modes /\ place = "new"
    /\ up = [data |-> <<>>, state |-> "open"] /\ cache = <<>>
    /\ down = "open" /\ managed = FALSE /\ cutting = FALSE
    /\ limiter = TRUE /\ held = FALSE
    /\ meta = None /\ pending = {} /\ attempts = 0 /\ left = Patience
    /\ protocol = None /\ dest = "address" /\ target = "address" /\ route = None
    /\ rules \in RuleLists /\ (\A i \in DOMAIN rules : rules[i] # "invalid")
    /\ fresh = None /\ protocols \in ProtocolLists /\ updates = 0
    /\ at = 0 /\ count = 0
    /\ sent = 0 /\ got = <<>> /\ ended = "no"
    /\ inForce = {} /\ raced = {} /\ crashed = FALSE

Goto(p) == place' = p
Take(n) == SubSeq(up.data, 1, n)
Rest(n) == [up EXCEPT !.data = SubSeq(@, n + 1, Len(@))]
Broken == [data |-> <<>>, state |-> "broken"]
Min2(a, b) == IF a < b THEN a ELSE b

-----------------------------------------------------------------------------
\* The connection's goroutine: getLink, Dispatch and DispatchLink

\* Mutant: the cache is dropped, the pipe is not told.
Interrupted_CacheOnly == up

\* common.Interrupt(link.Reader): a cachedReader drops its cache and passes
\* the call on to a pipe only; a CounterReader ignores it.
Interrupted ==
    IF mode.via = "pipe" \/ (mode.user # "named" /\ mode.sniff = "off") THEN Broken ELSE up

\* common.Close(link.Writer); common.Interrupt(link.Reader)
Shut ==
    /\ Goto("shut")
    /\ down' = "closed" /\ managed' = (managed /\ mode.via = "pipe")
    /\ cache' = <<>> /\ up' = Interrupted

\* The limiter of a named user's tag is missing, or CheckLimit rejects.
Refuse ==
    /\ place = "new" /\ mode.user = "named"
    /\ Goto("refused") /\ down' = "closed" /\ up' = Broken
    /\ UNCHANGED <<mode, cache, managed, cutting, admission, sniffing, names, ruleVars, loop, history, outcome>>

Admit ==
    /\ place = "new"
    /\ \/ mode.user = "named" /\ limiter /\ held' = TRUE /\ managed' = TRUE
       \/ mode.user # "named" /\ UNCHANGED <<held, managed>>
    /\ Goto("sniff")
    /\ UNCHANGED <<mode, uplink, down, cutting, limiter, sniffing, names, ruleVars, loop, history, outcome>>

\* shouldOverride, of the result that has the domain
ShouldOverride(result) ==
    /\ result # None /\ result.domain \notin Excluded \cup {None}
    /\ result.protocol \in Overrides \/ (mode.fakeIP /\ "fakedns" \in Overrides)

\* What sniffer kept is gone when it returns.
Returned == meta' = None /\ pending' = {} /\ attempts' = 0 /\ left' = Patience

\* Mutant: rules are asked about the address.
Conclude_KeepsDestination(m, c) ==
    LET named == IF m # None THEN m ELSE c IN
    /\ protocol' = IF c # None THEN c.protocol ELSE IF m # None THEN m.protocol ELSE None
    /\ IF ShouldOverride(named)
       THEN IF mode.routeOnly /\ named.protocol # "fakedns" /\ ~mode.fakeIP
            THEN route' = named.domain /\ UNCHANGED target
            ELSE target' = named.domain /\ UNCHANGED route
       ELSE UNCHANGED <<target, route>>
    /\ Goto("route") /\ Returned /\ UNCHANGED dest

\* The end of sniffer, with a metadata result m and a content result c (None:
\* an error), and what the result changes
Conclude(m, c) ==
    LET named == IF m # None THEN m ELSE c IN
    /\ protocol' = IF c # None THEN c.protocol ELSE IF m # None THEN m.protocol ELSE None
    /\ IF ShouldOverride(named)
       THEN /\ dest' = named.domain
            /\ IF mode.routeOnly /\ named.protocol # "fakedns" /\ ~mode.fakeIP
               THEN route' = named.domain /\ UNCHANGED target
               ELSE target' = named.domain /\ UNCHANGED route
       ELSE UNCHANGED <<dest, target, route>>
    /\ Goto("route") /\ Returned

\* SniffMetadata: the fake DNS may know the address.
SniffMetadata ==
    /\ place = "sniff"
    /\ IF mode.sniff = "off" THEN Goto("route") /\ UNCHANGED <<sniffing, names>>
       ELSE \E m \in {None} \cup (IF mode.fakeIP THEN [protocol : {"fakedns"}, domain : Domains] ELSE {}) :
            IF mode.sniff = "metadata" THEN Conclude(m, None)
            ELSE /\ Goto("cache") /\ meta' = m /\ pending' = Sniffers
                 /\ UNCHANGED <<attempts, left, names>>
    /\ UNCHANGED <<mode, uplink, ends, admission, ruleVars, loop, history, outcome>>

\* Mutant: what was cached before is replaced.
CacheData_Replaces(n) ==
    /\ place = "cache"
    /\ cache' = Take(n) /\ up' = Rest(n)
    /\ left' \in 0..left
    /\ Goto("look")
    /\ UNCHANGED <<mode, ends, admission, meta, pending, attempts, names, ruleVars, loop, history, outcome>>

\* cachedReader.Cache: chunks came before the deadline and are merged.
CacheData(n) ==
    /\ place = "cache"
    /\ cache' = cache \o Take(n) /\ up' = Rest(n)
    /\ left' \in 0..left
    /\ Goto("look")
    /\ UNCHANGED <<mode, ends, admission, meta, pending, attempts, names, ruleVars, loop, history, outcome>>

\* Mutant: a deadline that has passed is not an end.
CacheTimeout_Retries ==
    /\ place = "cache" /\ up = [data |-> <<>>, state |-> "open"]
    /\ Goto("cache")
    /\ UNCHANGED <<mode, uplink, ends, admission, sniffing, names, ruleVars, loop, history, outcome>>

\* None came: a pipe makes that an error, the inbound's reader does not.
CacheTimeout ==
    /\ place = "cache" /\ up = [data |-> <<>>, state |-> "open"]
    /\ IF mode.via = "pipe" THEN Conclude(meta, None)
       ELSE left' = 0 /\ Goto("look") /\ UNCHANGED <<meta, pending, attempts, names>>
    /\ UNCHANGED <<mode, uplink, ends, admission, ruleVars, loop, history, outcome>>

CacheFails ==
    /\ place = "cache" /\ up.data = <<>> /\ up.state # "open"
    /\ Conclude(meta, None)
    /\ UNCHANGED <<mode, uplink, ends, admission, ruleVars, loop, history, outcome>>

\* Mutant: a third attempt is allowed.
TryAgain_OneMore(unsure) ==
    IF attempts + 1 > 2 \/ left = 0 THEN Conclude(meta, None)
    ELSE /\ Goto("cache") /\ attempts' = attempts + 1 /\ pending' = unsure
         /\ UNCHANGED <<meta, left, names>>

\* No clue, or no payload: totalAttempt; unsure is Sniffer.sniffer from now on.
TryAgain(unsure) ==
    IF attempts + 1 >= 2 \/ left = 0 THEN Conclude(meta, None)
    ELSE /\ Goto("cache") /\ attempts' = attempts + 1 /\ pending' = unsure
         /\ UNCHANGED <<meta, left, names>>

\* Sniff: the first sniffer that matches decides; those without a clue are
\* asked again.  One that asks for more data is not, so that the dispatcher's
\* case for it is never taken.
Look ==
    /\ place = "look"
    /\ \/ cache = <<>> /\ TryAgain(pending)
       \/ /\ cache # <<>>
          /\ \/ \E s \in pending, d \in Domains \cup {None} : Conclude(meta, [protocol |-> s, domain |-> d])
             \/ Conclude(meta, None)
             \/ \E unsure \in SUBSET pending \ {{}} : TryAgain(unsure)
    /\ UNCHANGED <<mode, uplink, ends, admission, ruleVars, loop, history, outcome>>

-----------------------------------------------------------------------------
\* routedDispatch

\* Without a limiter there are no rules; that it is missing is only logged.
FindRules ==
    /\ place = "route"
    /\ held' = (held \/ (mode.user # "none" /\ limiter))
    /\ IF held'
       THEN /\ Goto("check") /\ at' = 1 /\ count' = Len(rules)
            /\ inForce' = {IF fresh = None THEN rules ELSE fresh}
            /\ raced' = IF fresh = None THEN {} ELSE {"rules"}
       ELSE Goto("handler") /\ UNCHANGED <<loop, inForce, raced>>
    /\ UNCHANGED <<mode, uplink, ends, limiter, sniffing, names, ruleVars, history, crashed>>

\* A turn of CheckDomainRule's loop: the length was read before the first
\* turn, the slice is read at each.
CheckRule ==
    /\ place = "check" /\ at <= count
    /\ \/ /\ at > Len(rules) \/ (at <= Len(rules) /\ rules[at] = None)
          /\ crashed' = TRUE /\ UNCHANGED <<place, uplink, ends, at>>
       \/ at <= Len(rules) /\ rules[at] = dest /\ Shut /\ UNCHANGED <<cutting, at, crashed>>
       \/ /\ at <= Len(rules) /\ rules[at] \notin {dest, None}
          /\ at' = at + 1 /\ UNCHANGED <<place, uplink, ends, crashed>>
    /\ UNCHANGED <<mode, admission, sniffing, names, ruleVars, count, history, inForce, raced>>

\* CheckProtocolRule, if there was a result: its loop too reads the length first ...
FindProtocols ==
    /\ place = "check" /\ at > count
    /\ Goto(IF protocol = None THEN "handler" ELSE "protocols")
    /\ UNCHANGED <<mode, uplink, ends, admission, sniffing, names, ruleVars, loop, history, outcome>>

\* ... and then elements, which may be of another slice, or none of it.
CheckProtocol ==
    /\ place = "protocols"
    /\ \/ /\ protocol \in protocols \/ "protocols" \in raced
          /\ Shut /\ UNCHANGED <<cutting, crashed>>
       \/ /\ protocol \notin protocols \/ "protocols" \in raced
          /\ Goto("handler") /\ UNCHANGED <<uplink, ends, crashed>>
       \/ "protocols" \in raced /\ crashed' = TRUE /\ UNCHANGED <<place, uplink, ends>>
    /\ UNCHANGED <<mode, admission, sniffing, names, ruleVars, loop, history, inForce, raced>>

\* The forced, the routed or the default handler; one that is missing is not
\* replaced by another.
PickHandler ==
    /\ place = "handler"
    /\ \/ Goto("handled") /\ UNCHANGED <<uplink, ends>>
       \/ Shut /\ UNCHANGED cutting
    /\ UNCHANGED <<mode, admission, sniffing, names, ruleVars, loop, history, outcome>>

\* ReadMultiBuffer: the cache, or else the reader behind it
ReadCache ==
    /\ place = "handled" /\ cache # <<>>
    /\ got' = got \o cache /\ cache' = <<>>
    /\ UNCHANGED <<mode, place, up, ends, admission, sniffing, names, ruleVars, loop, sent, ended, outcome>>

ReadUplink ==
    /\ place = "handled" /\ cache = <<>> /\ ended = "no"
    /\ \/ \E n \in 1..Len(up.data) : got' = got \o Take(n) /\ up' = Rest(n) /\ UNCHANGED ended
       \/ /\ up.data = <<>> /\ up.state # "open"
          /\ ended' = IF up.state = "finished" THEN "eof" ELSE "error"
          /\ UNCHANGED <<got, up>>
    /\ UNCHANGED <<mode, place, cache, ends, admission, sniffing, names, ruleVars, loop, sent, outcome>>

Connection ==
    \/ Refuse \/ Admit \/ SniffMetadata \/ (\E n \in 1..Len(up.data) : CacheData(n)) \/ CacheTimeout
    \/ CacheFails \/ Look \/ FindRules \/ CheckRule \/ FindProtocols \/ CheckProtocol \/ PickHandler
    \/ ReadCache \/ ReadUplink

-----------------------------------------------------------------------------
\* The others

\* The context is done: select's first case
Cancelled ==
    /\ place = "cache" /\ Conclude(meta, None)
    /\ UNCHANGED <<mode, uplink, ends, admission, ruleVars, loop, history, outcome>>

\* The handler gives up, and shuts both ends.
HandlerQuits ==
    /\ place = "handled" /\ Shut
    /\ UNCHANGED <<mode, cutting, admission, sniffing, names, ruleVars, loop, history, outcome>>

Serving == place \notin {"new", "refused"}

ClientWrites ==
    /\ Serving /\ up.state = "open" /\ sent < Chunks
    /\ sent' = sent + 1 /\ up' = [up EXCEPT !.data = Append(@, sent + 1)]
    /\ UNCHANGED <<mode, place, cache, ends, admission, sniffing, names, ruleVars, loop, got, ended, outcome>>

ClientFinishes ==
    /\ Serving /\ up.state = "open"
    /\ up' = [up EXCEPT !.state = "finished"]
    /\ managed' = (managed /\ mode.via = "link")
    /\ UNCHANGED <<mode, place, cache, down, cutting, admission, sniffing, names, ruleVars, loop, history, outcome>>

\* CloseAll, at this link: Close of the managed writer ...
CloseLink ==
    /\ Serving /\ managed /\ managed' = FALSE
    /\ IF mode.via = "pipe"
       THEN /\ up' = IF up.state = "open" THEN [up EXCEPT !.state = "finished"] ELSE up
            /\ cutting' = TRUE /\ UNCHANGED down
       ELSE down' = "closed" /\ UNCHANGED <<up, cutting>>
    /\ UNCHANGED <<mode, place, cache, admission, sniffing, names, ruleVars, loop, history, outcome>>

\* ... and Interrupt of its reader, which is the pipe's: the cache stays.
InterruptLink ==
    /\ cutting /\ cutting' = FALSE /\ up' = Broken
    /\ UNCHANGED <<mode, place, cache, down, managed, admission, sniffing, names, ruleVars, loop, history, outcome>>

\* Controller.Close and reloads, as long as this connection may look
DeleteLimiter ==
    /\ limiter /\ ~held /\ limiter' = FALSE
    /\ UNCHANGED <<mode, place, uplink, ends, held, sniffing, names, ruleVars, loop, history, outcome>>

Asking == {"check", "protocols"}
BeforeRules == {"new", "sniff", "cache", "look", "route"}

\* UpdateRule stores the new slice first and fills it in afterwards.  (One
\* that comes after the rules were looked at is not this connection's.)
PublishRules ==
    /\ fresh = None /\ updates < MaxUpdates /\ updates' = updates + 1
    /\ place \in BeforeRules \cup Asking
    /\ fresh' \in RuleLists
    /\ rules' = [i \in DOMAIN fresh' |-> None]
    /\ raced' = IF place \in Asking THEN raced \cup {"rules"} ELSE raced
    /\ inForce' = IF place = "check" THEN inForce \cup {fresh'} ELSE inForce
    /\ UNCHANGED <<mode, place, uplink, ends, admission, sniffing, names, protocols, loop, history, crashed>>

Unfilled == {i \in DOMAIN rules : rules[i] = None}

\* MustCompile panics.
FillRule ==
    /\ fresh # None
    /\ \E i \in Unfilled :
         /\ \A j \in Unfilled : i <= j
         /\ IF fresh[i] = "invalid" THEN crashed' = TRUE /\ UNCHANGED rules
            ELSE rules' = [rules EXCEPT ![i] = fresh[i]] /\ UNCHANGED crashed
    /\ UNCHANGED <<mode, place, uplink, ends, admission, sniffing, names, fresh, protocols, updates, loop, history,
                   inForce, raced>>

EndUpdate ==
    /\ fresh # None /\ Unfilled = {}
    /\ fresh' = None /\ protocols' \in ProtocolLists
    /\ raced' = IF place = "protocols" THEN raced \cup {"protocols"} ELSE raced
    /\ UNCHANGED <<mode, place, uplink, ends, admission, sniffing, names, rules, updates, loop, history, inForce,
                   crashed>>

Others ==
    \/ Cancelled \/ HandlerQuits \/ ClientWrites \/ ClientFinishes \/ CloseLink \/ InterruptLink
    \/ DeleteLimiter \/ PublishRules \/ FillRule \/ EndUpdate

Next == ~crashed /\ (Connection \/ Others)

\* The connection's goroutine runs on, its deadline passes, its handler reads
\* (external), and an update is carried to its end.  Nobody else need act.
Spec == Init /\ [][Next]_vars /\ WF_vars(~crashed /\ Connection) /\ WF_vars(~crashed /\ (FillRule \/ EndUpdate))

-----------------------------------------------------------------------------
\* Properties

Result == [protocol : Sniffers \cup {"fakedns"}, domain : Domains \cup {None}]
Names == Domains \cup {"address"}

TypeOK ==
    /\ mode \in Modes
    /\ place \in {"new", "refused", "sniff", "cache", "look", "route", "check", "protocols", "handler", "handled",
                 "shut"}
    /\ up \in [data : Seq(1..Chunks), state : {"open", "finished", "broken"}]
    /\ cache \in Seq(1..Chunks)
    /\ down \in {"open", "closed"} /\ managed \in BOOLEAN /\ cutting \in BOOLEAN
    /\ limiter \in BOOLEAN /\ held \in BOOLEAN
    /\ meta \in Result \cup {None} /\ pending \subseteq Sniffers
    /\ attempts \in 0..1 /\ left \in 0..Patience
    /\ protocol \in Sniffers \cup {"fakedns", None}
    /\ dest \in Names /\ target \in Names /\ route \in Domains \cup {None}
    /\ rules \in Seq(Names \cup {None}) /\ fresh \in RuleLists \cup {None} /\ protocols \in ProtocolLists
    /\ updates \in 0..MaxUpdates
    /\ at \in Nat /\ count \in Nat
    /\ sent \in 0..Chunks /\ got \in Seq(1..Chunks) /\ ended \in {"no", "eof", "error"}
    /\ inForce \subseteq Seq(Names \cup {"invalid", None}) /\ raced \subseteq {"rules", "protocols"} /\ crashed \in BOOLEAN

\* What the handler reads through the cachedReader is the uplink, whatever
\* sniffing took out of it and whoever cuts it: module Stream.
Abandoned == place \in {"refused", "shut"}
Uplink == INSTANCE Stream WITH
    queue <- IF Abandoned THEN <<>> ELSE cache \o up.data,
    delivered <- got,
    state <- IF Abandoned THEN "broken" ELSE up.state,
    eof <- ended = "eof"
ImplementsStream == Uplink!Spec

\* A connection that was turned away, at its start, by a rule or for want of
\* a handler, leaves neither end of Dispatch's link open: the client's reads
\* and writes end.
TurnedAwayIsShut ==
    Abandoned /\ mode.via = "pipe" => down = "closed" /\ up.state = "broken" /\ cache = <<>>

\* The name that rules are asked about.  With RouteOnly it only picks the route:
\* the handler dials the address, of which no rule is asked.
Name == IF route # None THEN route ELSE target

\* What is handled goes by a name, sniffed or not, that was not matched by a
\* rule which has its place in every list in force as the rules were looked at;
\* if no update came meanwhile, it is matched by none, and the protocol is not
\* ruled out either.  Looking at the rules ends the process only during an
\* update, and an update only with a pattern that does not compile.
RulesHold ==
    /\ crashed => raced # {} \/ (fresh # None /\ \E i \in DOMAIN fresh : fresh[i] = "invalid")
    /\ place = "handled" /\ held =>
         /\ \A i \in 1..count : \E list \in inForce : i \in DOMAIN list /\ list[i] # Name
         /\ raced = {} => (\A i \in DOMAIN rules : rules[i] # Name) /\ protocol \notin protocols

\* Every connection is handled or turned away, however silent its client is,
\* and what sniffing took is handed on.
Settled == crashed \/ (place = "handled" /\ cache = <<>>) \/ place \in {"refused", "shut"}
ConnectionSettles == ~Settled ~> Settled
=============================================================================
