--------------------------- MODULE DispatchProofs ---------------------------
(***************************************************************************)
(* What a connection keeps on its way to the handler, for any chunks,       *)
(* patience, sniffers, names and rules.                                     *)
(***************************************************************************)
EXTENDS Dispatch, SequenceTheorems, TLAPS

USE NumbersAssumption

Places == {"new", "refused", "sniff", "cache", "look", "route", "check", "protocols", "handler", "handled", "shut"}
UpType == [data : Seq(1..Chunks), state : {"open", "finished", "broken"}]

UplinkTypes == up \in UpType /\ cache \in Seq(1..Chunks) /\ sent \in 0..Chunks /\ got \in Seq(1..Chunks)
               /\ ended \in {"no", "eof", "error"}
SniffTypes == /\ meta \in Result \cup {None} /\ pending \subseteq Sniffers /\ attempts \in 0..1 /\ left \in 0..Patience
              /\ protocol \in Sniffers \cup {"fakedns", None}
              /\ dest \in Names /\ target \in Names /\ route \in Domains \cup {None}
RuleTypes == /\ rules \in Seq(Names \cup {None}) /\ fresh \in RuleLists \cup {None} /\ protocols \in ProtocolLists
             /\ updates \in 0..MaxUpdates /\ at \in Nat /\ count \in Nat
             /\ inForce \subseteq Seq(Names \cup {"invalid", None}) /\ raced \subseteq {"rules", "protocols"}
PlaceTypes == /\ mode \in Modes /\ place \in Places /\ down \in {"open", "closed"} /\ managed \in BOOLEAN
              /\ cutting \in BOOLEAN /\ limiter \in BOOLEAN /\ held \in BOOLEAN /\ crashed \in BOOLEAN

LEMMA TypeParts == TypeOK <=> UplinkTypes /\ SniffTypes /\ RuleTypes /\ PlaceTypes
  BY DEF TypeOK, UplinkTypes, SniffTypes, RuleTypes, PlaceTypes, Places, UpType

-----------------------------------------------------------------------------
\* What a reader takes and what it leaves
LEMMA TakeAndRest ==
    ASSUME up \in UpType, NEW n \in 1..Len(up.data)
    PROVE  /\ Take(n) \in Seq(1..Chunks) /\ Rest(n) \in UpType /\ Rest(n).state = up.state
           /\ Take(n) \o Rest(n).data = up.data
           /\ Len(Take(n)) = n /\ Len(Rest(n).data) = Len(up.data) - n
<1> DEFINE d == up.data
<1>1. d \in Seq(1..Chunks) /\ Len(d) \in Nat
  BY LenProperties DEF UpType
<1>2. \A i \in 1..Len(d) : d[i] \in 1..Chunks
  BY <1>1, ElementOfSeq
<1> HIDE DEF d
<1>3. SubSeq(d, 1, n) \in Seq(1..Chunks) /\ Len(SubSeq(d, 1, n)) = n
  BY <1>1, <1>2, SubSeqProperties DEF d
<1>4. SubSeq(d, n + 1, Len(d)) \in Seq(1..Chunks) /\ Len(SubSeq(d, n + 1, Len(d))) = Len(d) - n
  BY <1>1, <1>2, SubSeqProperties DEF d
<1>5. SubSeq(d, 1, n) \o SubSeq(d, n + 1, Len(d)) = SubSeq(d, 1, Len(d))
  BY <1>1, ConcatAdjacentSubSeq DEF d
<1>6. Rest(n).data = SubSeq(d, n + 1, Len(d)) /\ Rest(n).state = up.state
  BY DEF Rest, UpType, d
<1>7. Take(n) = SubSeq(d, 1, n) /\ SubSeq(d, 1, Len(d)) = d
  BY <1>1, SubSeqFull DEF Take, d
<1>8. Rest(n).data = SubSeq(d, n + 1, Len(d)) /\ Rest(n).state = up.state /\ Rest(n) \in UpType
  BY <1>4, <1>6 DEF UpType, Rest
<1> QED BY <1>3, <1>4, <1>5, <1>7, <1>8 DEF d

LEMMA BrokenType == Broken \in UpType
  BY EmptySeq DEF Broken, UpType

LEMMA InterruptedType ==
    ASSUME up \in UpType
    PROVE  Interrupted \in UpType
  BY BrokenType DEF Interrupted

-----------------------------------------------------------------------------
\* Types, a group of variables at a time

LEMMA ConcludeTypes ==
    ASSUME SniffTypes, PlaceTypes, NEW m \in Result \cup {None}, NEW c \in Result \cup {None}, Conclude(m, c)
    PROVE  SniffTypes' /\ place' \in Places
<1> DEFINE named == IF m # None THEN m ELSE c
<1>1. named \in Result \cup {None} /\ (ShouldOverride(named) => named # None /\ named.domain \in Domains)
  BY DEF ShouldOverride, Result
<1>2. c # None => c.protocol \in Sniffers \cup {"fakedns"}
  BY DEF Result
<1>3. m # None => m.protocol \in Sniffers \cup {"fakedns"}
  BY DEF Result
<1>4. protocol' \in Sniffers \cup {"fakedns", None}
  BY <1>2, <1>3 DEF Conclude
<1>5. dest' \in Names /\ target' \in Names /\ route' \in Domains \cup {None}
  BY <1>1 DEF Conclude, SniffTypes, Names
<1>6. meta' = None /\ pending' = {} /\ attempts' = 0 /\ left' = Patience /\ place' = "route"
  BY DEF Conclude, Returned, Goto
<1> QED BY <1>4, <1>5, <1>6 DEF SniffTypes, Places

LEMMA ShutTypes ==
    ASSUME UplinkTypes, PlaceTypes, Shut
    PROVE  up' \in UpType /\ cache' \in Seq(1..Chunks) /\ place' \in Places /\ down' = "closed" /\ managed' \in BOOLEAN
  BY InterruptedType, EmptySeq DEF Shut, Goto, UplinkTypes, PlaceTypes, Places

LEMMA SniffingTypes ==
    ASSUME UplinkTypes, SniffTypes, RuleTypes, PlaceTypes,
           SniffMetadata \/ CacheTimeout \/ CacheFails \/ Look \/ Cancelled
    PROVE  UplinkTypes' /\ SniffTypes' /\ RuleTypes' /\ PlaceTypes'
<1>1. UNCHANGED <<mode, uplink, ends, admission, ruleVars, loop, history, outcome>>
  BY DEF SniffMetadata, CacheTimeout, CacheFails, Look, Cancelled
<1>2. SniffTypes' /\ place' \in Places
  <2>1. CASE SniffMetadata
    <3>1. CASE UNCHANGED <<sniffing, names>> /\ place' = "route"
      BY <3>1 DEF SniffTypes, Places, sniffing, names
    <3>2. ASSUME NEW m \in {None} \cup [protocol : {"fakedns"}, domain : Domains], Conclude(m, None)
          PROVE  SniffTypes' /\ place' \in Places
      <4>1. m \in Result \cup {None}
        BY DEF Result
      <4> QED BY <3>2, <4>1, ConcludeTypes
    <3>3. ASSUME NEW m \in {None} \cup [protocol : {"fakedns"}, domain : Domains],
                 place' = "cache", meta' = m, pending' = Sniffers, UNCHANGED <<attempts, left, names>>
          PROVE  SniffTypes' /\ place' \in Places
      BY <3>3 DEF SniffTypes, Places, Result, names
    <3> QED BY <2>1, <3>1, <3>2, <3>3 DEF SniffMetadata, Goto
  <2>2. CASE CacheTimeout \/ CacheFails \/ Cancelled
    <3>1. CASE Conclude(meta, None)
      BY <3>1, ConcludeTypes DEF SniffTypes
    <3>2. CASE place' = "look" /\ left' = 0 /\ UNCHANGED <<meta, pending, attempts, names>>
      BY <3>2 DEF SniffTypes, Places, names
    <3> QED BY <2>2, <3>1, <3>2 DEF CacheTimeout, CacheFails, Cancelled, Goto
  <2>3. CASE Look
    <3>1. ASSUME NEW unsure \in SUBSET pending, TryAgain(unsure) PROVE SniffTypes' /\ place' \in Places
      <4>1. CASE Conclude(meta, None)
        BY <4>1, ConcludeTypes DEF SniffTypes
      <4>2. CASE /\ ~(attempts + 1 >= 2) /\ place' = "cache" /\ attempts' = attempts + 1 /\ pending' = unsure
                 /\ UNCHANGED <<meta, left, names>>
        BY <4>2 DEF SniffTypes, Places, names
      <4> QED BY <3>1, <4>1, <4>2 DEF TryAgain, Goto
    <3>2. ASSUME NEW s \in pending, NEW d \in Domains \cup {None}, Conclude(meta, [protocol |-> s, domain |-> d])
          PROVE  SniffTypes' /\ place' \in Places
      <4>1. [protocol |-> s, domain |-> d] \in Result \cup {None}
        BY DEF Result, SniffTypes
      <4> QED BY <3>2, <4>1, ConcludeTypes DEF SniffTypes
    <3>3. CASE Conclude(meta, None)
      BY <3>3, ConcludeTypes DEF SniffTypes
    <3> QED BY <2>3, <3>1, <3>2, <3>3 DEF Look
  <2> QED BY <2>1, <2>2, <2>3
<1> QED BY <1>1, <1>2 DEF UplinkTypes, RuleTypes, PlaceTypes, uplink, ends, admission, ruleVars, loop, history, outcome

LEMMA FlowTypes ==
    ASSUME UplinkTypes, SniffTypes, RuleTypes, PlaceTypes,
           \/ \E n \in 1..Len(up.data) : CacheData(n)
           \/ ReadCache \/ ReadUplink \/ ClientWrites \/ ClientFinishes \/ CloseLink \/ InterruptLink
    PROVE  UplinkTypes' /\ SniffTypes' /\ RuleTypes' /\ PlaceTypes'
<1>1. ASSUME NEW n \in 1..Len(up.data), CacheData(n)
      PROVE  UplinkTypes' /\ SniffTypes' /\ RuleTypes' /\ PlaceTypes'
  <2>1. Take(n) \in Seq(1..Chunks) /\ up' \in UpType /\ cache' \in Seq(1..Chunks)
    BY <1>1, TakeAndRest, ConcatProperties DEF CacheData, UplinkTypes
  <2> QED BY <1>1, <2>1 DEF CacheData, Goto, UplinkTypes, SniffTypes, RuleTypes, PlaceTypes, Places, ends, admission,
                           names, ruleVars, loop, history, outcome
<1>2. CASE ReadCache
  <2>1. got' \in Seq(1..Chunks) /\ cache' \in Seq(1..Chunks)
    BY <1>2, ConcatProperties, EmptySeq DEF ReadCache, UplinkTypes
  <2> QED BY <1>2, <2>1 DEF ReadCache, UplinkTypes, SniffTypes, RuleTypes, PlaceTypes, ends, admission,
                           sniffing, names, ruleVars, loop, outcome
<1>3. CASE ReadUplink
  <2>1. ASSUME NEW n \in 1..Len(up.data), got' = got \o Take(n), up' = Rest(n), UNCHANGED ended
        PROVE  got' \in Seq(1..Chunks) /\ up' \in UpType /\ ended' \in {"no", "eof", "error"}
    BY <2>1, TakeAndRest, ConcatProperties DEF UplinkTypes
  <2>2. got' \in Seq(1..Chunks) /\ up' \in UpType /\ ended' \in {"no", "eof", "error"}
    BY <1>3, <2>1 DEF ReadUplink, UplinkTypes
  <2> QED BY <1>3, <2>2 DEF ReadUplink, UplinkTypes, SniffTypes, RuleTypes, PlaceTypes, ends, admission,
                           sniffing, names, ruleVars, loop, outcome
<1>4. CASE ClientWrites
  <2>1. sent + 1 \in 1..Chunks /\ up.data \in Seq(1..Chunks)
    BY <1>4 DEF ClientWrites, UplinkTypes, UpType
  <2>2. Append(up.data, sent + 1) \in Seq(1..Chunks)
    BY <2>1, AppendProperties
  <2>3. up' \in UpType
    BY <1>4, <2>2 DEF ClientWrites, UplinkTypes, UpType
  <2>4. sent' \in 0..Chunks /\ UNCHANGED <<mode, place, cache, ends, admission, sniffing, names, ruleVars, loop, got,
                                            ended, inForce, raced, crashed>>
    BY <1>4, <2>1 DEF ClientWrites, outcome
  <2>5. UplinkTypes'
    BY <2>3, <2>4 DEF UplinkTypes
  <2> QED BY <2>4, <2>5 DEF SniffTypes, RuleTypes, PlaceTypes, ends, admission, sniffing, names, ruleVars, loop
<1>5. CASE ClientFinishes \/ CloseLink \/ InterruptLink
  <2>1. up' \in UpType /\ down' \in {"open", "closed"} /\ managed' \in BOOLEAN /\ cutting' \in BOOLEAN
    BY <1>5, BrokenType DEF ClientFinishes, CloseLink, InterruptLink, UplinkTypes, UpType, PlaceTypes
  <2> QED BY <1>5, <2>1 DEF ClientFinishes, CloseLink, InterruptLink, UplinkTypes, SniffTypes, RuleTypes, PlaceTypes,
                           admission, sniffing, names, ruleVars, loop, history, outcome
<1> QED BY <1>1, <1>2, <1>3, <1>4, <1>5

\* The slice that is being filled in is as long as what it is filled from.
SameLength == fresh # None => DOMAIN rules = DOMAIN fresh

LEMMA ListTypes ==
    ASSUME NEW list \in RuleLists
    PROVE  /\ list \in Seq(Names \cup {"invalid"}) /\ list \in Seq(Names \cup {"invalid", None})
           /\ Len(list) \in Nat /\ DOMAIN list = 1..Len(list)
           /\ \A i \in DOMAIN list : list[i] \in Names \cup {"invalid"}
<1>1. list \in Seq(Names \cup {"invalid"})
  BY RulesAssumption DEF Names
<1>2. Seq(Names \cup {"invalid"}) \subseteq Seq(Names \cup {"invalid", None})
  BY SeqMonotonic
<1> QED BY <1>1, <1>2, LenProperties, ElementOfSeq

LEMMA RuleStepTypes ==
    ASSUME UplinkTypes, SniffTypes, RuleTypes, PlaceTypes, SameLength, PublishRules \/ FillRule \/ EndUpdate
    PROVE  UplinkTypes' /\ SniffTypes' /\ RuleTypes' /\ PlaceTypes'
<1>1. UNCHANGED <<mode, place, uplink, ends, admission, sniffing, names, loop, history>> /\ crashed' \in BOOLEAN
  BY DEF PublishRules, FillRule, EndUpdate, PlaceTypes
<1>2. RuleTypes'
  <2>1. CASE PublishRules
    <3>1. fresh' \in RuleLists /\ rules' = [i \in DOMAIN fresh' |-> None] /\ updates' \in 0..MaxUpdates
      BY <2>1 DEF PublishRules, RuleTypes
    <3>3. Len(fresh') \in Nat /\ DOMAIN fresh' = 1..Len(fresh') /\ fresh' \in Seq(Names \cup {"invalid", None})
      BY <3>1, ListTypes
    <3>4. [i \in 1..Len(fresh') |-> None] \in [1..Len(fresh') -> Names \cup {None}]
      OBVIOUS
    <3>5. [1..Len(fresh') -> Names \cup {None}] \subseteq Seq(Names \cup {None})
      BY <3>3, SeqDef
    <3>6. inForce' \subseteq Seq(Names \cup {"invalid", None}) /\ raced' \subseteq {"rules", "protocols"}
      BY <2>1, <3>3 DEF PublishRules, RuleTypes
    <3> QED BY <1>1, <2>1, <3>1, <3>3, <3>4, <3>5, <3>6 DEF PublishRules, RuleTypes, loop
  <2>2. CASE FillRule
    <3>1. PICK i \in Unfilled : (fresh[i] # "invalid" /\ rules' = [rules EXCEPT ![i] = fresh[i]]) \/ rules' = rules
      BY <2>2 DEF FillRule
    <3>2. fresh \in RuleLists /\ i \in DOMAIN rules /\ DOMAIN rules = DOMAIN fresh
      BY <2>2 DEF FillRule, RuleTypes, Unfilled, SameLength
    <3>4. (fresh[i] # "invalid" => fresh[i] \in Names) /\ i \in 1..Len(rules)
      BY <3>2, ListTypes, LenProperties DEF RuleTypes
    <3>5. rules' \in Seq(Names \cup {None})
      BY <3>1, <3>4, ExceptSeq DEF RuleTypes
    <3> QED BY <1>1, <2>2, <3>5 DEF FillRule, RuleTypes, loop
  <2>3. CASE EndUpdate
    BY <1>1, <2>3 DEF EndUpdate, RuleTypes, loop
  <2> QED BY <2>1, <2>2, <2>3
<1> QED BY <1>1, <1>2 DEF UplinkTypes, SniffTypes, PlaceTypes, uplink, ends, admission, sniffing, names, loop, history

LEMMA WayTypes ==
    ASSUME UplinkTypes, SniffTypes, RuleTypes, PlaceTypes,
           \/ Refuse \/ Admit \/ FindRules \/ CheckRule \/ FindProtocols \/ CheckProtocol \/ PickHandler \/ HandlerQuits \/ DeleteLimiter
    PROVE  UplinkTypes' /\ SniffTypes' /\ RuleTypes' /\ PlaceTypes'
<1>1. UNCHANGED <<mode, sniffing, names, ruleVars, history>>
  BY DEF Refuse, Admit, FindRules, CheckRule, FindProtocols, CheckProtocol, PickHandler, HandlerQuits, DeleteLimiter
<1>2. SniffTypes'
  BY <1>1 DEF SniffTypes, sniffing, names
<1>3. Len(rules) \in Nat
  BY LenProperties DEF RuleTypes
<1>7. inForce' \subseteq Seq(Names \cup {"invalid", None}) /\ raced' \subseteq {"rules", "protocols"} /\ crashed' \in BOOLEAN
  <2>1. CASE FindRules
    <3>1. rules \in Seq(Names \cup {"invalid", None})
      <4>1. Seq(Names \cup {None}) \subseteq Seq(Names \cup {"invalid", None})
        BY SeqMonotonic
      <4> QED BY <4>1 DEF RuleTypes
    <3>2. fresh # None => fresh \in Seq(Names \cup {"invalid", None})
      BY ListTypes DEF RuleTypes
    <3> QED BY <2>1, <3>1, <3>2 DEF FindRules, RuleTypes, PlaceTypes
  <2>2. CASE ~FindRules
    BY <2>2 DEF RuleTypes, PlaceTypes, outcome, Refuse, Admit, CheckRule, FindProtocols, CheckProtocol, PickHandler,
                HandlerQuits, DeleteLimiter
  <2> QED BY <2>1, <2>2
<1>4. RuleTypes'
  BY <1>1, <1>3, <1>7 DEF RuleTypes, ruleVars, loop, Refuse, Admit, FindRules, CheckRule, FindProtocols, CheckProtocol, PickHandler,
                    HandlerQuits, DeleteLimiter
<1>5. CASE Shut
  BY <1>1, <1>2, <1>4, <1>5, <1>7, ShutTypes DEF UplinkTypes, PlaceTypes, history, ends, admission, CheckRule, FindProtocols, CheckProtocol,
        PickHandler, HandlerQuits, Refuse, Admit, FindRules, DeleteLimiter
<1>6. CASE ~Shut
  <2>1. up' \in UpType /\ cache' = cache
    BY <1>6, BrokenType DEF UplinkTypes, uplink, ends, Refuse, Admit, FindRules, CheckRule, FindProtocols, CheckProtocol, PickHandler,
        HandlerQuits, DeleteLimiter
  <2>2. place' \in Places /\ down' \in {"open", "closed"} /\ managed' \in BOOLEAN /\ cutting' \in BOOLEAN
    BY <1>6 DEF PlaceTypes, Places, Goto, ends, Refuse, Admit, FindRules, CheckRule, FindProtocols, CheckProtocol, PickHandler,
        HandlerQuits, DeleteLimiter
  <2>3. limiter' \in BOOLEAN /\ held' \in BOOLEAN
    BY DEF PlaceTypes, admission, Refuse, Admit, FindRules, CheckRule, FindProtocols, CheckProtocol, PickHandler,
        HandlerQuits, DeleteLimiter
  <2> QED BY <1>1, <1>2, <1>4, <1>7, <2>1, <2>2, <2>3 DEF UplinkTypes, PlaceTypes, history
<1> QED BY <1>5, <1>6

-----------------------------------------------------------------------------
\* The invariants

LEMMA InitTypes == Init => TypeOK /\ SameLength
<1> SUFFICES ASSUME Init PROVE TypeOK /\ SameLength
  OBVIOUS
<1>1. rules \in Seq(Names \cup {"invalid"}) /\ \A i \in DOMAIN rules : rules[i] \in Names
  BY ListTypes DEF Init
<1>2. rules \in Seq(Names \cup {None})
  <2>1. Len(rules) \in Nat /\ rules \in [1..Len(rules) -> Names \cup {"invalid"}] /\ DOMAIN rules = 1..Len(rules)
    BY <1>1, LenProperties
  <2>2. rules \in [1..Len(rules) -> Names \cup {None}]
    BY <1>1, <2>1
  <2> QED BY <2>1, <2>2, SeqDef
<1>3. <<>> \in Seq(1..Chunks)
  BY EmptySeq
<1>4. UplinkTypes
  BY <1>3 DEF Init, UplinkTypes, UpType
<1>5. PlaceTypes
  BY DEF Init, PlaceTypes, Places
<1>6. SniffTypes
  BY DEF Init, SniffTypes, Names
<1>7. RuleTypes /\ SameLength
  BY <1>2 DEF Init, RuleTypes, SameLength
<1> QED BY <1>4, <1>5, <1>6, <1>7, TypeParts

LEMMA OthersLeaveRules ==
    ASSUME Next, ~(PublishRules \/ FillRule \/ EndUpdate)
    PROVE  UNCHANGED ruleVars
  BY DEF Next, Connection, Others, Refuse, Admit, SniffMetadata, CacheData, CacheTimeout, CacheFails, Look, FindRules,
         CheckRule, FindProtocols, CheckProtocol, PickHandler, ReadCache, ReadUplink, Cancelled, HandlerQuits, ClientWrites,
         ClientFinishes, CloseLink, InterruptLink, DeleteLimiter

LEMMA SameLengthKept ==
    ASSUME RuleTypes, SameLength, Next
    PROVE  SameLength'
<1>1. CASE PublishRules
  <2>1. fresh' \in RuleLists
    BY <1>1 DEF PublishRules
  <2> QED BY <1>1, <2>1 DEF PublishRules, SameLength
<1>2. CASE FillRule
  <2>1. PICK i \in Unfilled : rules' = [rules EXCEPT ![i] = fresh[i]] \/ rules' = rules
    BY <1>2 DEF FillRule
  <2> QED BY <1>2, <2>1 DEF FillRule, SameLength
<1>3. CASE EndUpdate
  BY <1>3 DEF EndUpdate, SameLength
<1>4. CASE ~(PublishRules \/ FillRule \/ EndUpdate)
  BY <1>4, OthersLeaveRules DEF SameLength, ruleVars
<1> QED BY <1>1, <1>2, <1>3, <1>4

LEMMA StepTypes ==
    ASSUME TypeOK, SameLength, Next
    PROVE  TypeOK'
<1>1. UplinkTypes /\ SniffTypes /\ RuleTypes /\ PlaceTypes
  BY TypeParts
<1>2. UplinkTypes' /\ SniffTypes' /\ RuleTypes' /\ PlaceTypes'
  BY <1>1, SniffingTypes, FlowTypes, RuleStepTypes, WayTypes DEF Next, Connection, Others
<1> QED BY <1>2 DEF TypeOK, UplinkTypes, SniffTypes, RuleTypes, PlaceTypes, Places, UpType

LEMMA Stutters ==
    ASSUME UNCHANGED vars
    PROVE  /\ UNCHANGED <<mode, place, up, cache, down, managed, cutting, limiter, held, meta, pending, attempts, left>>
           /\ UNCHANGED <<protocol, dest, target, route, rules, fresh, protocols, updates, at, count, sent, got, ended>>
           /\ UNCHANGED <<inForce, raced, crashed>>
  BY DEF vars, uplink, ends, admission, sniffing, names, ruleVars, loop, history, outcome

LEMMA StutterTypes ==
    ASSUME TypeOK, UNCHANGED vars
    PROVE  TypeOK'
<1>1. UplinkTypes /\ SniffTypes /\ RuleTypes /\ PlaceTypes
  BY TypeParts
<1>2. UplinkTypes'
  BY <1>1, Stutters DEF UplinkTypes
<1>3. SniffTypes'
  BY <1>1, Stutters DEF SniffTypes
<1>4. RuleTypes'
  BY <1>1, Stutters DEF RuleTypes
<1>5. PlaceTypes'
  BY <1>1, Stutters DEF PlaceTypes
<1> QED BY <1>2, <1>3, <1>4, <1>5 DEF TypeOK, UplinkTypes, SniffTypes, RuleTypes, PlaceTypes, Places, UpType

\* Every variable stays in its type, whatever is dispatched and updated meanwhile.
THEOREM TypeCorrect == Spec => []TypeOK
<1>1. Init => TypeOK /\ SameLength
  BY InitTypes
<1>2. TypeOK /\ SameLength /\ [Next]_vars => (TypeOK /\ SameLength)'
  <2>1. SUFFICES ASSUME TypeOK, SameLength, [Next]_vars PROVE (TypeOK /\ SameLength)'
    OBVIOUS
  <2>2. CASE Next
    BY <2>1, <2>2, StepTypes, SameLengthKept, TypeParts
  <2>3. CASE UNCHANGED vars
    BY <2>1, <2>3, Stutters, StutterTypes DEF SameLength
  <2> QED BY <2>1, <2>2, <2>3
<1> QED BY <1>1, <1>2, PTL DEF Spec

-----------------------------------------------------------------------------
\* Who is turned away

\* Until it has been admitted, nothing was read; a link that was cut is broken for good.
ShutInv ==
    /\ place = "new" => cache = <<>>
    /\ Abandoned /\ mode.via = "pipe" => down = "closed" /\ up = Broken /\ cache = <<>>

LEMMA ShutBreaks ==
    ASSUME Shut, mode.via = "pipe", UNCHANGED mode
    PROVE  down' = "closed" /\ up' = Broken /\ cache' = <<>> /\ place' = "shut"
  BY DEF Shut, Interrupted, Goto

LEMMA ShutInvKept ==
    ASSUME ShutInv, Next
    PROVE  ShutInv'
<1>1. CASE Refuse
  BY <1>1 DEF ShutInv, Abandoned, Refuse, Goto, Broken
<1>2. CASE Admit \/ SniffMetadata \/ CacheTimeout \/ CacheFails \/ Look \/ FindRules \/ Cancelled \/ (\E n \in 1..Len(up.data) : CacheData(n))
  BY <1>2 DEF ShutInv, Abandoned, Goto, Conclude, TryAgain, Admit, SniffMetadata, CacheTimeout, CacheFails, Look, FindRules,
              Cancelled, CacheData
<1>3. CASE CheckRule
  <2>1. CASE Shut
    BY <1>3, <2>1, ShutBreaks DEF ShutInv, Shut, Goto, CheckRule
  <2>2. CASE ~Shut
    BY <1>3, <2>2 DEF ShutInv, Abandoned, Goto, CheckRule
  <2> QED BY <2>1, <2>2
<1>4. CASE CheckProtocol
  <2>1. CASE Shut
    BY <1>4, <2>1, ShutBreaks DEF ShutInv, Shut, Goto, CheckProtocol
  <2>2. CASE ~Shut
    BY <1>4, <2>2 DEF ShutInv, Abandoned, Goto, CheckProtocol
  <2> QED BY <2>1, <2>2
<1>11. CASE FindProtocols
  BY <1>11 DEF ShutInv, Abandoned, Goto, FindProtocols, uplink, ends
<1>5. CASE PickHandler
  <2>1. CASE Shut
    BY <1>5, <2>1, ShutBreaks DEF ShutInv, Shut, Goto, PickHandler
  <2>2. CASE ~Shut
    BY <1>5, <2>2 DEF ShutInv, Abandoned, Goto, PickHandler
  <2> QED BY <2>1, <2>2
<1>6. CASE HandlerQuits
  BY <1>6, ShutBreaks DEF ShutInv, Shut, Goto, HandlerQuits
<1>7. CASE ReadCache \/ ReadUplink
  BY <1>7 DEF ShutInv, Abandoned, ReadCache, ReadUplink
<1>8. CASE ClientWrites \/ ClientFinishes \/ CloseLink
  <2>1. up.state = "open" => up # Broken
    BY DEF Broken
  <2> QED BY <1>8, <2>1 DEF ShutInv, Abandoned, ClientWrites, ClientFinishes, CloseLink, ends
<1>9. CASE InterruptLink
  BY <1>9 DEF ShutInv, Abandoned, InterruptLink, Broken
<1>10. CASE DeleteLimiter \/ PublishRules \/ FillRule \/ EndUpdate
  BY <1>10 DEF ShutInv, Abandoned, Broken, DeleteLimiter, PublishRules, FillRule, EndUpdate, uplink, ends
<1> QED BY <1>1, <1>2, <1>3, <1>4, <1>5, <1>6, <1>7, <1>8, <1>9, <1>10, <1>11 DEF Next, Connection, Others

\* A refusal, a rule or a missing handler leaves no end of Dispatch's link open.
THEOREM TurnedAwayIsShutAlways == Spec => []TurnedAwayIsShut
<1>1. Init => ShutInv
  BY DEF Init, ShutInv, Abandoned
<1>2. ShutInv /\ [Next]_vars => ShutInv'
  <2>1. SUFFICES ASSUME ShutInv, [Next]_vars PROVE ShutInv'
    OBVIOUS
  <2>2. CASE UNCHANGED vars
    BY <2>1, <2>2, Stutters DEF ShutInv, Abandoned, Broken
  <2> QED BY <2>1, <2>2, ShutInvKept
<1>3. ShutInv => TurnedAwayIsShut
  BY DEF ShutInv, TurnedAwayIsShut, Broken
<1> QED BY <1>1, <1>2, <1>3, PTL DEF Spec

-----------------------------------------------------------------------------
\* What rules promise

\* The name that counts is the one that was sniffed, if it counts.
OneName ==
    /\ dest = IF route # None THEN route ELSE target
    /\ place \in {"new", "sniff", "cache", "look"} => dest = "address" /\ target = "address" /\ route = None

\* Rules that are not being replaced are filled in; those that are, from the new list.
FilledIn ==
    /\ fresh = None => \A i \in DOMAIN rules : rules[i] # None
    /\ fresh # None => \A i \in DOMAIN rules : rules[i] \in {None, fresh[i]}

Current == IF fresh = None THEN rules ELSE fresh
Uncompiled == fresh # None /\ \E i \in DOMAIN fresh : fresh[i] = "invalid"
Behind(i) == \E list \in inForce : i \in DOMAIN list /\ list[i] # dest

\* A connection has passed the rules that are behind it, each as it stood then,
\* and what no update has touched as it stands.
Passed ==
    /\ crashed => raced # {} \/ Uncompiled
    /\ place = "check" =>
         /\ Current \in inForce /\ at \in Nat \ {0}
         /\ \A i \in 1..count : i < at => Behind(i)
         /\ raced = {} => fresh = None /\ count = Len(rules) /\ \A i \in 1..Len(rules) : i < at => rules[i] # dest
    /\ place = "protocols" \/ (place \in {"handler", "handled"} /\ held) =>
         /\ \A i \in 1..count : Behind(i)
         /\ raced = {} => fresh = None /\ \A i \in 1..Len(rules) : rules[i] # dest
    /\ place \in {"handler", "handled"} /\ held /\ raced = {} => protocol \notin protocols

RulesInv == OneName /\ FilledIn /\ Passed

LEMMA ConcludeNames ==
    ASSUME OneName, place \in {"sniff", "cache", "look"}, SniffTypes,
           NEW m \in Result \cup {None}, NEW c \in Result \cup {None}, Conclude(m, c)
    PROVE  OneName' /\ place' = "route"
<1> DEFINE named == IF m # None THEN m ELSE c
<1>1. ShouldOverride(named) => named.domain # None
  BY DEF ShouldOverride
<1>2. place' = "route"
  BY DEF Conclude, Goto
<1>3. CASE ShouldOverride(named)
  BY <1>1, <1>2, <1>3 DEF Conclude, OneName
<1>4. CASE ~ShouldOverride(named)
  BY <1>2, <1>4 DEF Conclude, OneName
<1> QED BY <1>2, <1>3, <1>4

LEMMA SniffingNames ==
    ASSUME OneName, SniffTypes, SniffMetadata \/ CacheTimeout \/ CacheFails \/ Look \/ Cancelled
    PROVE  OneName' /\ place' \in {"cache", "look", "route"}
<1>1. None \in Result \cup {None} /\ meta \in Result \cup {None}
  BY DEF SniffTypes
<1>2. CASE \E m, c \in Result \cup {None} : Conclude(m, c)
  BY <1>2, ConcludeNames DEF SniffMetadata, CacheTimeout, CacheFails, Look, Cancelled
<1>3. CASE UNCHANGED names /\ place' \in {"cache", "look", "route"}
  BY <1>3 DEF OneName, names, SniffMetadata, CacheTimeout, CacheFails, Look, Cancelled
<1>4. CASE SniffMetadata
  <2>1. \A m \in [protocol : {"fakedns"}, domain : Domains] : m \in Result \cup {None}
    BY DEF Result
  <2> QED BY <1>1, <1>2, <1>3, <1>4, <2>1 DEF SniffMetadata, Goto
<1>5. CASE CacheTimeout \/ CacheFails \/ Cancelled
  BY <1>1, <1>2, <1>3, <1>5 DEF CacheTimeout, CacheFails, Cancelled, Goto
<1>6. CASE Look
  <2>1. \A s \in pending, d \in Domains \cup {None} : [protocol |-> s, domain |-> d] \in Result \cup {None}
    BY DEF Result, SniffTypes
  <2> QED BY <1>1, <1>2, <1>3, <1>6, <2>1 DEF Look, TryAgain, Goto
<1> QED BY <1>4, <1>5, <1>6

LEMMA RulesStep ==
    ASSUME RuleTypes, SameLength, OneName, FilledIn, Passed, ~crashed, PublishRules \/ FillRule \/ EndUpdate
    PROVE  RulesInv'
<1>1. UNCHANGED <<mode, place, dest, target, route, protocol, at, count, held>>
  BY DEF PublishRules, FillRule, EndUpdate, admission, names, loop
<1>2. OneName'
  BY <1>1 DEF OneName
<1>3. Len(rules) \in Nat /\ DOMAIN rules = 1..Len(rules)
  BY LenProperties DEF RuleTypes
<1>4. CASE PublishRules
  <2>1. /\ fresh' # None /\ \A i \in DOMAIN rules' : rules'[i] = None
        /\ fresh = None /\ place \in BeforeRules \cup Asking /\ UNCHANGED <<protocols, crashed>>
        /\ place \in Asking => raced' # {}
        /\ inForce \subseteq inForce' /\ (place = "check" => fresh' \in inForce')
    BY <1>4, NoneAssumption DEF PublishRules
  <2>2. FilledIn'
    BY <2>1 DEF FilledIn
  <2>3. \A i : Behind(i) => Behind(i)'
    BY <1>1, <2>1 DEF Behind
  <2>4. Passed'
    BY <1>1, <2>1, <2>3 DEF Passed, Current, BeforeRules, Asking
  <2> QED BY <1>2, <2>2, <2>4 DEF RulesInv
<1>5. CASE FillRule
  <2>1. PICK i \in Unfilled : IF fresh[i] = "invalid" THEN crashed' = TRUE /\ UNCHANGED rules
                              ELSE rules' = [rules EXCEPT ![i] = fresh[i]] /\ UNCHANGED crashed
    BY <1>5 DEF FillRule
  <2>2. fresh # None /\ UNCHANGED <<fresh, protocols, inForce, raced>> /\ i \in DOMAIN rules /\ DOMAIN rules = DOMAIN fresh
    BY <1>5 DEF FillRule, Unfilled, SameLength
  <2>3. FilledIn'
    BY <2>1, <2>2 DEF FilledIn
  <2>4. crashed' => Uncompiled'
    BY <2>1, <2>2 DEF Uncompiled
  <2>5. \A j : Behind(j) => Behind(j)'
    BY <1>1, <2>2 DEF Behind
  <2>6. Passed'
    BY <1>1, <2>2, <2>4, <2>5 DEF Passed, Current
  <2> QED BY <1>2, <2>3, <2>6 DEF RulesInv
<1>6. CASE EndUpdate
  <2>1. /\ fresh # None /\ fresh' = None /\ UNCHANGED <<rules, inForce, crashed>> /\ raced \subseteq raced'
        /\ \A i \in DOMAIN rules : rules[i] # None
    BY <1>6 DEF EndUpdate, Unfilled
  <2>2. rules = fresh
    <3>1. fresh \in RuleLists /\ DOMAIN rules = DOMAIN fresh
      BY <2>1 DEF RuleTypes, SameLength
    <3>2. \A i \in 1..Len(rules) : rules[i] = fresh[i]
      BY <1>3, <2>1 DEF FilledIn
    <3>3. fresh \in Seq(Names \cup {"invalid", None}) /\ Len(fresh) \in Nat /\ DOMAIN fresh = 1..Len(fresh)
      BY <3>1, ListTypes
    <3>4. rules \in Seq(Names \cup {"invalid", None})
      <4>1. Seq(Names \cup {None}) \subseteq Seq(Names \cup {"invalid", None})
        BY SeqMonotonic
      <4> QED BY <4>1 DEF RuleTypes
    <3>5. Len(rules) = Len(fresh)
      <4> DEFINE a == Len(rules)
                 b == Len(fresh)
      <4>1. a \in Nat /\ b \in Nat /\ 1..a = 1..b
        BY <1>3, <3>1, <3>3
      <4> HIDE DEF a, b
      <4>2. a <= b
        <5>1. CASE a = 0
          BY <4>1, <5>1
        <5>2. CASE a # 0
          <6>1. a \in 1..a
            BY <4>1, <5>2
          <6> QED BY <4>1, <6>1
        <5> QED BY <5>1, <5>2
      <4>3. b <= a
        <5>1. CASE b = 0
          BY <4>1, <5>1
        <5>2. CASE b # 0
          <6>1. b \in 1..b
            BY <4>1, <5>2
          <6> QED BY <4>1, <6>1
        <5> QED BY <5>1, <5>2
      <4> QED BY <4>1, <4>2, <4>3 DEF a, b
    <3> DEFINE S == Names \cup {"invalid", None}
    <3>6. rules \in Seq(S) /\ fresh \in Seq(S)
      BY <3>3, <3>4
    <3> HIDE DEF S
    <3>7. \A i \in 1..Len(rules) : rules[i] = fresh[i]
      BY <3>2
    <3> QED BY <3>5, <3>6, <3>7, SeqEqual
  <2>3. FilledIn'
    BY <2>1 DEF FilledIn
  <2>4. \A i : Behind(i) => Behind(i)'
    BY <1>1, <2>1 DEF Behind
  <2>5. Passed'
    BY <1>1, <2>1, <2>2, <2>4 DEF Passed, Current
  <2> QED BY <1>2, <2>3, <2>5 DEF RulesInv
<1> QED BY <1>4, <1>5, <1>6

\* A step of the others, which neither asks nor is asked about
LEMMA PassedOn ==
    ASSUME Passed, ~crashed, UNCHANGED <<dest, protocol, ruleVars, loop, held, inForce, raced, crashed>>,
           place' = place \/ place' \in {"new", "refused", "sniff", "cache", "look", "route", "shut"}
                          \/ (place = "handler" /\ place' = "handled")
    PROVE  Passed'
<1>1. \A i : Behind(i)' <=> Behind(i)
  BY DEF Behind
<1> QED BY <1>1 DEF Passed, Current, ruleVars, loop

LEMMA AskingStep ==
    ASSUME RuleTypes, SameLength, OneName, FilledIn, Passed, ~crashed, FindRules \/ CheckRule \/ FindProtocols \/ CheckProtocol
    PROVE  Passed'
<1>0. Len(rules) \in Nat /\ DOMAIN rules = 1..Len(rules) /\ count \in Nat /\ at \in Nat
  BY LenProperties DEF RuleTypes
<1>1. UNCHANGED <<dest, protocol, rules, fresh, protocols>>
  BY DEF FindRules, CheckRule, FindProtocols, CheckProtocol, names, ruleVars
<1>2. CASE FindRules
  <2>1. CASE held'
    <3>1. /\ place' = "check" /\ at' = 1 /\ count' = Len(rules) /\ inForce' = {Current} /\ UNCHANGED crashed
          /\ raced' = IF fresh = None THEN {} ELSE {"rules"}
      BY <1>2, <2>1 DEF FindRules, Goto, Current
    <3>2. Current' = Current
      BY <1>1 DEF Current
    <3>3. Current' \in inForce' /\ at' \in Nat \ {0} /\ \A i \in Nat \ {0} : ~(i < at')
      BY <3>1, <3>2
    <3>4. \A i \in 1..count' : i \in Nat \ {0}
      BY <1>0, <3>1
    <3>5. \A i \in 1..Len(rules') : i \in Nat \ {0}
      BY <1>0, <1>1
    <3>6. raced' = {} => fresh' = None /\ count' = Len(rules')
      BY <1>1, <3>1
    <3> QED BY <1>0, <3>1, <3>3, <3>4, <3>5, <3>6 DEF Passed
  <2>2. CASE ~held'
    BY <1>2, <2>2 DEF FindRules, Goto, Passed
  <2> QED BY <2>1, <2>2
<1>3. CASE CheckRule
  <2>1. UNCHANGED <<held, count, inForce, raced>> /\ place = "check" /\ at <= count
    BY <1>3 DEF CheckRule, admission
  <2>2. \A i : Behind(i)' <=> Behind(i)
    BY <1>1, <2>1 DEF Behind
  <2>3. CASE Shut /\ UNCHANGED crashed
    BY <2>1, <2>3 DEF Shut, Goto, Passed
  <2>4. CASE /\ at <= Len(rules) /\ rules[at] \notin {dest, None}
             /\ at' = at + 1 /\ UNCHANGED <<place, crashed>>
    <3>1. at \in DOMAIN rules /\ at \in Nat \ {0}
      <4>1. at \in Nat \ {0}
        BY <2>1 DEF Passed
      <4> QED BY <1>0, <2>4, <4>1
    <3>2. at \in DOMAIN Current /\ Current[at] # dest /\ Current \in inForce
      BY <2>1, <2>4, <3>1 DEF Passed, Current, FilledIn, SameLength
    <3>3. Behind(at)
      BY <3>2 DEF Behind
    <3>4. \A i \in 1..count : i < at + 1 => i < at \/ i = at
      BY <1>0
    <3>5. \A i \in 1..Len(rules) : i < at + 1 => i < at \/ i = at
      BY <1>0
    <3>6. Current' = Current
      BY <1>1 DEF Current
    <3>7. at' \in Nat \ {0} /\ Current' \in inForce' /\ place' = "check" /\ ~crashed'
      BY <1>0, <2>1, <2>4, <3>1, <3>2, <3>6
    <3>8. \A i \in 1..count' : i < at' => Behind(i)'
      BY <2>1, <2>2, <2>4, <3>3, <3>4 DEF Passed
    <3>9. raced' = {} => fresh' = None /\ count' = Len(rules') /\ \A i \in 1..Len(rules') : i < at' => rules'[i] # dest'
      BY <1>1, <2>1, <2>4, <3>5 DEF Passed
    <3> QED BY <3>7, <3>8, <3>9 DEF Passed
  <2>5. CASE /\ at > Len(rules) \/ (at <= Len(rules) /\ rules[at] = None)
             /\ crashed' = TRUE /\ UNCHANGED <<place, at>>
    <3>1. raced # {}
      <4>1. raced = {} => fresh = None /\ at \in 1..Len(rules)
        BY <1>0, <2>1 DEF Passed
      <4> QED BY <1>0, <2>5, <4>1 DEF FilledIn
    <3>2. Current' = Current
      BY <1>1 DEF Current
    <3> QED BY <1>1, <2>1, <2>2, <2>5, <3>1, <3>2 DEF Passed
  <2> QED BY <1>3, <2>3, <2>4, <2>5 DEF CheckRule
<1>4. CASE FindProtocols
  <2>1. /\ UNCHANGED <<held, at, count, inForce, raced, crashed>> /\ place = "check" /\ at > count
        /\ place' = IF protocol = None THEN "handler" ELSE "protocols"
    BY <1>4 DEF FindProtocols, admission, loop, outcome, Goto
  <2>2. \A i : Behind(i)' <=> Behind(i)
    BY <1>1, <2>1 DEF Behind
  <2>3. \A i \in 1..count : i < at
    BY <1>0, <2>1
  <2>4. raced = {} => fresh = None /\ \A i \in 1..Len(rules) : rules[i] # dest
    BY <1>0, <2>1, <2>3 DEF Passed
  <2>5. protocol = None => protocol \notin protocols
    BY ProtocolsAssumption DEF RuleTypes
  <2> QED BY <1>1, <2>1, <2>2, <2>3, <2>4, <2>5 DEF Passed
<1>5. CASE CheckProtocol
  <2>1. UNCHANGED <<held, at, count, inForce, raced>> /\ place = "protocols"
    BY <1>5 DEF CheckProtocol, admission, loop
  <2>2. \A i : Behind(i)' <=> Behind(i)
    BY <1>1, <2>1 DEF Behind
  <2>3. CASE Shut /\ UNCHANGED crashed
    BY <2>1, <2>3 DEF Shut, Goto, Passed
  <2>4. CASE (protocol \notin protocols \/ "protocols" \in raced) /\ Goto("handler") /\ UNCHANGED crashed
    BY <1>1, <2>1, <2>2, <2>4 DEF Goto, Passed
  <2>5. CASE "protocols" \in raced /\ crashed' = TRUE /\ UNCHANGED place
    BY <1>1, <2>1, <2>2, <2>5 DEF Passed
  <2> QED BY <1>5, <2>3, <2>4, <2>5 DEF CheckProtocol
<1> QED BY <1>2, <1>3, <1>4, <1>5

LEMMA RulesInvKept ==
    ASSUME TypeOK, SameLength, RulesInv, Next
    PROVE  RulesInv'
<1> USE DEF RulesInv
<1>0. SniffTypes /\ RuleTypes /\ ~crashed
  BY TypeParts DEF Next
<1>1. CASE PublishRules \/ FillRule \/ EndUpdate
  BY <1>0, <1>1, RulesStep
<1>2. CASE ~(PublishRules \/ FillRule \/ EndUpdate)
  <2>1. UNCHANGED ruleVars
    BY <1>2, OthersLeaveRules
  <2>2. FilledIn'
    BY <2>1 DEF FilledIn, ruleVars
  <2>3. CASE SniffMetadata \/ CacheTimeout \/ CacheFails \/ Look \/ Cancelled
    <3>1. OneName' /\ place' \in {"cache", "look", "route"}
      BY <1>0, <2>3, SniffingNames
    <3>2. crashed' = crashed
      BY <2>3 DEF SniffMetadata, CacheTimeout, CacheFails, Look, Cancelled, outcome
    <3> QED BY <1>0, <2>2, <3>1, <3>2 DEF Passed
  <2>4. CASE \/ Refuse \/ Admit \/ (\E n \in 1..Len(up.data) : CacheData(n)) \/ PickHandler \/ HandlerQuits
             \/ ReadCache \/ ReadUplink \/ ClientWrites \/ ClientFinishes \/ CloseLink \/ InterruptLink \/ DeleteLimiter
    <3>1. UNCHANGED <<names, loop, inForce, raced, crashed>>
      BY <2>4 DEF Refuse, Admit, CacheData, PickHandler, HandlerQuits, ReadCache, ReadUplink, ClientWrites,
                  ClientFinishes, CloseLink, InterruptLink, DeleteLimiter, outcome
    <3>2. \/ place' = place
          \/ place = "new" /\ place' \in {"refused", "sniff"}
          \/ place = "cache" /\ place' = "look"
          \/ place' = "shut" \/ (place = "handler" /\ place' = "handled")
      BY <2>4 DEF Refuse, Admit, CacheData, PickHandler, HandlerQuits, ReadCache, ReadUplink, ClientWrites,
                  ClientFinishes, CloseLink, InterruptLink, DeleteLimiter, Goto, Shut
    <3>3. held' = held \/ place' = "sniff"
      BY <2>4 DEF Refuse, Admit, CacheData, PickHandler, HandlerQuits, ReadCache, ReadUplink, ClientWrites,
                  ClientFinishes, CloseLink, InterruptLink, DeleteLimiter, admission, Goto
    <3>4. OneName'
      BY <3>1, <3>2 DEF OneName, names
    <3>5. CASE held' = held
      BY <1>0, <2>1, <2>2, <3>1, <3>2, <3>4, <3>5, PassedOn DEF names
    <3>6. CASE place' = "sniff"
      BY <1>0, <2>2, <3>1, <3>4, <3>6 DEF Passed
    <3> QED BY <3>3, <3>5, <3>6
  <2>5. CASE FindRules \/ CheckRule \/ FindProtocols \/ CheckProtocol
    <3>1. Passed'
      BY <1>0, <2>5, AskingStep
    <3>2. UNCHANGED names /\ (place' = place \/ place' \notin {"new", "sniff", "cache", "look"})
      BY <2>5 DEF FindRules, CheckRule, FindProtocols, CheckProtocol, Shut, Goto
    <3> QED BY <2>2, <3>1, <3>2 DEF OneName, names
  <2> QED BY <1>2, <2>3, <2>4, <2>5 DEF Next, Connection, Others
<1> QED BY <1>1, <1>2

\* Whatever is updated while the rules are looked at: whoever is handled goes by
\* a name that was not matched by a rule at the same place in all the lists then
\* in force, and by none if there was no update; and the process ends only of an
\* update that comes as rules are looked at, or of a pattern that does not compile.
THEOREM RulesHoldAlways == Spec => []RulesHold
<1> DEFINE Inv == TypeOK /\ SameLength /\ RulesInv
<1>1. Init => Inv
  <2>1. SUFFICES ASSUME Init PROVE RulesInv
    BY InitTypes
  <2>2. rules \in RuleLists /\ fresh = None
    BY <2>1 DEF Init
  <2>3. \A i \in DOMAIN rules : rules[i] # None
    BY <2>2, ListTypes, NoneAssumption DEF Names
  <2>5. FilledIn
    BY <2>2, <2>3 DEF FilledIn
  <2>6. OneName
    BY <2>1 DEF Init, OneName
  <2>7. Passed
    BY <2>1 DEF Init, Passed
  <2> QED BY <2>5, <2>6, <2>7 DEF RulesInv
<1>2. Inv /\ [Next]_vars => Inv'
  <2>1. SUFFICES ASSUME Inv, [Next]_vars PROVE Inv'
    OBVIOUS
  <2>2. CASE Next
    BY <2>1, <2>2, StepTypes, SameLengthKept, RulesInvKept, TypeParts
  <2>3. CASE UNCHANGED vars
    <3>1. \A k : Behind(k)' <=> Behind(k)
      BY <2>3, Stutters DEF Behind
    <3>2. OneName' /\ FilledIn' /\ SameLength'
      BY <2>1, <2>3, Stutters DEF SameLength, RulesInv, OneName, FilledIn
    <3>3. Passed'
      BY <2>1, <2>3, <3>1, Stutters DEF RulesInv, Passed, Current, Uncompiled
    <3> QED BY <2>1, <2>3, <3>2, <3>3, StutterTypes DEF RulesInv
  <2> QED BY <2>1, <2>2, <2>3
<1>3. Inv => RulesHold
  <2>1. SUFFICES ASSUME Inv PROVE RulesHold
    OBVIOUS
  <2>2. DOMAIN rules = 1..Len(rules)
    BY <2>1, LenProperties DEF TypeOK
  <2>3. Name = dest
    BY <2>1 DEF RulesInv, OneName, Name
  <2> QED BY <2>1, <2>2, <2>3 DEF RulesInv, Passed, Behind, Uncompiled, RulesHold
<1> QED BY <1>1, <1>2, <1>3, PTL DEF Spec

-----------------------------------------------------------------------------
\* The uplink is module Stream

\* Sequences that are fields of records, by names the provers can count with
Data == up.data
Left(n) == Rest(n).data

Queue == IF Abandoned THEN <<>> ELSE cache \o Data
State == IF Abandoned THEN "broken" ELSE up.state

\* Chunks are numbered as they are written, and none is lost from what is not cut.
Numbered == ~Abandoned /\ up.state # "broken" => sent = Len(got) + Len(cache) + Len(Data)

LEMMA Parts ==
    ASSUME NEW S, NEW s \in Seq(S), NEW t \in Seq(S)
    PROVE  /\ s \o t \in Seq(S) /\ Len(s) \in Nat /\ Len(t) \in Nat /\ Len(s \o t) = Len(s) + Len(t)
           /\ SubSeq(s \o t, 1, Len(s)) = s
           /\ SubSeq(s \o t, Len(s) + 1, Len(s) + Len(t)) = t
<1>1. s \o t \in Seq(S) /\ Len(s) \in Nat /\ Len(t) \in Nat /\ Len(s \o t) = Len(s) + Len(t)
  BY ConcatProperties, LenProperties
<1>2. SubSeq(s \o t, 1, Len(s)) = s
  <2>1. CASE Len(s) = 0
    BY <1>1, <2>1, EmptySeq, SubSeqEmpty
  <2>2. CASE Len(s) # 0
    <3>1. SubSeq(s \o t, 1, Len(s)) = SubSeq(s, 1, Len(s))
      BY <1>1, <2>2, SubSeqOfConcat1
    <3> QED BY <3>1, SubSeqFull
  <2> QED BY <2>1, <2>2
<1>3. SubSeq(s \o t, Len(s) + 1, Len(s) + Len(t)) = t
  <2>1. CASE Len(t) = 0
    BY <1>1, <2>1, EmptySeq, SubSeqEmpty
  <2>2. CASE Len(t) # 0
    <3>1. SubSeq(s \o t, Len(s) + 1, Len(s) + Len(t)) = SubSeq(t, Len(s) + 1 - Len(s), Len(s) + Len(t) - Len(s))
      BY <1>1, <2>2, SubSeqOfConcat2
    <3>2. Len(s) + 1 - Len(s) = 1 /\ Len(s) + Len(t) - Len(s) = Len(t)
      BY <1>1
    <3> QED BY <3>1, <3>2, SubSeqFull
  <2> QED BY <2>1, <2>2
<1> QED BY <1>1, <1>2, <1>3

LEMMA LinkBreaks ==
    ASSUME UplinkTypes, ~Abandoned, UNCHANGED <<got, ended>>,
           Abandoned' \/ (~Abandoned' /\ up' = Broken /\ cache' = cache)
    PROVE  \E n \in 0..Len(Queue) : Uplink!Break(n)
<1>1. cache \in Seq(1..Chunks) /\ Data \in Seq(1..Chunks) /\ Queue = cache \o Data
  BY DEF UplinkTypes, UpType, Queue, Data
<1>2. /\ Queue \in Seq(1..Chunks) /\ Len(cache) \in Nat /\ Len(Data) \in Nat
      /\ Len(Queue) = Len(cache) + Len(Data) /\ SubSeq(Queue, 1, Len(cache)) = cache
  BY <1>1, Parts
<1>3. CASE Abandoned'
  <2>1. Queue' = <<>> /\ State' = "broken" /\ SubSeq(Queue, 1, 0) = <<>>
    BY <1>3, SubSeqEmpty DEF Queue, State
  <2>2. Uplink!Break(0)
    BY <1>2, <2>1 DEF Uplink!Break, Queue, State, Data
  <2> QED BY <1>2, <2>2
<1>4. CASE ~Abandoned' /\ up' = Broken /\ cache' = cache
  <2>1. cache \o <<>> = cache
    BY <1>1, ConcatEmptySeq
  <2>2. Queue' = cache /\ State' = "broken"
    BY <1>4, <2>1 DEF Queue, State, Broken, Data
  <2>3. Uplink!Break(Len(cache))
    <3>1. Len(cache) \in 0..Len(Queue) /\ Queue' = SubSeq(Queue, 1, Len(cache)) /\ State' = "broken" /\ UNCHANGED <<got, ended>>
      BY <1>2, <2>2
    <3> QED BY <3>1 DEF Uplink!Break, Queue, State, Data
  <2> QED BY <1>2, <2>3
<1> QED BY <1>3, <1>4

\* A chunk is written behind all the others.
LEMMA WriteStep ==
    ASSUME UplinkTypes, Numbered, ClientWrites
    PROVE  (Uplink!Write \/ UNCHANGED Uplink!vars) /\ Numbered'
<1> DEFINE c == sent + 1
<1>1. cache \in Seq(1..Chunks) /\ Data \in Seq(1..Chunks) /\ got \in Seq(1..Chunks) /\ c \in 1..Chunks
  BY DEF ClientWrites, UplinkTypes, UpType, Data
<1>2. up' = [up EXCEPT !.data = Append(@, c)] /\ sent' = c /\ UNCHANGED <<place, cache, got, ended>> /\ up.state = "open"
  BY DEF ClientWrites
<1>3. Data' = Append(Data, c) /\ up'.state = up.state
  BY <1>2 DEF UplinkTypes, UpType, Data
<1>4. Len(cache) \in Nat /\ Len(got) \in Nat /\ Len(Data) \in Nat /\ Len(Data') = Len(Data) + 1
      /\ Len(cache \o Data) = Len(cache) + Len(Data)
  BY <1>1, <1>3, AppendProperties, LenProperties, ConcatProperties
<1>5. Numbered'
  <2>1. Abandoned' = Abandoned /\ up'.state = up.state /\ Len(got') = Len(got) /\ Len(cache') = Len(cache)
        /\ Len(Data') = Len(Data) + 1 /\ sent' = sent + 1 /\ sent \in Nat
    BY <1>1, <1>2, <1>3, <1>4 DEF Abandoned, UplinkTypes
  <2> QED BY <1>4, <2>1 DEF Numbered
<1>6. CASE Abandoned
  <2>1. Abandoned' = Abandoned
    BY <1>2 DEF Abandoned
  <2> QED BY <1>2, <1>5, <1>6, <2>1 DEF Uplink!vars, Data
<1>7. CASE ~Abandoned
  <2>1. c = Len(got) + Len(cache \o Data) + 1
    <3>1. sent = Len(got) + Len(cache) + Len(Data)
      BY <1>2, <1>7 DEF Numbered
    <3> QED BY <1>1, <1>4, <3>1
  <2>2. cache \o Append(Data, c) = Append(cache \o Data, c)
    <3>1. Append(Data, c) = Data \o <<c>> /\ cache \o Data \in Seq(1..Chunks)
      BY <1>1, AppendIsConcat, ConcatProperties
    <3>3. <<c>> \in Seq(1..Chunks)
      BY <1>1
    <3>2. Append(cache \o Data, c) = (cache \o Data) \o <<c>>
      BY <1>1, <3>1, AppendIsConcat
    <3> QED BY <1>1, <3>1, <3>2, <3>3, ConcatAssociative
  <2>3. Queue = cache \o Data /\ Queue' = Append(Queue, c) /\ State = "open" /\ UNCHANGED State
    BY <1>2, <1>3, <1>7, <2>2 DEF Queue, State, Abandoned
  <2>4. Uplink!Write
    BY <1>2, <2>1, <2>3 DEF Uplink!Write, Queue, State, Data
  <2> QED BY <1>5, <2>4
<1> QED BY <1>6, <1>7

\* Sniffing moves chunks within the queue.
LEMMA CacheStep ==
    ASSUME UplinkTypes, Numbered, NEW n \in 1..Len(up.data), CacheData(n)
    PROVE  UNCHANGED Uplink!vars /\ Numbered'
<1>1. cache \in Seq(1..Chunks) /\ got \in Seq(1..Chunks) /\ Data \in Seq(1..Chunks) /\ up \in UpType
  BY DEF UplinkTypes, UpType, Data
<1>2. cache' = cache \o Take(n) /\ up' = Rest(n) /\ UNCHANGED <<sent, got, ended>> /\ ~Abandoned /\ ~Abandoned'
      /\ Data' = Left(n)
  BY DEF CacheData, Goto, Abandoned, history, Data, Left
<1>3. /\ Take(n) \in Seq(1..Chunks) /\ Left(n) \in Seq(1..Chunks) /\ Rest(n).state = up.state
      /\ Take(n) \o Left(n) = Data /\ Len(Take(n)) = n /\ Len(Left(n)) = Len(Data) - n
  BY <1>1, TakeAndRest DEF UpType, Data, Left
<1>4. (cache \o Take(n)) \o Left(n) = cache \o Data
  <2> DEFINE S == 1..Chunks
  <2>1. cache \in Seq(S) /\ Take(n) \in Seq(S) /\ Left(n) \in Seq(S)
    BY <1>1, <1>3
  <2> HIDE DEF S
  <2>2. (cache \o Take(n)) \o Left(n) = cache \o (Take(n) \o Left(n))
    BY <2>1, ConcatAssociative
  <2> QED BY <1>3, <2>2
<1>5. Len(cache') = Len(cache) + n /\ Len(cache) \in Nat /\ Len(got) \in Nat /\ Len(Data) \in Nat
  BY <1>1, <1>2, <1>3, ConcatProperties, LenProperties
<1>6. Numbered'
  <2>1. up'.state = up.state /\ Len(got') = Len(got) /\ Len(Data') = Len(Data) - n /\ sent' = sent
    BY <1>2, <1>3
  <2> QED BY <1>2, <1>5, <2>1 DEF Numbered
<1> QED BY <1>2, <1>3, <1>4, <1>6 DEF Uplink!vars, Data

\* The handler reads the cache, and then the uplink from where it was left.
LEMMA ReadStep ==
    ASSUME UplinkTypes, Numbered, ReadCache \/ ReadUplink
    PROVE  (Uplink!Next \/ UNCHANGED Uplink!vars) /\ Numbered'
<1>1. cache \in Seq(1..Chunks) /\ got \in Seq(1..Chunks) /\ Data \in Seq(1..Chunks) /\ up \in UpType
  BY DEF UplinkTypes, UpType, Data
<1>2. UNCHANGED <<place, sent>> /\ ~Abandoned /\ ~Abandoned' /\ Queue = cache \o Data /\ State = up.state
      /\ Queue' = (cache \o Data)' /\ State' = up'.state
  BY DEF ReadCache, ReadUplink, Abandoned, Queue, State, Data
<1>3. /\ Len(cache) \in Nat /\ Len(Data) \in Nat /\ Len(got) \in Nat /\ Len(Queue) = Len(cache) + Len(Data)
      /\ SubSeq(Queue, 1, Len(cache)) = cache /\ SubSeq(Queue, Len(cache) + 1, Len(Queue)) = Data
  BY <1>1, <1>2, Parts, LenProperties
<1>4. <<>> \o Data = Data /\ Len(<<>>) = 0
  BY <1>1, ConcatEmptySeq
<1>5. CASE ReadCache
  <2>1. cache # <<>> /\ got' = got \o cache /\ cache' = <<>> /\ UNCHANGED <<up, ended>>
    BY <1>5 DEF ReadCache
  <2>2. Len(cache) \in 1..Len(Queue) /\ Len(got') = Len(got) + Len(cache)
    BY <1>1, <1>3, <2>1, EmptySeq, ConcatProperties
  <2>3. Queue' = Data /\ State' = State
    BY <1>2, <1>4, <2>1 DEF Data
  <2>4. Uplink!Read(Len(cache))
    BY <1>3, <2>1, <2>2, <2>3 DEF Uplink!Read, Queue, State, Data
  <2>5. Numbered'
    <3>1. Len(cache') = 0 /\ up'.state = up.state /\ Data' = Data /\ sent' = sent
      BY <1>2, <1>4, <2>1 DEF Data
    <3> QED BY <1>2, <1>3, <2>2, <3>1 DEF Numbered
  <2> QED BY <1>3, <2>2, <2>4, <2>5 DEF Uplink!Next, Queue, Data
<1>6. ASSUME NEW n \in 1..Len(up.data), got' = got \o Take(n), up' = Rest(n), UNCHANGED ended, cache = <<>>, cache' = <<>>
      PROVE  Uplink!Next /\ Numbered'
  <2>1. /\ Take(n) \in Seq(1..Chunks) /\ Left(n) \in Seq(1..Chunks) /\ Rest(n).state = up.state
        /\ Len(Take(n)) = n /\ Len(Left(n)) = Len(Data) - n
        /\ Take(n) = SubSeq(Data, 1, n) /\ Left(n) = SubSeq(Data, n + 1, Len(Data))
    BY <1>1, TakeAndRest DEF UpType, Take, Rest, Data, Left
  <2>2. Queue = Data /\ Queue' = Left(n) /\ State' = State
    BY <1>2, <1>4, <1>6, <2>1, ConcatEmptySeq DEF Data, Left
  <2>3. Uplink!Read(n)
    BY <1>6, <2>1, <2>2 DEF Uplink!Read, Queue, State, Data
  <2>4. Len(got') = Len(got) + n
    BY <1>1, <1>6, <2>1, ConcatProperties
  <2>5. Numbered'
    <3>1. up'.state = up.state /\ Len(cache) = 0 /\ Len(cache') = 0 /\ Len(Data') = Len(Data) - n /\ sent' = sent
      BY <1>2, <1>4, <1>6, <2>1 DEF Data, Left
    <3> QED BY <1>2, <1>3, <2>4, <3>1 DEF Numbered
  <2>6. n \in 0..Len(Queue)
    BY <1>3, <2>2 DEF Data
  <2> QED BY <2>3, <2>5, <2>6 DEF Uplink!Next, Queue, Data
<1>7. ASSUME up.data = <<>>, up.state # "open", cache = <<>>, UNCHANGED <<got, up, cache>>, ended = "no",
             ended' = IF up.state = "finished" THEN "eof" ELSE "error"
      PROVE  (Uplink!Next \/ UNCHANGED Uplink!vars) /\ Numbered'
  <2>1. Queue = <<>> /\ UNCHANGED <<Queue, State>> /\ Numbered'
    BY <1>2, <1>4, <1>7 DEF Numbered, Data, Abandoned, Queue, State
  <2>2. CASE up.state = "finished"
    BY <1>2, <1>7, <2>1, <2>2 DEF Uplink!Next, Uplink!End, Queue, State, Data
  <2>3. CASE up.state # "finished"
    BY <1>7, <2>1, <2>3 DEF Uplink!vars, Queue, State, Data
  <2> QED BY <2>1, <2>2, <2>3
<1>8. CASE ReadUplink
  <2>1. cache = <<>> /\ cache' = <<>> /\ ended = "no"
    BY <1>8 DEF ReadUplink
  <2> QED BY <1>6, <1>7, <1>8, <2>1 DEF ReadUplink
<1> QED BY <1>5, <1>8

\* A step of a connection is a step of its stream, or none.
LEMMA StreamStep ==
    ASSUME TypeOK, ShutInv, Numbered, Next
    PROVE  (Uplink!Next \/ UNCHANGED Uplink!vars) /\ Numbered'
<1>0. UplinkTypes
  BY TypeParts
<1>1. CASE ReadCache \/ ReadUplink \/ ClientWrites
  BY <1>0, <1>1, ReadStep, WriteStep DEF Uplink!Next
<1>2. CASE \E n \in 1..Len(up.data) : CacheData(n)
  BY <1>0, <1>2, CacheStep
<1>3. CASE ~Abandoned /\ UNCHANGED <<got, ended>> /\ (Abandoned' \/ (~Abandoned' /\ up' = Broken /\ cache' = cache))
  <2>1. \E n \in 0..Len(Queue) : Uplink!Break(n)
    BY <1>0, <1>3, LinkBreaks
  <2>2. Numbered'
    BY <1>3 DEF Numbered, Broken
  <2> QED BY <2>1, <2>2 DEF Uplink!Next, Queue, Data
<1>4. CASE UNCHANGED <<cache, sent, got, ended, Abandoned>> /\ (UNCHANGED up \/ Abandoned)
  BY <1>4 DEF Numbered, Uplink!vars, Queue, State, Data
<1>5. CASE /\ ~Abandoned /\ UNCHANGED <<cache, sent, got, ended, Abandoned>>
           /\ up.state = "open" /\ up' = [up EXCEPT !.state = "finished"]
  <2>1. up'.data = up.data /\ up'.state = "finished"
    BY <1>0, <1>5 DEF UplinkTypes, UpType
  <2> QED BY <1>5, <2>1 DEF Numbered, Uplink!Next, Uplink!Finish, Queue, State, Data
<1>6. CASE Refuse \/ HandlerQuits
  <2>1. ~Abandoned /\ Abandoned' /\ UNCHANGED <<got, ended>>
    BY <1>6 DEF Refuse, HandlerQuits, Shut, Goto, Abandoned, history
  <2> QED BY <1>3, <2>1
<1>7. CASE CheckRule \/ CheckProtocol \/ PickHandler
  <2>1. ~Abandoned /\ UNCHANGED <<sent, got, ended>>
    BY <1>7 DEF CheckRule, CheckProtocol, PickHandler, Abandoned, history
  <2>2. CASE Shut
    BY <1>3, <2>1, <2>2 DEF Shut, Goto, Abandoned
  <2>3. CASE ~Shut
    <3>1. ~Abandoned' /\ UNCHANGED <<up, cache>>
      BY <1>7, <2>3 DEF CheckRule, CheckProtocol, PickHandler, Goto, Abandoned, uplink
    <3>2. UNCHANGED Abandoned
      BY <2>1, <3>1 DEF Abandoned
    <3> QED BY <1>4, <2>1, <3>1, <3>2
  <2> QED BY <2>2, <2>3
<1>8. CASE ClientFinishes \/ CloseLink
  <2>1. UNCHANGED <<cache, sent, got, ended, Abandoned>>
    BY <1>8 DEF ClientFinishes, CloseLink, Abandoned, history
  <2>2. UNCHANGED up \/ (up.state = "open" /\ up' = [up EXCEPT !.state = "finished"])
    BY <1>8 DEF ClientFinishes, CloseLink
  <2> QED BY <1>4, <1>5, <2>1, <2>2
<1>9. CASE InterruptLink
  <2>1. UNCHANGED <<cache, sent, got, ended, Abandoned>> /\ up' = Broken
    BY <1>9 DEF InterruptLink, Abandoned, history
  <2> QED BY <1>3, <1>4, <2>1
<1>10. CASE Admit \/ SniffMetadata \/ CacheTimeout \/ CacheFails \/ Look \/ FindRules \/ FindProtocols \/ Cancelled
  <2>1. UNCHANGED <<up, cache, sent, got, ended>>
    BY <1>10 DEF Admit, SniffMetadata, CacheTimeout, CacheFails, Look, FindRules, FindProtocols, Cancelled, uplink, history
  <2>2. place \notin {"refused", "shut"} /\ place' \notin {"refused", "shut"}
    BY <1>10 DEF Admit, SniffMetadata, CacheTimeout, CacheFails, Look, FindRules, FindProtocols, Cancelled, Conclude,
                 TryAgain, Goto
  <2>3. UNCHANGED Abandoned
    BY <2>2 DEF Abandoned
  <2> QED BY <1>4, <2>1, <2>3
<1>11. CASE DeleteLimiter \/ PublishRules \/ FillRule \/ EndUpdate
  BY <1>4, <1>11 DEF DeleteLimiter, PublishRules, FillRule, EndUpdate, Abandoned, uplink, history
<1> QED BY <1>1, <1>2, <1>6, <1>7, <1>8, <1>9, <1>10, <1>11 DEF Next, Connection, Others

\* What the handler reads through sniffing, cutting and closing is the stream
\* that the client wrote: in order, each chunk once, the end after the last.
THEOREM ImplementsStreamAlways == Spec => ImplementsStream
<1> DEFINE Inv == TypeOK /\ SameLength /\ ShutInv /\ Numbered
<1>1. Init => Inv /\ Uplink!Init
  <2>1. SUFFICES ASSUME Init PROVE ShutInv /\ Numbered /\ Uplink!Init
    BY InitTypes
  <2>2. up.data = <<>> /\ cache = <<>> /\ got = <<>> /\ sent = 0 /\ up.state = "open" /\ ~Abandoned /\ ended = "no" /\ place = "new"
    BY <2>1 DEF Init, Abandoned
  <2>3. ShutInv
    BY <2>2 DEF ShutInv
  <2>4. Numbered
    BY <2>2, EmptySeq DEF Numbered, Data
  <2>5. Uplink!Init
    BY <2>2 DEF Uplink!Init
  <2> QED BY <2>3, <2>4, <2>5
<1>2. Inv /\ [Next]_vars => Inv' /\ [Uplink!Next]_(Uplink!vars)
  <2>1. SUFFICES ASSUME Inv, [Next]_vars PROVE Inv' /\ [Uplink!Next]_(Uplink!vars)
    OBVIOUS
  <2>2. CASE Next
    BY <2>1, <2>2, StepTypes, SameLengthKept, ShutInvKept, StreamStep, TypeParts
  <2>3. CASE UNCHANGED vars
    BY <2>1, <2>3, Stutters, StutterTypes DEF SameLength, ShutInv, Abandoned, Broken, Numbered, Data, Uplink!vars
  <2> QED BY <2>1, <2>2, <2>3
<1> QED BY <1>1, <1>2, PTL DEF Spec, ImplementsStream, Uplink!Spec
=============================================================================
