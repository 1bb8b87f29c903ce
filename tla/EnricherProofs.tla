--------------------------- MODULE EnricherProofs ---------------------------
(***************************************************************************)
(* Proofs about Enricher, the DNS names in both builds of the agent: type  *)
(* correctness, the account of every name that was heard, and that on      *)
(* Windows the names sent for an address come from one state of the cache. *)
(***************************************************************************)
EXTENDS Enricher, TLAPS

USE IpEnricherAssumption, EnricherAssumption

-----------------------------------------------------------------------------
(* Sequences of maps.                                                      *)

Maps == MapId \cup {Nil}

LEMMA NoMaps == ToSet(<<>>) = {}
BY DEF ToSet

LEMMA MapsOfAppend ==
    ASSUME NEW s \in Seq(Maps), NEW m \in Maps
    PROVE  ToSet(Append(s, m)) = ToSet(s) \cup {m}
<1>1. /\ DOMAIN s = 1 .. Len(s) /\ Len(s) \in Nat
      /\ DOMAIN Append(s, m) = 1 .. (Len(s) + 1)
      /\ Append(s, m)[Len(s) + 1] = m
      /\ \A i \in 1 .. Len(s) : Append(s, m)[i] = s[i]
  OBVIOUS
<1>2. \A i : i \in 1 .. (Len(s) + 1) <=> i \in 1 .. Len(s) \/ i = Len(s) + 1
  BY <1>1
<1> QED
  BY <1>1, <1>2 DEF ToSet

LEMMA MapsOfTail ==
    ASSUME NEW s \in Seq(Maps), s # <<>>
    PROVE  /\ Tail(s) \in Seq(Maps)
           /\ s[1] \in Maps
           /\ ToSet(s) = {s[1]} \cup ToSet(Tail(s))
           /\ Len(s) = 1 => Tail(s) = <<>>
           /\ Len(s) > 1 => Tail(s) # <<>> /\ Tail(s)[1] = s[2] /\ s[2] \in Maps
<1>1. /\ DOMAIN s = 1 .. Len(s) /\ Len(s) \in Nat /\ Len(s) >= 1
      /\ Tail(s) \in Seq(Maps)
      /\ Len(Tail(s)) = Len(s) - 1 /\ DOMAIN Tail(s) = 1 .. (Len(s) - 1)
      /\ \A i \in 1 .. (Len(s) - 1) : Tail(s)[i] = s[i + 1]
      /\ \A i \in 1 .. Len(s) : s[i] \in Maps
  OBVIOUS
<1>2. \A i \in 1 .. Len(s) : i = 1 \/ (i - 1 \in 1 .. (Len(s) - 1) /\ Tail(s)[i - 1] = s[i])
  BY <1>1
<1>3. \A i \in 1 .. (Len(s) - 1) : i + 1 \in 1 .. Len(s)
  BY <1>1
<1>4. ToSet(s) = {s[1]} \cup ToSet(Tail(s))
  <2>0. ToSet(s) = {s[i] : i \in 1 .. Len(s)} /\ ToSet(Tail(s)) = {Tail(s)[i] : i \in 1 .. (Len(s) - 1)}
    BY <1>1 DEF ToSet
  <2>1. ASSUME NEW m \in ToSet(s) PROVE m \in {s[1]} \cup ToSet(Tail(s))
    <3>1. PICK i \in 1 .. Len(s) : m = s[i]
      BY <2>0, <2>1
    <3>2. CASE i = 1
      BY <3>1, <3>2
    <3>3. CASE i # 1
      <4>1. i - 1 \in 1 .. (Len(s) - 1) /\ Tail(s)[i - 1] = m
        BY <1>2, <3>1, <3>3
      <4> QED
        BY <2>0, <4>1
    <3> QED
      BY <3>2, <3>3
  <2>2. ASSUME NEW m \in {s[1]} \cup ToSet(Tail(s)) PROVE m \in ToSet(s)
    <3>1. CASE m = s[1]
      BY <1>1, <2>0, <3>1
    <3>2. CASE m \in ToSet(Tail(s))
      BY <1>1, <1>3, <2>0, <3>2
    <3> QED
      BY <2>2, <3>1, <3>2
  <2> QED
    BY <2>1, <2>2
<1>5. ASSUME Len(s) > 1 PROVE Tail(s) # <<>> /\ Tail(s)[1] = s[2] /\ s[2] \in Maps
  <2>1. Tail(s) # <<>>
    <3>1. Len(<<>>) = 0 /\ Len(Tail(s)) # 0
      BY <1>1, <1>5
    <3> QED
      BY <3>1
  <2>2. 1 \in 1 .. (Len(s) - 1) /\ 1 + 1 = 2
    BY <1>1, <1>5
  <2>3. Tail(s)[1] = s[1 + 1] /\ 1 + 1 \in 1 .. Len(s)
    BY <1>1, <1>3, <2>2
  <2>4. s[2] \in Maps
    BY <1>1, <2>2, <2>3
  <2> QED
    BY <2>1, <2>2, <2>3, <2>4
<1>6. Len(s) = 1 => Tail(s) = <<>>
  BY <1>1
<1> QED
  BY <1>1, <1>4, <1>5, <1>6

\* A fresh identity is a map that nothing refers to.
LEMMA FreshMap == ASSUME Unused # {} PROVE NewMap \in MapId /\ NewMap \notin InUse /\ NewMap # Nil
BY DEF Unused, NewMap

-----------------------------------------------------------------------------
(* Type correctness.  A range over a map goes on only while there is one.  *)

Ranges == todo # {} => batch # <<>> /\ batch[1] \in MapId

Adds == spc = "add" => ipMap \in MapId

TypeInv == BuildTypeOK /\ Ranges /\ Adds

LEMMA TypeInit == BuildInit => TypeInv
<1>1. (CHOOSE n \in Name : TRUE) \in Name
  OBVIOUS
<1> QED
  BY <1>1 DEF BuildInit, Init, TypeInv, BuildTypeOK, TypeOK, NoNames, Pair, Ranges, Adds

LEMMA MergedNames ==
    ASSUME NEW c \in Caches, NEW last \in LastAlias(c), NEW ip \in Ip
    PROVE  Merged(c, last, ip) \subseteq Name
<1>1. Direct(c, ip) \subseteq Name
  BY DEF Direct
<1>2. \A n \in Name : last[n] \subseteq Name
  <2>1. last \in [Name -> SUBSET Name]
    BY DEF LastAlias
  <2> QED
    BY <2>1
<1>3. UNION {last[n] : n \in Direct(c, ip)} \subseteq Name
  BY <1>1, <1>2
<1> QED
  BY <1>1, <1>3 DEF Merged

LEMMA EntriesAreIps ==
    ASSUME NEW m PROVE Entries(m) \subseteq Ip /\ (Entries(m) # {} => m # Nil)
BY DEF Entries

LEMMA SyncTypes == ASSUME TypeInv, SyncStep PROVE TypeInv'
<1>1. CASE Store
  BY <1>1 DEF Store, SyncStep, TypeInv, BuildTypeOK, TypeOK, Ranges, Adds, runVars, gateVars
<1>2. ASSUME NEW ip \in Ip, Add(ip) PROVE TypeInv'
  <2>1. /\ UNCHANGED <<current, ipMap, answers, rpc, taken, items, gpc, batch, message,
                       sent, lost, windows, events, read>>
        /\ ipMap \in MapId
        /\ answer \in [name : Name, ips : SUBSET Ip]
    BY <1>2 DEF Add, SyncStep, TypeInv, BuildTypeOK, TypeOK, Adds, runVars, gateVars
  <2>6. todo' \subseteq Ip /\ Ranges'
    BY <1>2, <2>1 DEF Add, MayVisit, TypeInv, BuildTypeOK, TypeOK, Ranges
  <2>2. names' \in [MapId -> [Ip -> SUBSET Name]]
    <3>1. names[ipMap] \in [Ip -> SUBSET Name]
      BY <2>1 DEF TypeInv, BuildTypeOK, TypeOK
    <3>2. [names[ipMap] EXCEPT ![ip] = @ \cup {answer.name}] \in [Ip -> SUBSET Name]
      BY <2>1, <3>1
    <3>3. names' = [names EXCEPT ![ipMap] = [names[ipMap] EXCEPT ![ip] = @ \cup {answer.name}]]
      BY <1>2 DEF Add
    <3> QED
      BY <2>1, <3>2, <3>3 DEF TypeInv, BuildTypeOK, TypeOK
  <2>3. answer' \in [name : Name, ips : SUBSET Ip]
    BY <1>2, <2>1 DEF Add
  <2>4. seen' \subseteq Pair
    BY <1>2, <2>1 DEF Add, Pair, TypeInv, BuildTypeOK, TypeOK
  <2>5. spc' \in {"add", "store"}
    BY <1>2 DEF Add
  <2> QED
    BY <2>1, <2>2, <2>3, <2>4, <2>5, <2>6 DEF TypeInv, BuildTypeOK, TypeOK, Adds
<1> QED
  BY <1>1, <1>2 DEF SyncStep, Sync

LEMMA PairsTyped == ASSUME NEW m PROVE Pairs(m) \subseteq Pair
BY DEF Pairs, PairsOf

LEMMA RunTypes == ASSUME TypeInv, RunStep PROVE TypeInv'
<1>1. CASE Clear /\ UNCHANGED <<windows, events, read>>
  <2>1. lost' \subseteq Pair
    BY <1>1, PairsTyped DEF Clear, TypeInv, BuildTypeOK, TypeOK
  <2> QED
    BY <1>1, <2>1 DEF Clear, TypeInv, BuildTypeOK, TypeOK, Ranges, Adds, syncVars, gateVars
<1>2. CASE SendOn /\ UNCHANGED <<windows, events, read>>
  <2>1. items \in Seq(Maps) /\ taken \in Maps /\ Len(items) < MaxItems
    BY <1>2 DEF SendOn, TypeInv, BuildTypeOK, TypeOK, Maps
  <2>2. items' \in Seq(Maps) /\ Len(items') <= MaxItems
    BY <1>2, <2>1 DEF SendOn
  <2> QED
    BY <1>2, <2>2
       DEF SendOn, TypeInv, BuildTypeOK, TypeOK, Ranges, Adds, syncVars, gateVars, Maps
<1>3. ASSUME NEW ip \in Ip, LookUp(ip), UNCHANGED windows PROVE TypeInv'
  <2> DEFINE services == IF current = Nil THEN {} ELSE names[current][ip]
  <2>1. /\ UNCHANGED <<current, spc, ipMap, answer, answers, items, gpc, batch, todo, message,
                       sent, lost, read, windows>>
        /\ events' = events \ {ip}
        /\ seen' = seen \cup ({ip} \X services)
        /\ rpc' \in {"send", "lookup"}
    BY <1>3 DEF LookUp, syncVars, gateVars
  <2>2. services \subseteq Name
    BY DEF TypeInv, BuildTypeOK, TypeOK
  <2>3. names' \in [MapId -> [Ip -> SUBSET Name]] /\ taken' \in Maps
    <3>1. CASE UNCHANGED <<names, taken>>
      BY <3>1 DEF TypeInv, BuildTypeOK, TypeOK, Maps
    <3>2. CASE taken = Nil /\ Unused # {} /\ taken' = NewMap
               /\ names' = [names EXCEPT ![taken'] = [NoNames EXCEPT ![ip] = services]]
      <4>1. [NoNames EXCEPT ![ip] = services] \in [Ip -> SUBSET Name]
        BY <2>2 DEF NoNames
      <4> QED
        BY <3>2, <4>1, FreshMap DEF TypeInv, BuildTypeOK, TypeOK, Maps
    <3>3. CASE taken # Nil /\ taken' = taken
               /\ names' = [names EXCEPT ![taken] = [names[taken] EXCEPT ![ip] = services]]
      <4>1. taken \in MapId
        BY <3>3 DEF TypeInv, BuildTypeOK, TypeOK
      <4>2. [names[taken] EXCEPT ![ip] = services] \in [Ip -> SUBSET Name]
        BY <2>2, <4>1 DEF TypeInv, BuildTypeOK, TypeOK
      <4> QED
        BY <3>3, <4>1, <4>2 DEF TypeInv, BuildTypeOK, TypeOK, Maps
    <3> QED
      BY <1>3, <3>1, <3>2, <3>3 DEF LookUp
  <2>4. seen' \subseteq Pair
    BY <2>1, <2>2 DEF Pair, TypeInv, BuildTypeOK, TypeOK
  <2> QED
    BY <2>1, <2>3, <2>4 DEF TypeInv, BuildTypeOK, TypeOK, Ranges, Adds, Maps
<1> QED
  BY <1>1, <1>2, <1>3 DEF RunStep, Run

LEMMA GatewayTypes == ASSUME TypeInv, GatewayStep PROVE TypeInv'
<1>1. /\ UNCHANGED <<names, current, spc, ipMap, answer, answers, rpc, taken, seen>>
      /\ UNCHANGED <<windows, events, read>>
  BY DEF GatewayStep, Gateway, TakeBatch, NextContainer, PostMessage, MergeEntry, syncVars, runVars
<1>2. CASE TakeBatch
  <2>1. items \in Seq(Maps) /\ items # <<>> /\ items[1] \in Maps
    BY <1>2, MapsOfTail DEF TakeBatch, TypeInv, BuildTypeOK, TypeOK, Maps
  <2> QED
    BY <1>1, <1>2, <2>1, EntriesAreIps
       DEF TakeBatch, TypeInv, BuildTypeOK, TypeOK, Ranges, Adds, NoNames, Maps
<1>3. ASSUME NEW ip \in Ip, MergeEntry(ip) PROVE TypeInv'
  <2>1. names[batch[1]][ip] \subseteq Name
    BY <1>3 DEF MergeEntry, TypeInv, BuildTypeOK, TypeOK, Ranges
  <2>2. message' \in [Ip -> SUBSET Name] /\ lost' \subseteq Pair /\ todo' \subseteq todo
    BY <1>3, <2>1 DEF MergeEntry, PairsOf, TypeInv, BuildTypeOK, TypeOK
  <2> QED
    BY <1>1, <1>3, <2>2 DEF MergeEntry, TypeInv, BuildTypeOK, TypeOK, Ranges, Adds
<1>4. CASE NextContainer
  <2>1. batch \in Seq(Maps) /\ batch # <<>>
    <3>1. batch \in Seq(Maps)
      BY DEF TypeInv, BuildTypeOK, TypeOK, Maps
    <3>2. Len(batch) >= 1
      BY <1>4 DEF NextContainer
    <3> QED
      BY <3>1, <3>2
  <2> QED
    BY <1>1, <1>4, <2>1, MapsOfTail, EntriesAreIps
       DEF NextContainer, TypeInv, BuildTypeOK, TypeOK, Ranges, Adds, Maps
<1>5. CASE PostMessage
  <2>1. PairsOf(message) \subseteq Pair
    BY DEF PairsOf
  <2> QED
    BY <1>1, <1>5, <2>1
       DEF PostMessage, TypeInv, BuildTypeOK, TypeOK, Ranges, Adds, NoNames
<1> QED
  BY <1>2, <1>3, <1>4, <1>5 DEF GatewayStep, Gateway

LEMMA LinuxTypes ==
    ASSUME TypeInv, LinuxNext, UNCHANGED <<windows, events, read>> PROVE TypeInv'
<1>1. ASSUME NEW name \in Name, NEW ips \in SUBSET Ip \ {{}}, Hear(name, ips) PROVE TypeInv'
  <2>1. /\ UNCHANGED <<current, rpc, taken, items, gpc, batch, todo, message, seen, sent, lost>>
        /\ answers < MaxAnswers /\ answers' = answers + 1
        /\ answer' = [name |-> name, ips |-> ips]
        /\ spc' = "add"
    BY <1>1 DEF Hear, Listen, runVars, gateVars
  <2>2. answers' \in 0 .. MaxAnswers
    BY <2>1 DEF TypeInv, BuildTypeOK, TypeOK
  <2>3. ipMap' \in MapId /\ names' \in [MapId -> [Ip -> SUBSET Name]]
    <3>1. CASE Make
      <4>1. NoNames \in [Ip -> SUBSET Name]
        BY DEF NoNames
      <4> QED
        BY <3>1, <4>1, FreshMap DEF Make, TypeInv, BuildTypeOK, TypeOK
    <3>2. CASE current # Nil /\ ipMap' = current /\ UNCHANGED names
      BY <3>2 DEF TypeInv, BuildTypeOK, TypeOK
    <3> QED
      BY <1>1, <3>1, <3>2 DEF Hear
  <2> QED
    BY <2>1, <2>2, <2>3 DEF TypeInv, BuildTypeOK, TypeOK, Ranges, Adds
<1>2. CASE Take
  BY <1>2 DEF Take, TypeInv, BuildTypeOK, TypeOK, Ranges, Adds, syncVars, gateVars
<1>3. CASE Fault
  <2>1. NoNames \in [Ip -> SUBSET Name]
    BY DEF NoNames
  <2>2. /\ names' \in [MapId -> [Ip -> SUBSET Name]] /\ message' \in [Ip -> SUBSET Name]
        /\ current' = Nil /\ ipMap' = Nil /\ taken' = Nil
        /\ items' = <<>> /\ batch' = <<>> /\ todo' = {}
        /\ spc' = "listen" /\ rpc' = "receive" /\ gpc' = "receive"
    BY <1>3, <2>1 DEF Fault
  <2>3. answer' = [answer EXCEPT !.ips = {}] /\ lost' = lost \cup (seen \ sent)
        /\ UNCHANGED <<answers, seen, sent>>
    BY <1>3 DEF Fault
  <2> QED
    BY <2>2, <2>3 DEF TypeInv, BuildTypeOK, TypeOK, Ranges, Adds
<1> QED
  BY <1>1, <1>2, <1>3 DEF LinuxNext

LEMMA WindowsTypes ==
    ASSUME TypeInv, WindowsNext, UNCHANGED windows PROVE TypeInv'
<1>1. ASSUME NEW c \in Caches, ReadCache(c) PROVE TypeInv'
  <2>1. /\ UNCHANGED <<current, answer, rpc, taken, items, gpc, batch, todo, message, seen, sent,
                       lost, events>>
        /\ answers < MaxAnswers /\ answers' = answers + 1
        /\ read' = read \cup {c}
        /\ ipMap' = NewMap /\ Unused # {}
        /\ spc' = "store"
    BY <1>1 DEF ReadCache, runVars, gateVars
  <2>2. answers' \in 0 .. MaxAnswers
    BY <2>1 DEF TypeInv, BuildTypeOK, TypeOK
  <2>3. names' \in [MapId -> [Ip -> SUBSET Name]]
    <3>1. PICK last \in LastAlias(c) :
             names' = [names EXCEPT ![NewMap] = [ip \in Ip |-> Merged(c, last, ip)]]
      BY <1>1 DEF ReadCache
    <3>2. [ip \in Ip |-> Merged(c, last, ip)] \in [Ip -> SUBSET Name]
      BY MergedNames
    <3> QED
      BY <3>1, <3>2 DEF TypeInv, BuildTypeOK, TypeOK
  <2> QED
    BY <2>1, <2>2, <2>3, FreshMap DEF TypeInv, BuildTypeOK, TypeOK, Ranges, Adds
<1>2. ASSUME NEW ips \in SUBSET Ip, Receive(ips) PROVE TypeInv'
  BY <1>2 DEF Receive, TypeInv, BuildTypeOK, TypeOK, Ranges, Adds, syncVars, gateVars
<1> QED
  BY <1>1, <1>2 DEF WindowsNext

LEMMA TypeStep == TypeInv /\ [Next]_buildVars => TypeInv'
<1>1. ASSUME TypeInv, UNCHANGED buildVars PROVE TypeInv'
  BY <1>1 DEF buildVars, vars, syncVars, runVars, gateVars, TypeInv, BuildTypeOK, TypeOK, Ranges,
              Adds
<1> QED
  BY <1>1, SyncTypes, RunTypes, GatewayTypes, LinuxTypes, WindowsTypes DEF Next

\* Every variable of the enricher, in both builds, the queue and the gateway
\* holds a value of its type (ip_enricher.go:14-75, ip_enricher_linux.go:70-150,
\* ip_enricher_windows.go).
THEOREM BuildTypeCorrect == Spec => []BuildTypeOK
<1>1. TypeInv => BuildTypeOK
  BY DEF TypeInv
<1> QED
  BY <1>1, TypeInit, TypeStep, PTL DEF Spec

-----------------------------------------------------------------------------
(* The account of the names.  What a map holds that the gateway is ranging *)
(* over must be in a place that outlives the range: in the message, in a   *)
(* later container, or with a goroutine that will hand it over again.      *)

PairsIn(ms) == UNION {Pairs(m) : m \in ms}

\* The maps that are still to come down to the gateway.  What Sync publishes
\* on Windows does not: Run copies names out of it.
Held == (IF windows THEN {} ELSE {current, ipMap}) \cup {taken} \cup ToSet(items)

First == IF batch = <<>> THEN Nil ELSE batch[1]
Behind == IF batch = <<>> THEN {} ELSE ToSet(Tail(batch))

Done == sent \cup lost \cup PairsOf(message)

Accounted == seen \subseteq Done \cup PairsIn(Held) \cup PairsIn(Behind) \cup Pairs(First)

\* What the range has passed.
Ranged == \A p \in Pairs(First) : p[1] \in todo \/ p \in Done \cup PairsIn(Held) \cup PairsIn(Behind)

Stages == /\ gpc # "range" => batch = <<>>
          /\ gpc = "receive" => message = NoNames
          /\ rpc = "receive" => taken = Nil
          /\ spc = "listen" => ipMap = Nil
          /\ windows => spc # "add" /\ rpc # "clear"
          /\ ~windows => /\ rpc # "lookup"
                         /\ spc # "listen" => ipMap # Nil /\ current \in {Nil, ipMap}
          /\ rpc = "lookup" /\ taken # Nil => \A ip \in events : names[taken][ip] = {}

AccountInv == Accounted /\ Ranged /\ Stages

LEMMA AccountInit == BuildInit => AccountInv
BY DEF BuildInit, Init, AccountInv, Accounted, Ranged, Stages, First, Pairs

LEMMA AccountedInUse == AccountInv /\ TypeInv => NamesAccounted
<1> SUFFICES ASSUME AccountInv, TypeInv, NEW p \in seen
             PROVE  p \in sent \cup lost \cup PairsOf(message) \cup UNION {Pairs(m) : m \in InUse}
  BY DEF NamesAccounted
<1>1. batch # <<>> => ToSet(batch) = {First} \cup Behind
  BY MapsOfTail DEF First, Behind, TypeInv, BuildTypeOK, TypeOK, Maps
<1>2. Held \subseteq InUse /\ Behind \subseteq InUse
  BY <1>1 DEF Held, Behind, InUse
<1>3. Pairs(First) \subseteq UNION {Pairs(m) : m \in InUse}
  BY <1>1 DEF First, InUse, Pairs
<1> QED
  BY <1>2, <1>3 DEF AccountInv, Accounted, PairsIn, Done

\* A step that takes no address from the range of the gateway, though it may
\* add one, keeps the account when nothing disappears from the maps that are held but to the lost ones, and
\* what is added to a map of the batch is held, too.
LEMMA RangeUntouched ==
    ASSUME AccountInv, TypeInv,
           UNCHANGED <<batch, message>>, todo \subseteq todo',
           sent \subseteq sent', lost \subseteq lost',
           PairsIn(Held) \subseteq lost' \cup PairsIn(Held)',
           \A m \in ToSet(batch) : Pairs(m) \subseteq Pairs(m)',
           \A m \in ToSet(batch) : Pairs(m)' \subseteq Pairs(m) \cup PairsIn(Held)',
           seen' \subseteq seen \cup PairsIn(Held)' \cup lost'
    PROVE  Accounted' /\ Ranged'
<1>1. First' = First /\ Behind' = Behind /\ Done \subseteq Done'
  BY DEF First, Behind, Done
<1>2. batch # <<>> => ToSet(batch) = {First} \cup Behind
  BY MapsOfTail DEF First, Behind, TypeInv, BuildTypeOK, TypeOK, Maps
<1>3. Pairs(First) \subseteq Pairs(First)' /\ Pairs(First)' \subseteq Pairs(First) \cup PairsIn(Held)'
  BY <1>1, <1>2 DEF First, Pairs
<1>4. PairsIn(Behind) \subseteq PairsIn(Behind)'
  <2>1. \A m \in Behind : Pairs(m) \subseteq Pairs(m)'
    BY <1>2 DEF Behind
  <2> QED
    BY <1>1, <2>1 DEF PairsIn
<1>5. lost' \subseteq Done'
  BY DEF Done
<1>6. Accounted'
  BY <1>1, <1>3, <1>4, <1>5 DEF AccountInv, Accounted
<1>7. Ranged'
  BY <1>1, <1>3, <1>4, <1>5 DEF AccountInv, Ranged
<1> QED
  BY <1>6, <1>7

LEMMA StoreAccounts ==
    ASSUME AccountInv, TypeInv, Store, UNCHANGED <<windows, events, read>> PROVE AccountInv'
<1>1. /\ spc = "store" /\ current' = ipMap /\ ipMap' = Nil /\ spc' = "listen"
      /\ UNCHANGED <<names, rpc, taken, items, gpc, batch, todo, message, seen, sent, lost>>
  BY DEF Store, runVars, gateVars
<1>2. \A m : Pairs(m)' = Pairs(m)
  BY <1>1 DEF Pairs
<1>3. PairsIn(Held) \subseteq PairsIn(Held)'
  <2>1. Held \subseteq Held' \cup {Nil}
    BY <1>1 DEF Held, AccountInv, Stages
  <2> QED
    BY <1>2, <2>1 DEF PairsIn, Pairs
<1>4. Accounted' /\ Ranged'
  BY <1>1, <1>2, <1>3, RangeUntouched
<1> QED
  BY <1>1, <1>4 DEF AccountInv, Stages

LEMMA AddAccounts ==
    ASSUME AccountInv, TypeInv, NEW ip \in Ip, Add(ip), UNCHANGED <<windows, events, read>>
    PROVE  AccountInv'
<1>1. /\ UNCHANGED <<current, ipMap, rpc, taken, items, gpc, batch, message, sent, lost>>
      /\ todo \subseteq todo'
      /\ spc = "add" /\ spc' \in {"add", "store"}
      /\ ~windows /\ ipMap \in MapId /\ ipMap # Nil
      /\ names' = [names EXCEPT ![ipMap] = [names[ipMap] EXCEPT ![ip] = @ \cup {answer.name}]]
      /\ seen' = seen \cup {<<ip, answer.name>>}
      /\ answer.name \in Name
  BY DEF Add, AccountInv, Stages, TypeInv, BuildTypeOK, TypeOK, Adds, runVars, gateVars
<1>k. PICK k \in MapId : k = ipMap
  BY <1>1
<1>2. /\ names'[k] = [names[k] EXCEPT ![ip] = @ \cup {answer.name}]
      /\ \A m \in MapId : m # k => names'[m] = names[m]
      /\ names[k] \in [Ip -> SUBSET Name]
  BY <1>1, <1>k DEF TypeInv, BuildTypeOK, TypeOK
<1>3. names'[k][ip] = names[k][ip] \cup {answer.name}
      /\ \A j \in Ip : j # ip => names'[k][j] = names[k][j]
  BY <1>2
<1>4. Pairs(k)' = Pairs(k) \cup {<<ip, answer.name>>}
  <2>1. Pairs(k)' = {p \in Pair : p[2] \in names'[k][p[1]]}
    BY <1>1, <1>k DEF Pairs, PairsOf
  <2>2. Pairs(k) = {p \in Pair : p[2] \in names[k][p[1]]}
    BY <1>1, <1>k DEF Pairs, PairsOf
  <2>3. ASSUME NEW p \in Pair
        PROVE  p[2] \in names'[k][p[1]] <=> p[2] \in names[k][p[1]] \/ p = <<ip, answer.name>>
    BY <1>1, <1>3 DEF Pair
  <2>4. <<ip, answer.name>> \in Pair
    BY <1>1 DEF Pair
  <2> QED
    BY <2>1, <2>2, <2>3, <2>4
<1>5. \A m \in Maps : m # k => Pairs(m)' = Pairs(m)
  BY <1>2 DEF Pairs, Maps
<1>6. \A m \in Maps : Pairs(m) \subseteq Pairs(m)'
  BY <1>4, <1>5
<1>7. Held' = Held /\ k \in Held /\ Held \subseteq Maps
  BY <1>1, <1>k DEF Held, TypeInv, BuildTypeOK, TypeOK, Maps, ToSet
<1>8. PairsIn(Held) \subseteq PairsIn(Held)' /\ Pairs(k)' \subseteq PairsIn(Held)'
  BY <1>6, <1>7 DEF PairsIn
<1>9. ToSet(batch) \subseteq Maps
  BY DEF TypeInv, BuildTypeOK, TypeOK, Maps, ToSet
<1>10. Accounted' /\ Ranged'
  <2>1. seen' \subseteq seen \cup PairsIn(Held)'
    BY <1>1, <1>4, <1>8
  <2>2. \A m \in ToSet(batch) : Pairs(m)' \subseteq Pairs(m) \cup PairsIn(Held)'
    BY <1>5, <1>8, <1>9
  <2> QED
    BY <1>1, <1>6, <1>8, <1>9, <2>1, <2>2, RangeUntouched
<1> QED
  BY <1>1, <1>10 DEF AccountInv, Stages

LEMMA ClearAccounts ==
    ASSUME AccountInv, TypeInv, Clear, UNCHANGED <<windows, events, read>> PROVE AccountInv'
<1>1. /\ current' = Nil /\ rpc = "clear" /\ rpc' = "send" /\ ~windows
      /\ lost' = IF current \in {taken, ipMap} THEN lost ELSE lost \cup Pairs(current)
      /\ UNCHANGED <<names, spc, ipMap, taken, items, gpc, batch, todo, message, seen, sent>>
  BY DEF Clear, AccountInv, Stages, TypeInv, BuildTypeOK, TypeOK, syncVars, gateVars
<1>2. \A m : Pairs(m)' = Pairs(m)
  BY <1>1 DEF Pairs
<1>3. Held \subseteq Held' \cup {current} /\ (current \in {taken, ipMap} => Held \subseteq Held')
  BY <1>1 DEF Held
<1>4. PairsIn(Held) \subseteq lost' \cup PairsIn(Held)'
  BY <1>1, <1>2, <1>3 DEF PairsIn
<1>5. Accounted' /\ Ranged'
  BY <1>1, <1>2, <1>4, RangeUntouched
<1> QED
  BY <1>1, <1>5 DEF AccountInv, Stages

LEMMA SendOnAccounts ==
    ASSUME AccountInv, TypeInv, SendOn, UNCHANGED <<windows, events, read>> PROVE AccountInv'
<1>1. /\ items' = Append(items, taken) /\ taken' = Nil /\ rpc = "send" /\ rpc' = "receive"
      /\ UNCHANGED <<names, current, spc, ipMap, gpc, batch, todo, message, seen, sent, lost>>
  BY DEF SendOn, syncVars, gateVars
<1>2. \A m : Pairs(m)' = Pairs(m)
  BY <1>1 DEF Pairs
<1>3. ToSet(items') = ToSet(items) \cup {taken}
  BY <1>1, MapsOfAppend DEF TypeInv, BuildTypeOK, TypeOK, Maps
<1>4. PairsIn(Held) \subseteq PairsIn(Held)'
  BY <1>1, <1>2, <1>3 DEF PairsIn, Held
<1>5. Accounted' /\ Ranged'
  BY <1>1, <1>2, <1>4, RangeUntouched
<1> QED
  BY <1>1, <1>5 DEF AccountInv, Stages

LEMMA LookUpAccounts ==
    ASSUME AccountInv, TypeInv, NEW ip \in Ip, LookUp(ip), UNCHANGED windows PROVE AccountInv'
<1> DEFINE services == IF current = Nil THEN {} ELSE names[current][ip]
<1>1. /\ UNCHANGED <<current, spc, ipMap, items, gpc, batch, todo, message, sent, lost>>
      /\ rpc = "lookup" /\ ip \in events /\ windows
      /\ events' = events \ {ip}
      /\ seen' = seen \cup ({ip} \X services)
      /\ rpc' \in {"send", "lookup"}
  BY DEF LookUp, AccountInv, Stages, syncVars, gateVars, TypeInv, BuildTypeOK, TypeOK
<1>2. services \subseteq Name
  BY DEF TypeInv, BuildTypeOK, TypeOK
<1>3. CASE services = {} /\ UNCHANGED <<names, taken>>
  <2>1. Held' = Held /\ seen' = seen /\ \A m : Pairs(m)' = Pairs(m)
    BY <1>1, <1>3 DEF Held, Pairs
  <2>2. PairsIn(Held) \subseteq PairsIn(Held)'
    BY <2>1 DEF PairsIn
  <2>3. Accounted' /\ Ranged'
    BY <1>1, <2>1, <2>2, RangeUntouched
  <2>4. Stages'
    BY <1>1, <1>3 DEF AccountInv, Stages
  <2> QED
    BY <2>3, <2>4 DEF AccountInv
\* The first names of a container make its map ...
<1>4. CASE services # {} /\ taken = Nil
  <2>1. PICK k \in MapId : k = NewMap /\ k \notin InUse
    BY <1>4, FreshMap DEF LookUp
  <2>2. taken' = k /\ names' = [names EXCEPT ![k] = [NoNames EXCEPT ![ip] = services]]
    BY <1>4, <2>1 DEF LookUp
  <2>3. names'[k] = [NoNames EXCEPT ![ip] = services] /\ \A m \in MapId : m # k => names'[m] = names[m]
    BY <2>2 DEF TypeInv, BuildTypeOK, TypeOK
  <2>4. names'[k][ip] = services /\ \A j \in Ip : j # ip => names'[k][j] = {}
    BY <2>3 DEF NoNames
  <2>5. \A m \in InUse \cup {Nil} : Pairs(m)' = Pairs(m)
    <3>1. InUse \subseteq Maps
      BY DEF InUse, TypeInv, BuildTypeOK, TypeOK, Maps, ToSet
    <3> QED
      BY <2>1, <2>3, <3>1 DEF Pairs, Maps
  <2>6. {ip} \X services \subseteq Pairs(k)'
    <3>1. {ip} \X services \subseteq Pair
      BY <1>2 DEF Pair
    <3>2. \A p \in {ip} \X services : p[2] \in names'[k][p[1]]
      BY <2>4
    <3>3. k # Nil
      BY <2>1
    <3> QED
      BY <3>1, <3>2, <3>3 DEF Pairs, PairsOf
  <2>7. Held = {Nil} \cup ToSet(items) /\ Held' = {k} \cup ToSet(items) /\ Held \subseteq InUse
    BY <1>1, <1>4, <2>2 DEF Held, InUse
  <2>8. PairsIn(Held) \subseteq PairsIn(Held)' /\ Pairs(k)' \subseteq PairsIn(Held)'
    BY <2>5, <2>7 DEF PairsIn, Pairs
  <2>9. seen' \subseteq seen \cup PairsIn(Held)'
    BY <1>1, <2>6, <2>8
  <2>10. Accounted' /\ Ranged'
    BY <1>1, <2>5, <2>8, <2>9, RangeUntouched DEF InUse
  <2>11. Stages'
    <3>1. \A j \in events' : names'[k][j] = {}
      BY <1>1, <2>4 DEF TypeInv, BuildTypeOK, TypeOK
    <3> QED
      BY <1>1, <2>2, <3>1 DEF AccountInv, Stages
  <2> QED
    BY <2>10, <2>11 DEF AccountInv
\* ... and the others are added to it, for an address that has none yet.
<1>5. CASE services # {} /\ taken # Nil
  <2>1. PICK k \in MapId : k = taken
    BY <1>5 DEF TypeInv, BuildTypeOK, TypeOK
  <2>2. taken' = k /\ names' = [names EXCEPT ![k] = [names[k] EXCEPT ![ip] = services]]
    BY <1>5, <2>1 DEF LookUp
  <2>3. /\ names'[k] = [names[k] EXCEPT ![ip] = services]
        /\ \A m \in MapId : m # k => names'[m] = names[m]
        /\ names[k] \in [Ip -> SUBSET Name]
    BY <2>2 DEF TypeInv, BuildTypeOK, TypeOK
  <2>4. names'[k][ip] = services /\ \A j \in Ip : j # ip => names'[k][j] = names[k][j]
    BY <2>3
  <2>5. names[k][ip] = {} /\ k # Nil
    BY <1>1, <2>1 DEF AccountInv, Stages
  <2>6. Pairs(k)' = Pairs(k) \cup ({ip} \X services)
    <3>1. Pairs(k)' = {p \in Pair : p[2] \in names'[k][p[1]]}
      BY <2>5 DEF Pairs, PairsOf
    <3>2. Pairs(k) = {p \in Pair : p[2] \in names[k][p[1]]}
      BY <2>5 DEF Pairs, PairsOf
    <3>3. ASSUME NEW p \in Pair
          PROVE  p[2] \in names'[k][p[1]] <=> p[2] \in names[k][p[1]] \/ p \in {ip} \X services
      BY <2>4, <2>5 DEF Pair
    <3>4. {ip} \X services \subseteq Pair
      BY <1>2 DEF Pair
    <3> QED
      BY <3>1, <3>2, <3>3, <3>4
  <2>7. \A m \in Maps : m # k => Pairs(m)' = Pairs(m)
    BY <2>3 DEF Pairs, Maps
  <2>8. \A m \in Maps : Pairs(m) \subseteq Pairs(m)'
    BY <2>6, <2>7
  <2>9. Held' = Held /\ k \in Held /\ Held \subseteq Maps /\ ToSet(batch) \subseteq Maps
    BY <1>1, <2>1, <2>2 DEF Held, TypeInv, BuildTypeOK, TypeOK, Maps, ToSet
  <2>10. PairsIn(Held) \subseteq PairsIn(Held)' /\ Pairs(k)' \subseteq PairsIn(Held)'
    BY <2>8, <2>9 DEF PairsIn
  <2>11. seen' \subseteq seen \cup PairsIn(Held)'
    BY <1>1, <2>6, <2>10
  <2>12. \A m \in ToSet(batch) : Pairs(m)' \subseteq Pairs(m) \cup PairsIn(Held)'
    BY <2>7, <2>9, <2>10
  <2>13. Accounted' /\ Ranged'
    BY <1>1, <2>8, <2>9, <2>10, <2>11, <2>12, RangeUntouched
  <2>14. Stages'
    <3>1. \A j \in events' : names'[k][j] = {}
      BY <1>1, <2>1, <2>4 DEF AccountInv, Stages, TypeInv, BuildTypeOK, TypeOK
    <3> QED
      BY <1>1, <2>2, <3>1 DEF AccountInv, Stages
  <2> QED
    BY <2>13, <2>14 DEF AccountInv
<1> QED
  BY <1>3, <1>4, <1>5 DEF LookUp

LEMMA TakeBatchAccounts ==
    ASSUME AccountInv, TypeInv, TakeBatch, UNCHANGED <<windows, events, read>> PROVE AccountInv'
<1>1. /\ gpc = "receive" /\ gpc' = "range" /\ items # <<>> /\ batch' = items /\ items' = <<>>
      /\ todo' = Entries(items[1]) /\ message' = NoNames
      /\ UNCHANGED <<names, current, spc, ipMap, rpc, taken, seen, sent, lost>>
  BY DEF TakeBatch, syncVars, runVars
<1>2. batch = <<>> /\ message = NoNames
  BY <1>1 DEF AccountInv, Stages
<1>3. \A m : Pairs(m)' = Pairs(m)
  BY <1>1 DEF Pairs
<1>4. ToSet(items) = {items[1]} \cup ToSet(Tail(items))
  BY <1>1, MapsOfTail DEF TypeInv, BuildTypeOK, TypeOK, Maps
<1>5. First = Nil /\ Behind = {} /\ First' = items[1] /\ Behind' = ToSet(Tail(items))
  BY <1>1, <1>2 DEF First, Behind
<1>6. Held \subseteq Held' \cup {First'} \cup Behind' /\ Done' = Done
  BY <1>1, <1>2, <1>4, <1>5, NoMaps DEF Held, Done
<1>7. Pairs(First)' = Pairs(items[1])
  BY <1>1, <1>5 DEF Pairs
<1>8. PairsIn(Held) \subseteq PairsIn(Held)' \cup PairsIn(Behind)' \cup Pairs(First)'
  BY <1>3, <1>5, <1>6, <1>7 DEF PairsIn
<1>9. Accounted'
  BY <1>1, <1>5, <1>6, <1>8 DEF AccountInv, Accounted, PairsIn, Pairs
<1>10. Ranged'
  BY <1>1, <1>7 DEF Ranged, Pairs, PairsOf, Entries, Pair
<1> QED
  BY <1>1, <1>9, <1>10 DEF AccountInv, Stages

LEMMA MergeEntryAccounts ==
    ASSUME AccountInv, TypeInv, NEW ip \in Ip, MergeEntry(ip), UNCHANGED <<windows, events, read>>
    PROVE  AccountInv'
<1>1. /\ gpc = "range" /\ ip \in todo /\ todo' = todo \ {ip}
      /\ message' = [message EXCEPT ![ip] = names[batch[1]][ip]]
      /\ lost' = lost \cup {p \in PairsOf(message) : p \notin PairsOf(message')}
      /\ UNCHANGED <<names, current, spc, ipMap, rpc, taken, items, gpc, batch, seen, sent>>
  BY DEF MergeEntry, syncVars, runVars
<1>2. PICK k \in MapId : First = k /\ batch # <<>> /\ k = batch[1] /\ k # Nil
  BY <1>1 DEF First, TypeInv, Ranges
<1>3. First' = First /\ Behind' = Behind /\ Held' = Held /\ \A m : Pairs(m)' = Pairs(m)
  BY <1>1 DEF First, Behind, Held, Pairs
<1>4. Done \subseteq Done'
  BY <1>1 DEF Done
<1>5. Pairs(First)' = Pairs(First) /\ Pairs(First) = {p \in Pair : p[2] \in names[k][p[1]]}
  BY <1>1, <1>2, <1>3 DEF Pairs, PairsOf
<1>6. PairsIn(Held)' = PairsIn(Held) /\ PairsIn(Behind)' = PairsIn(Behind)
  BY <1>3 DEF PairsIn
<1>7. ASSUME NEW p \in Pairs(First), p[1] = ip PROVE p \in Done'
  <2>1. message'[ip] = names[k][ip] /\ p \in Pair
    BY <1>1, <1>2, <1>5 DEF TypeInv, BuildTypeOK, TypeOK
  <2>2. p[2] \in message'[p[1]]
    BY <1>5, <1>7, <2>1
  <2> QED
    BY <2>1, <2>2 DEF Done, PairsOf
<1>8. Accounted'
  BY <1>1, <1>4, <1>5, <1>6 DEF AccountInv, Accounted
<1>9. Ranged'
  BY <1>1, <1>4, <1>5, <1>6, <1>7 DEF AccountInv, Ranged
<1> QED
  BY <1>1, <1>8, <1>9 DEF AccountInv, Stages

LEMMA NextContainerAccounts ==
    ASSUME AccountInv, TypeInv, NextContainer, UNCHANGED <<windows, events, read>>
    PROVE  AccountInv'
<1>1. /\ gpc = "range" /\ todo = {} /\ batch' = Tail(batch)
      /\ UNCHANGED <<names, current, spc, ipMap, rpc, taken, items, message, seen, sent, lost>>
      /\ batch \in Seq(Maps)
  BY DEF NextContainer, syncVars, runVars, TypeInv, BuildTypeOK, TypeOK, Maps
<1>2. batch # <<>>
  <2>1. Len(batch) >= 1
    BY <1>1 DEF NextContainer
  <2> QED
    BY <2>1
<1>3. Held' = Held /\ Done' = Done /\ \A m : Pairs(m)' = Pairs(m)
  BY <1>1 DEF Held, Done, Pairs
<1>4. PairsIn(Held)' = PairsIn(Held)
  BY <1>3 DEF PairsIn
\* The range has passed all entries of the first map.
<1>5. Pairs(First) \subseteq Done \cup PairsIn(Held) \cup PairsIn(Behind)
  BY <1>1 DEF AccountInv, Ranged
<1>6. CASE Len(batch) > 1
  <2>1. /\ Tail(batch) # <<>> /\ Tail(batch)[1] = batch[2] /\ Tail(batch) \in Seq(Maps)
        /\ ToSet(Tail(batch)) = {batch[2]} \cup ToSet(Tail(Tail(batch)))
        /\ todo' = Entries(batch[2]) /\ gpc' = gpc
    BY <1>1, <1>2, <1>6, MapsOfTail DEF NextContainer
  <2>2. First' = batch[2] /\ Behind = {First'} \cup Behind'
    BY <1>1, <1>2, <2>1 DEF First, Behind
  <2>3. Pairs(First)' = Pairs(batch[2])
    BY <1>1, <2>2 DEF Pairs
  <2>4. PairsIn(Behind) \subseteq Pairs(First)' \cup PairsIn(Behind)'
    BY <1>3, <2>2, <2>3 DEF PairsIn
  <2>5. Accounted'
    BY <1>1, <1>3, <1>4, <1>5, <2>4 DEF AccountInv, Accounted
  <2>6. Ranged'
    BY <1>1, <2>1, <2>3 DEF Ranged, Pairs, PairsOf, Entries, Pair
  <2> QED
    BY <1>1, <2>1, <2>5, <2>6 DEF AccountInv, Stages
<1>7. CASE Len(batch) = 1
  <2>1. Tail(batch) = <<>> /\ gpc' = "post" /\ todo' = todo
    BY <1>1, <1>2, <1>7, MapsOfTail DEF NextContainer
  <2>2. First' = Nil /\ Behind = {} /\ Behind' = {}
    BY <1>1, <2>1, NoMaps DEF First, Behind
  <2>3. PairsIn(Behind) = {} /\ PairsIn(Behind)' = {} /\ Pairs(First)' = {}
    BY <2>2 DEF PairsIn, Pairs
  <2>4. Accounted' /\ Ranged'
    BY <1>1, <1>3, <1>4, <1>5, <2>3 DEF AccountInv, Accounted, Ranged
  <2> QED
    BY <1>1, <2>1, <2>4 DEF AccountInv, Stages
<1> QED
  BY <1>6, <1>7 DEF NextContainer

LEMMA PostMessageAccounts ==
    ASSUME AccountInv, TypeInv, PostMessage, UNCHANGED <<windows, events, read>>
    PROVE  AccountInv'
<1>1. /\ gpc = "post" /\ gpc' = "receive" /\ message' = NoNames
      /\ sent \cup lost \cup PairsOf(message) = sent' \cup lost'
      /\ UNCHANGED <<names, current, spc, ipMap, rpc, taken, items, batch, todo, seen>>
  BY DEF PostMessage, syncVars, runVars
<1>2. batch = <<>>
  BY <1>1 DEF AccountInv, Stages
<1>3. /\ Held' = Held /\ Done \subseteq Done' /\ First = Nil /\ First' = Nil
      /\ Behind = {} /\ Behind' = {} /\ \A m : Pairs(m)' = Pairs(m)
  BY <1>1, <1>2 DEF Held, Done, First, Behind, Pairs
<1>4. PairsIn(Held)' = PairsIn(Held) /\ Pairs(First) = {} /\ Pairs(First)' = {} /\ PairsIn(Behind) = {}
  BY <1>3 DEF PairsIn, Pairs
<1>5. Accounted' /\ Ranged'
  BY <1>1, <1>3, <1>4 DEF AccountInv, Accounted, Ranged
<1> QED
  BY <1>1, <1>2, <1>5 DEF AccountInv, Stages

\* A map with a fresh identity takes nothing away from those in use.
LEMMA FreshKeeps ==
    ASSUME TypeInv, NEW k \in MapId, k \notin InUse, \A m \in MapId : m # k => names'[m] = names[m]
    PROVE  /\ \A m \in InUse : Pairs(m)' = Pairs(m)
           /\ Held \subseteq InUse /\ ToSet(batch) \subseteq InUse
<1>1. InUse \subseteq Maps /\ Held \subseteq InUse /\ ToSet(batch) \subseteq InUse
  BY DEF Held, InUse, TypeInv, BuildTypeOK, TypeOK, Maps, ToSet
<1> QED
  BY <1>1 DEF Pairs, Maps

LEMMA HearAccounts ==
    ASSUME AccountInv, TypeInv, NEW name \in Name, NEW ips \in SUBSET Ip \ {{}}, Hear(name, ips),
           ~windows, UNCHANGED <<windows, events, read>>
    PROVE  AccountInv'
<1>1. /\ UNCHANGED <<current, rpc, taken, items, gpc, batch, todo, message, seen, sent, lost>>
      /\ spc = "listen" /\ spc' = "add" /\ ipMap = Nil
  BY DEF Hear, Listen, AccountInv, Stages, runVars, gateVars
<1>2. CASE current = Nil /\ Make
  <2>1. PICK k \in MapId : k = NewMap /\ k \notin InUse /\ k # Nil
    BY <1>2, FreshMap DEF Make
  <2>2. ipMap' = k /\ \A m \in MapId : m # k => names'[m] = names[m]
    BY <1>2, <2>1 DEF Make, TypeInv, BuildTypeOK, TypeOK
  <2>3. Held \subseteq Held'
    BY <1>1, <1>2, <2>2 DEF Held
  <2>4. PairsIn(Held) \subseteq PairsIn(Held)' /\ \A m \in ToSet(batch) : Pairs(m)' = Pairs(m)
    BY <2>1, <2>2, <2>3, FreshKeeps DEF PairsIn
  <2>5. Accounted' /\ Ranged'
    BY <1>1, <2>4, RangeUntouched
  <2> QED
    BY <1>1, <1>2, <2>1, <2>2, <2>5 DEF AccountInv, Stages
<1>3. CASE current # Nil /\ ipMap' = current /\ UNCHANGED names
  <2>1. (\A m : Pairs(m)' = Pairs(m)) /\ Held \subseteq Held' \cup {Nil}
    BY <1>1, <1>3 DEF Pairs, Held
  <2>2. PairsIn(Held) \subseteq PairsIn(Held)'
    BY <2>1 DEF PairsIn, Pairs
  <2>3. Accounted' /\ Ranged'
    BY <1>1, <2>1, <2>2, RangeUntouched
  <2> QED
    BY <1>1, <1>3, <2>3 DEF AccountInv, Stages
<1> QED
  BY <1>2, <1>3 DEF Hear

LEMMA TakeAccounts ==
    ASSUME AccountInv, TypeInv, Take, ~windows, UNCHANGED <<windows, events, read>>
    PROVE  AccountInv'
<1>1. /\ rpc = "receive" /\ rpc' = "clear" /\ taken = Nil /\ taken' = current
      /\ UNCHANGED <<names, current, spc, ipMap, items, gpc, batch, todo, message, seen, sent, lost>>
  BY DEF Take, AccountInv, Stages, syncVars, gateVars
<1>2. (\A m : Pairs(m)' = Pairs(m)) /\ Held \subseteq Held' \cup {Nil}
  BY <1>1 DEF Pairs, Held
<1>3. PairsIn(Held) \subseteq PairsIn(Held)'
  BY <1>2 DEF PairsIn, Pairs
<1>4. Accounted' /\ Ranged'
  BY <1>1, <1>2, <1>3, RangeUntouched
<1> QED
  BY <1>1, <1>4 DEF AccountInv, Stages

LEMMA FaultAccounts ==
    ASSUME AccountInv, Fault, ~windows, UNCHANGED <<windows, events, read>> PROVE AccountInv'
<1>1. /\ current' = Nil /\ spc' = "listen" /\ ipMap' = Nil /\ rpc' = "receive" /\ taken' = Nil
      /\ gpc' = "receive" /\ batch' = <<>> /\ message' = NoNames
      /\ lost' = lost \cup (seen \ sent) /\ UNCHANGED <<seen, sent>>
  BY DEF Fault
<1>2. seen' \subseteq Done'
  BY <1>1 DEF Done
<1>3. First' = Nil /\ Pairs(First)' = {}
  BY <1>1 DEF First, Pairs
<1> QED
  BY <1>1, <1>2, <1>3 DEF AccountInv, Accounted, Ranged, Stages

LEMMA ReadCacheAccounts ==
    ASSUME AccountInv, TypeInv, NEW c \in Caches, ReadCache(c), windows, UNCHANGED windows
    PROVE  AccountInv'
<1>1. /\ UNCHANGED <<current, rpc, taken, items, gpc, batch, todo, message, seen, sent, lost,
                     events>>
      /\ spc' = "store" /\ Unused # {} /\ ipMap' = NewMap
      /\ \E last \in LastAlias(c) :
            names' = [names EXCEPT ![NewMap] = [ip \in Ip |-> Merged(c, last, ip)]]
  BY DEF ReadCache, runVars, gateVars
<1>2. PICK k \in MapId : k = NewMap /\ k \notin InUse
  BY <1>1, FreshMap
<1>3. \A m \in MapId : m # k => names'[m] = names[m]
  BY <1>1, <1>2 DEF TypeInv, BuildTypeOK, TypeOK
<1>4. Held' = Held
  BY <1>1 DEF Held
<1>5. PairsIn(Held) \subseteq PairsIn(Held)' /\ \A m \in ToSet(batch) : Pairs(m)' = Pairs(m)
  BY <1>2, <1>3, <1>4, FreshKeeps DEF PairsIn
<1>6. Accounted' /\ Ranged'
  BY <1>1, <1>5, RangeUntouched
<1>7. taken # Nil => names'[taken] = names[taken]
  BY <1>2, <1>3 DEF InUse, TypeInv, BuildTypeOK, TypeOK
<1> QED
  BY <1>1, <1>6, <1>7 DEF AccountInv, Stages

LEMMA ReceiveAccounts ==
    ASSUME AccountInv, TypeInv, NEW ips \in SUBSET Ip, Receive(ips), windows, UNCHANGED windows
    PROVE  AccountInv'
<1>1. /\ rpc = "receive" /\ rpc' \in {"send", "lookup"} /\ taken = Nil /\ taken' = Nil
      /\ UNCHANGED <<names, current, spc, ipMap, items, gpc, batch, todo, message, seen, sent, lost>>
  BY DEF Receive, AccountInv, Stages, syncVars, gateVars
<1>2. (\A m : Pairs(m)' = Pairs(m)) /\ Held' = Held
  BY <1>1 DEF Pairs, Held
<1>3. PairsIn(Held)' = PairsIn(Held)
  BY <1>2 DEF PairsIn
<1>4. Accounted' /\ Ranged'
  BY <1>1, <1>2, <1>3, RangeUntouched
<1> QED
  BY <1>1, <1>4 DEF AccountInv, Stages

LEMMA AccountStep == AccountInv /\ TypeInv /\ [Next]_buildVars => AccountInv'
<1> SUFFICES ASSUME AccountInv, TypeInv, [Next]_buildVars PROVE AccountInv'
  OBVIOUS
<1>1. CASE SyncStep
  BY <1>1, StoreAccounts, AddAccounts DEF SyncStep, Sync
<1>2. CASE RunStep
  BY <1>2, ClearAccounts, SendOnAccounts, LookUpAccounts DEF RunStep, Run
<1>3. CASE GatewayStep
  BY <1>3, TakeBatchAccounts, MergeEntryAccounts, NextContainerAccounts, PostMessageAccounts
     DEF GatewayStep, Gateway
<1>4. CASE ~windows /\ LinuxNext /\ UNCHANGED <<windows, events, read>>
  BY <1>4, HearAccounts, TakeAccounts, FaultAccounts DEF LinuxNext
<1>5. CASE windows /\ WindowsNext /\ UNCHANGED windows
  BY <1>5, ReadCacheAccounts, ReceiveAccounts DEF WindowsNext
<1>6. CASE UNCHANGED buildVars
  BY <1>6 DEF buildVars, vars, syncVars, runVars, gateVars, AccountInv, Accounted, Ranged, Stages,
              Done, PairsIn, Held, Behind, First, Pairs
<1> QED
  BY <1>1, <1>2, <1>3, <1>4, <1>5, <1>6 DEF Next

\* Every name that was heard, or that was looked up for a container, is sent,
\* is on its way, or was lost in one of the named ways; Sync never stores over
\* a map it did not start from (ip_enricher_linux.go:100-150,
\* http_gateway.go:143-156).
THEOREM NamesAccountedHolds == Spec => []NamesAccounted
BY TypeInit, TypeStep, AccountInit, AccountStep, AccountedInUse, PTL DEF Spec

-----------------------------------------------------------------------------
(* Windows: no map mixes, for one address, two states of the DNS cache.    *)

OfOneCache(ip, S) ==
    S # {} => \E c \in read : /\ Direct(c, ip) # {} /\ Direct(c, ip) \subseteq S
                              /\ S \subseteq Direct(c, ip) \cup
                                             UNION {Aliases(c, n) : n \in Direct(c, ip)}

CacheInv == windows => /\ \A ip \in Ip : OfOneCache(ip, message[ip])
                       /\ \A m \in MapId : \A ip \in Ip : OfOneCache(ip, names[m][ip])
                       /\ spc # "add"

LEMMA CacheInit == BuildInit => CacheInv
BY DEF BuildInit, Init, CacheInv, OfOneCache, NoNames

LEMMA MergedOfOneCache ==
    ASSUME NEW c \in Caches, NEW last \in LastAlias(c), NEW ip \in Ip, Merged(c, last, ip) # {}
    PROVE  /\ Direct(c, ip) # {} /\ Direct(c, ip) \subseteq Merged(c, last, ip)
           /\ Merged(c, last, ip) \subseteq Direct(c, ip) \cup
                                            UNION {Aliases(c, n) : n \in Direct(c, ip)}
<1>1. \A n \in Name : last[n] \subseteq Aliases(c, n)
  BY DEF LastAlias
<1>2. Direct(c, ip) \subseteq Name
  BY DEF Direct
<1> QED
  BY <1>1, <1>2 DEF Merged

\* A step that reads no cache and changes the names of at most one map and one
\* address, to names that a map has for that address or to none.
LEMMA CacheKept ==
    ASSUME CacheInv, TypeInv, UNCHANGED <<windows, read>>, spc' # "add",
           windows => \A m \in MapId : \A ip \in Ip :
                         names'[m][ip] = {} \/ \E k \in MapId : names'[m][ip] = names[k][ip],
           windows => \A ip \in Ip :
                         \/ message'[ip] \in {message[ip], {}}
                         \/ \E k \in MapId : message'[ip] = names[k][ip]
    PROVE  CacheInv'
BY DEF CacheInv, OfOneCache

LEMMA CacheStep == CacheInv /\ TypeInv /\ [Next]_buildVars => CacheInv'
<1> SUFFICES ASSUME CacheInv, TypeInv, [Next]_buildVars, windows, windows' PROVE CacheInv'
  <2>1. ASSUME [Next]_buildVars PROVE UNCHANGED windows
    <3>1. CASE SyncStep \/ RunStep \/ GatewayStep
      BY <3>1 DEF SyncStep, RunStep, GatewayStep
    <3>2. CASE UNCHANGED buildVars
      BY <3>2 DEF buildVars
    <3> QED
      BY <2>1, <3>1, <3>2 DEF Next
  <2> QED
    BY <2>1 DEF CacheInv
<1>1. CASE UNCHANGED <<names, message, windows, read>> /\ spc' # "add"
  BY <1>1, CacheKept
<1>2. CASE SyncStep
  BY <1>1, <1>2 DEF SyncStep, Sync, Store, Add, CacheInv, runVars, gateVars
<1>3. CASE RunStep
  <2>1. CASE Run /\ UNCHANGED <<windows, events, read>>
    BY <1>1, <2>1 DEF Run, Clear, SendOn, CacheInv, syncVars, gateVars
  <2>2. ASSUME NEW ip \in Ip, LookUp(ip), UNCHANGED windows PROVE CacheInv'
    <3> DEFINE services == IF current = Nil THEN {} ELSE names[current][ip]
    <3>1. UNCHANGED <<read, message, spc, current>> /\ spc # "add"
      BY <2>2 DEF LookUp, CacheInv, syncVars, gateVars
    <3>2. services = {} \/ \E k \in MapId : services = names[k][ip]
      BY DEF TypeInv, BuildTypeOK, TypeOK
    <3>3. CASE names' = names
      BY <1>1, <2>2, <3>1, <3>3
    <3>4. CASE taken = Nil /\ Unused # {}
               /\ names' = [names EXCEPT ![NewMap] = [NoNames EXCEPT ![ip] = services]]
      <4>1. \A m \in MapId : names'[m] = names[m] \/ names'[m] = [NoNames EXCEPT ![ip] = services]
        BY <3>4, FreshMap DEF TypeInv, BuildTypeOK, TypeOK
      <4>2. \A j \in Ip : [NoNames EXCEPT ![ip] = services][j] = IF j = ip THEN services ELSE {}
        BY DEF NoNames
      <4>3. ASSUME NEW m \in MapId, NEW j \in Ip
            PROVE  names'[m][j] = {} \/ \E k \in MapId : names'[m][j] = names[k][j]
        BY <3>2, <4>1, <4>2
      <4> QED
        BY <2>2, <3>1, <4>3, CacheKept
    <3>5. CASE taken # Nil
               /\ names' = [names EXCEPT ![taken] = [names[taken] EXCEPT ![ip] = services]]
      <4>1. \A m \in MapId : names'[m] = IF m = taken THEN [names[taken] EXCEPT ![ip] = services]
                                                      ELSE names[m]
        BY <3>5 DEF TypeInv, BuildTypeOK, TypeOK
      <4>2. \A m \in MapId : names[m] \in [Ip -> SUBSET Name]
        BY DEF TypeInv, BuildTypeOK, TypeOK
      <4>3. ASSUME NEW m \in MapId, NEW j \in Ip
            PROVE  names'[m][j] = {} \/ \E k \in MapId : names'[m][j] = names[k][j]
        BY <3>2, <4>1, <4>2
      <4> QED
        BY <2>2, <3>1, <4>3, CacheKept
    <3> QED
      BY <2>2, <3>3, <3>4, <3>5 DEF LookUp
  <2> QED
    BY <1>3, <2>1, <2>2 DEF RunStep
<1>4. CASE GatewayStep
  <2>1. UNCHANGED <<names, spc, windows, read>> /\ spc # "add"
    BY <1>4 DEF GatewayStep, Gateway, TakeBatch, NextContainer, PostMessage, MergeEntry, CacheInv,
                syncVars
  <2>2. ASSUME NEW ip \in Ip
        PROVE  message'[ip] \in {message[ip], {}} \/ \E k \in MapId : message'[ip] = names[k][ip]
    BY <1>4 DEF GatewayStep, Gateway, TakeBatch, NextContainer, PostMessage, MergeEntry, NoNames,
                TypeInv, BuildTypeOK, TypeOK, Ranges
  <2> QED
    BY <2>1, <2>2, CacheKept
<1>5. CASE ~windows
  BY <1>5
<1>6. ASSUME NEW c \in Caches, ReadCache(c) PROVE CacheInv'
  <2>1. /\ read' = read \cup {c} /\ message' = message /\ spc' = "store" /\ Unused # {}
        /\ \E last \in LastAlias(c) :
              names' = [names EXCEPT ![NewMap] = [ip \in Ip |-> Merged(c, last, ip)]]
    BY <1>6 DEF ReadCache, gateVars
  <2>2. PICK last \in LastAlias(c) :
           names' = [names EXCEPT ![NewMap] = [ip \in Ip |-> Merged(c, last, ip)]]
    BY <2>1
  <2>3. \A m \in MapId : \A ip \in Ip :
           names'[m][ip] = names[m][ip] \/ names'[m][ip] = Merged(c, last, ip)
    BY <2>1, <2>2, FreshMap DEF TypeInv, BuildTypeOK, TypeOK
  <2>4. \A ip \in Ip : \A S : OfOneCache(ip, S) => OfOneCache(ip, S)'
    BY <2>1 DEF OfOneCache
  <2>5. \A ip \in Ip : OfOneCache(ip, Merged(c, last, ip))'
    BY <2>1, MergedOfOneCache DEF OfOneCache
  <2> QED
    BY <2>1, <2>3, <2>4, <2>5 DEF CacheInv, OfOneCache
<1>7. ASSUME NEW ips \in SUBSET Ip, Receive(ips), UNCHANGED windows PROVE CacheInv'
  BY <1>1, <1>7 DEF Receive, CacheInv, syncVars, gateVars
<1>8. CASE UNCHANGED buildVars
  BY <1>1, <1>8 DEF buildVars, vars, syncVars, gateVars, CacheInv
<1> QED
  BY <1>2, <1>3, <1>4, <1>5, <1>6, <1>7, <1>8 DEF Next, WindowsNext

\* On Windows the names that are sent for an address are those of one state of
\* the DNS cache (ip_enricher_windows.go, http_gateway.go:143-156).
THEOREM NamesOfOneCacheHolds == Spec => []NamesOfOneCache
<1>1. CacheInv => NamesOfOneCache
  BY DEF CacheInv, OfOneCache, NamesOfOneCache
<1> QED
  BY <1>1, TypeInit, TypeStep, CacheInit, CacheStep, PTL DEF Spec
=============================================================================
