----------------------------- MODULE IpEnricher -----------------------------
(***************************************************************************)
(* The DNS names of the enricher (ip_enricher.go, ip_enricher_linux.go).   *)
(* The goroutine Sync puts the names it hears on the wire into a map, the  *)
(* goroutine Run hands the map over with a container, and the gateway      *)
(* copies the maps of a batch into its message.  Nothing is locked, and    *)
(* what is handed over is a reference: Sync may go on writing to a map     *)
(* that a container has taken away.                                        *)
(*                                                                         *)
(* A Go map is an identity in MapId; the slice of names of an address is a *)
(* set, for Sync adds a name only once.                                    *)
(***************************************************************************)
EXTENDS Naturals, Sequences, SequencesExt

CONSTANTS Ip, Name,
          MapId,       \* identities for the maps that are alive at one time
          Nil,
          MaxItems,    \* Queue._maxItems
          MaxAnswers   \* bound on the DNS answers

ASSUME IpEnricherAssumption == /\ Name # {}
                               /\ Nil \notin MapId
                               /\ MaxItems \in Nat \ {0}
                               /\ MaxAnswers \in Nat

(* An operator whose name has an underscore is the one it is named after    *)
(* with a plausible bug: the properties below must notice it.              *)

VARIABLES names,     \* contents of the maps: identity -> address -> names
          current,   \* IpEnricher._ipToServicesMap
          spc,       \* where Sync is
          ipMap,     \* its local variable of that name
          answer,    \* the name and the addresses it has still to add
          answers,   \* the number of answers so far
          rpc,       \* where Run is
          taken,     \* IpToServiceMap of the container Run works on
          items,     \* those of the containers in the queue
          gpc,       \* where the gateway is
          batch,     \* those of the batch it works on
          todo,      \* addresses its range over the first of them has left
          message,   \* ServerRequestMessage.IpServices: address -> names
          seen,      \* history: what Sync has put into a map
          sent,      \* history: what the gateway has posted or saved
          lost       \* history: what was lost in one of the known ways

syncVars == <<spc, ipMap, answer, answers>>
runVars == <<rpc, taken>>
gateVars == <<gpc, batch, todo, message>>
vars == <<names, current, syncVars, runVars, items, gateVars, seen, sent, lost>>

Pair == Ip \X Name
NoNames == [ip \in Ip |-> {}]

\* The pairs that a map from addresses to names holds.
PairsOf(content) == {p \in Pair : p[2] \in content[p[1]]}
Pairs(m) == IF m = Nil THEN {} ELSE PairsOf(names[m])

\* Type correctness.
TypeOK == /\ names \in [MapId -> [Ip -> SUBSET Name]]
          /\ current \in MapId \cup {Nil}
          /\ spc \in {"listen", "add", "store"}
          /\ ipMap \in MapId \cup {Nil}
          /\ answer \in [name : Name, ips : SUBSET Ip]
          /\ answers \in 0 .. MaxAnswers
          /\ rpc \in {"receive", "clear", "lookup", "send"}
          /\ taken \in MapId \cup {Nil}
          /\ items \in Seq(MapId \cup {Nil}) /\ Len(items) <= MaxItems
          /\ gpc \in {"receive", "range", "post"}
          /\ batch \in Seq(MapId \cup {Nil})
          /\ todo \subseteq Ip
          /\ message \in [Ip -> SUBSET Name]
          /\ seen \subseteq Pair
          /\ sent \subseteq Pair
          /\ lost \subseteq Pair

Init == /\ names = [m \in MapId |-> NoNames]
        /\ current = Nil
        /\ spc = "listen"
        /\ ipMap = Nil
        /\ answer = [name |-> CHOOSE n \in Name : TRUE, ips |-> {}]
        /\ answers = 0
        /\ rpc = "receive"
        /\ taken = Nil
        /\ items = <<>>
        /\ gpc = "receive"
        /\ batch = <<>>
        /\ todo = {}
        /\ message = NoNames
        /\ seen = {}
        /\ sent = {}
        /\ lost = {}

-----------------------------------------------------------------------------
(* Sync: one question of a DNS packet.                                     *)

InUse == {current, ipMap, taken} \cup ToSet(items) \cup ToSet(batch)

\* make(map[string][]string): any identity that is free will do.
Unused == MapId \ InUse
NewMap == CHOOSE m \in MapId : m \notin InUse
Make == /\ Unused # {}
        /\ ipMap' = NewMap
        /\ names' = [names EXCEPT ![NewMap] = NoNames]

Listen(name, ips) == /\ spc = "listen"
                     /\ answers < MaxAnswers
                     /\ answers' = answers + 1
                     /\ answer' = [name |-> name, ips |-> ips]
                     /\ spc' = "add"
                     /\ UNCHANGED <<current, runVars, items, gateVars, seen, sent, lost>>

Hear_AlwaysNew(name, ips) == Listen(name, ips) /\ Make

\* The map is read once, before the addresses are added to it.
Hear(name, ips) == /\ Listen(name, ips)
                   /\ \/ current = Nil /\ Make
                      \/ current # Nil /\ ipMap' = current /\ UNCHANGED names

\* A range over the map may come to an address that is new in it, or not.
MayVisit(ip) == /\ gpc = "range" /\ batch # <<>> /\ batch[1] = ipMap
                /\ names[ipMap][ip] = {}

Add(ip) == /\ spc = "add"
           /\ ip \in answer.ips
           /\ names' = [names EXCEPT ![ipMap][ip] = @ \cup {answer.name}]
           /\ answer' = [answer EXCEPT !.ips = @ \ {ip}]
           /\ seen' = seen \cup {<<ip, answer.name>>}
           /\ spc' = IF answer'.ips = {} THEN "store" ELSE "add"
           /\ \/ UNCHANGED todo
              \/ MayVisit(ip) /\ todo' = todo \cup {ip}
           /\ UNCHANGED <<current, ipMap, answers, runVars, items, gpc, batch, message,
                          sent, lost>>

Store == /\ spc = "store"
         /\ current' = ipMap
         /\ ipMap' = Nil
         /\ spc' = "listen"
         /\ UNCHANGED <<names, answer, answers, runVars, items, gateVars, seen, sent, lost>>

-----------------------------------------------------------------------------
(* Run: the map goes into the container, and then the field is cleared.    *)

Take_OnlyWithEvents ==
    /\ rpc = "receive"
    /\ \/ taken' = current /\ rpc' = "clear"
       \/ taken' = Nil /\ rpc' = "send"
    /\ UNCHANGED <<names, current, syncVars, items, gateVars, seen, sent, lost>>

\* A container is received and the reference to the map copied into it.
Take == /\ rpc = "receive"
        /\ taken' = current
        /\ rpc' = "clear"
        /\ UNCHANGED <<names, current, syncVars, items, gateVars, seen, sent, lost>>

\* What Sync has stored since the reference was copied is dropped, unless Sync
\* holds it and will store it again.
Clear == /\ rpc = "clear"
         /\ current' = Nil
         /\ lost' = IF current \in {taken, ipMap} THEN lost ELSE lost \cup Pairs(current)
         /\ rpc' = "send"
         /\ UNCHANGED <<names, syncVars, taken, items, gateVars, seen, sent>>

SendOn_Unbounded ==
    /\ rpc = "send"
    /\ Len(items) <= MaxItems
    /\ items' = Append(items, taken)
    /\ taken' = Nil
    /\ rpc' = "receive"
    /\ UNCHANGED <<names, current, syncVars, gateVars, seen, sent, lost>>

\* The queue takes no further container when it is full and flushing.
SendOn == /\ rpc = "send"
          /\ Len(items) < MaxItems
          /\ items' = Append(items, taken)
          /\ taken' = Nil
          /\ rpc' = "receive"
          /\ UNCHANGED <<names, current, syncVars, gateVars, seen, sent, lost>>

-----------------------------------------------------------------------------
(* The gateway: the maps of the batch are merged into one message.         *)

Entries(m) == IF m = Nil THEN {} ELSE {ip \in Ip : names[m][ip] # {}}

TakeBatch == /\ gpc = "receive"
             /\ items # <<>>
             /\ batch' = items
             /\ items' = <<>>
             /\ todo' = Entries(items[1])
             /\ message' = NoNames
             /\ gpc' = "range"
             /\ UNCHANGED <<names, current, syncVars, runVars, seen, sent, lost>>

\* The names of an address that an earlier container brought are replaced.
MergeEntry(ip) ==
    /\ gpc = "range"
    /\ ip \in todo
    /\ message' = [message EXCEPT ![ip] = names[batch[1]][ip]]
    /\ lost' = lost \cup {p \in PairsOf(message) : p \notin PairsOf(message')}
    /\ todo' = todo \ {ip}
    /\ UNCHANGED <<names, current, syncVars, runVars, items, gpc, batch, seen, sent>>

NextContainer == /\ gpc = "range"
                 /\ todo = {}
                 /\ batch' = Tail(batch)
                 /\ \/ /\ Len(batch) > 1
                       /\ todo' = Entries(batch[2])
                       /\ UNCHANGED gpc
                    \/ /\ Len(batch) = 1
                       /\ gpc' = "post"
                       /\ UNCHANGED todo
                 /\ UNCHANGED <<names, current, syncVars, runVars, items, message,
                                seen, sent, lost>>

\* A message that fails and has no events is not saved.
PostMessage == /\ gpc = "post"
               /\ \/ sent' = sent \cup PairsOf(message) /\ UNCHANGED lost
                  \/ lost' = lost \cup PairsOf(message) /\ UNCHANGED sent
               /\ message' = NoNames
               /\ gpc' = "receive"
               /\ UNCHANGED <<names, current, syncVars, runVars, items, batch, todo, seen>>

\* A map that is written while it is ranged over: where the Go runtime notices,
\* it ends the process, and all that is in memory is gone.
Fault == /\ spc = "add" /\ gpc = "range" /\ batch[1] = ipMap
         /\ names' = [m \in MapId |-> NoNames]
         /\ current' = Nil
         /\ spc' = "listen"
         /\ ipMap' = Nil
         /\ answer' = [answer EXCEPT !.ips = {}]
         /\ rpc' = "receive"
         /\ taken' = Nil
         /\ items' = <<>>
         /\ gpc' = "receive"
         /\ batch' = <<>>
         /\ todo' = {}
         /\ message' = NoNames
         /\ lost' = lost \cup (seen \ sent)
         /\ UNCHANGED <<answers, seen, sent>>

-----------------------------------------------------------------------------

Sync == Store \/ \E ip \in Ip : Add(ip)
Run == Clear \/ SendOn
Gateway == TakeBatch \/ NextContainer \/ PostMessage \/ \E ip \in Ip : MergeEntry(ip)

-----------------------------------------------------------------------------
(* Properties.                                                             *)

\* Every name that was heard can still be handed over, is on its way, or was
\* lost in one of the four ways of the code: the field was cleared after a
\* new map had been stored (lines 147-148), the names of the same address in a
\* later container of the batch replaced it (http_gateway.go:150), the message
\* failed and had no events, or the race of Fault ended the process.  In
\* particular Sync never stores over a map it did not start from, and a map that
\* it still fills after it was sent is handed over again.
NamesAccounted ==
    seen \subseteq sent \cup lost \cup PairsOf(message)
                   \cup UNION {Pairs(m) : m \in InUse}
=============================================================================
