------------------------------ MODULE Enricher ------------------------------
(***************************************************************************)
(* The enricher in its two builds.  On Linux it is IpEnricher.  On Windows *)
(* (ip_enricher_windows.go) Sync reads the DNS cache of the system, builds *)
(* a new map and publishes it, and Run looks each event of a container up  *)
(* in whatever map is published at that moment; the names go into a map of *)
(* the container's own.  The queue and the gateway are the same for both.  *)
(*                                                                         *)
(* A DNS cache has A records, pairs of an address and a name, and CNAME    *)
(* records, pairs of an alias and the name that it stands for.             *)
(***************************************************************************)
EXTENDS IpEnricher

CONSTANTS Caches,      \* what the DNS cache may hold
          Internal     \* the addresses of internal networks

ASSUME EnricherAssumption ==
    /\ \A c \in Caches : c.a \subseteq Ip \X Name /\ c.cname \subseteq Name \X Name
    /\ Internal \subseteq Ip

VARIABLES windows,     \* the build
          events,      \* the addresses of the events Run has still to look up
          read         \* history: the caches that Sync has read

buildVars == <<vars, windows, events, read>>

\* Type correctness.
BuildTypeOK == /\ TypeOK
               /\ windows \in BOOLEAN
               /\ events \subseteq Ip
               /\ read \subseteq Caches

BuildInit == Init /\ windows \in BOOLEAN /\ events = {} /\ read = {}

-----------------------------------------------------------------------------
(* Sync, on Windows.                                                       *)

Direct(c, ip) == {n \in Name : <<ip, n>> \in c.a /\ ip \notin Internal}

Aliases(c, n) == {m \in Name : <<m, n>> \in c.cname}

\* Of the aliases of a name the last section wins, and only the aliases of the
\* names in A records are added: alias of an alias is left out.
LastAlias(c) == {last \in [Name -> SUBSET Name] :
                    \A n \in Name : \/ Aliases(c, n) = {} /\ last[n] = {}
                                    \/ \E m \in Aliases(c, n) : last[n] = {m}}

Merged(c, last, ip) == Direct(c, ip) \cup UNION {last[n] : n \in Direct(c, ip)}

ReadCache_IntoPublished(c) ==
    /\ spc = "listen"
    /\ answers < MaxAnswers
    /\ Unused # {}
    /\ answers' = answers + 1
    /\ read' = read \cup {c}
    /\ ipMap' = IF current = Nil THEN NewMap ELSE current
    /\ \E last \in LastAlias(c) :
          names' = [names EXCEPT ![ipMap'] =
                       [ip \in Ip |-> (IF current = Nil THEN {} ELSE names[current][ip])
                                      \cup Merged(c, last, ip)]]
    /\ spc' = "store"
    /\ UNCHANGED <<current, answer, runVars, items, gateVars, seen, sent, lost, events>>

\* The output of ipconfig; when it fails, Sync sleeps and tries again.
ReadCache(c) ==
    /\ spc = "listen"
    /\ answers < MaxAnswers
    /\ Unused # {}
    /\ answers' = answers + 1
    /\ read' = read \cup {c}
    /\ ipMap' = NewMap
    /\ \E last \in LastAlias(c) :
          names' = [names EXCEPT ![NewMap] = [ip \in Ip |-> Merged(c, last, ip)]]
    /\ spc' = "store"
    /\ UNCHANGED <<current, answer, runVars, items, gateVars, seen, sent, lost, events>>

-----------------------------------------------------------------------------
(* _ProcessEventsContainer, on Windows.                                    *)

Receive(ips) == /\ rpc = "receive"
                /\ taken' = Nil
                /\ events' = ips
                /\ rpc' = IF ips = {} THEN "send" ELSE "lookup"
                /\ UNCHANGED <<names, current, syncVars, items, gateVars, seen, sent, lost, read>>

\* The map of the container is made when the first event has names.
LookUp(ip) ==
    LET services == IF current = Nil THEN {} ELSE names[current][ip]
    IN  /\ rpc = "lookup"
        /\ ip \in events
        /\ events' = events \ {ip}
        /\ \/ services = {} /\ UNCHANGED <<names, taken>>
           \/ /\ services # {} /\ (taken = Nil => Unused # {})
              /\ taken' = IF taken = Nil THEN NewMap ELSE taken
              /\ names' = [names EXCEPT ![taken'] =
                              [(IF taken = Nil THEN NoNames ELSE @) EXCEPT ![ip] = services]]
        /\ seen' = seen \cup ({ip} \X services)
        /\ rpc' = IF events' = {} THEN "send" ELSE "lookup"
        /\ UNCHANGED <<current, syncVars, items, gateVars, sent, lost, read>>

-----------------------------------------------------------------------------

\* The goroutines of both builds.
SyncStep == Sync /\ UNCHANGED <<windows, events, read>>
RunStep == \/ Run /\ UNCHANGED <<windows, events, read>>
           \/ \E ip \in Ip : LookUp(ip) /\ UNCHANGED windows
GatewayStep == Gateway /\ UNCHANGED <<windows, events, read>>

LinuxNext == \/ \E name \in Name, ips \in SUBSET Ip \ {{}} : Hear(name, ips)
             \/ Take
             \/ Fault

WindowsNext == \/ \E c \in Caches : ReadCache(c)
               \/ \E ips \in SUBSET Ip : Receive(ips)

Next == \/ SyncStep \/ RunStep \/ GatewayStep
        \/ ~windows /\ LinuxNext /\ UNCHANGED <<windows, events, read>>
        \/ windows /\ WindowsNext /\ UNCHANGED windows

\* The goroutines run.  Answers and containers may stop coming.
Fairness ==
    WF_buildVars(SyncStep) /\ WF_buildVars(RunStep) /\ WF_buildVars(GatewayStep)

Spec == BuildInit /\ [][Next]_buildVars /\ Fairness

-----------------------------------------------------------------------------
(* Properties.                                                             *)

\* As long as containers come, a name that was heard or given to a container
\* leaves the enricher, is merged and is posted, or is lost in one of the ways
\* of NamesAccounted.
ContainerComes == rpc = "receive" /\ rpc' # "receive"
NamesLeave ==
    []<><<ContainerComes>>_buildVars => \A p \in Pair : (p \in seen) ~> (p \in sent \cup lost)

\* On Windows the names that the gateway sends for an address are those of one
\* state of the DNS cache, however often it was read while the events were
\* looked up and waited: all names of the A records, and besides them only
\* aliases of these; and none for an address of an internal network.
NamesOfOneCache ==
    windows => \A ip \in Ip :
        message[ip] # {} =>
            \E c \in read : /\ Direct(c, ip) # {} /\ Direct(c, ip) \subseteq message[ip]
                            /\ message[ip] \subseteq
                                  Direct(c, ip) \cup UNION {Aliases(c, n) : n \in Direct(c, ip)}
=============================================================================
