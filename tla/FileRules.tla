------------------------------ MODULE FileRules -----------------------------
(***************************************************************************)
(* What a crawl makes of the lines it reads: _GetFilesListMap assigns the  *)
(* rules to the files their paths match, ParseLine turns a line into the   *)
(* events of each rule of its file, and CleanSecurityEventsFromDublicates  *)
(* thins the container out before it is sent (crawler_files.go, utils.go). *)
(*                                                                         *)
(* A path is the set of the files it matches.  A line has a kind, which is *)
(* what the regular expressions tell apart, an address, and a time that    *)
(* may not parse.  Of an event only the three fields that are compared for *)
(* duplicates are kept.                                                    *)
(***************************************************************************)
EXTENDS Naturals, Sequences, SequencesExt

CONSTANTS File,
          Line,        \* the lines that may be read
          BadTime,     \* the time of a line that does not parse
          MaxLines     \* bound on the lines of a container

ASSUME FileRulesAssumption ==
    /\ \A l \in Line : DOMAIN l = {"kind", "ip", "time"}
    /\ MaxLines \in Nat

(* An operator whose name has an underscore is the one it is named after    *)
(* with a plausible bug: the properties must notice it.                    *)

VARIABLES rules,       \* FilesCrawler.Rules: records of a name, the Paths, the
                       \* files that are excluded, and the Events
          pc,          \* "assign", "read" or "send", once the crawler runs
          todo,        \* the pairs <<rule, path>> still to be assigned
          assigned,    \* pathOnRulesMap: file -> its rules
          file,        \* the file that is read
          lines,       \* history: the lines read from it
          events       \* eventsContainer.SecurityEvents

crawlVars == <<rules, pc, todo, assigned, file, lines, events>>

\* The elements of a sequence that are in S, in their order.
Keep(s, S) == FoldLeft(LAMBDA kept, x : IF x \in S THEN Append(kept, x) ELSE kept, <<>>, s)

Event == [sid : Nat, ip : {l.ip : l \in Line}, time : {l.time : l \in Line}]

CrawlTypeOK == /\ todo \in Seq(ToSet(rules) \X SUBSET File)
               /\ assigned \in [File -> Seq(ToSet(rules))]
               /\ file \in File
               /\ lines \in Seq(Line) /\ Len(lines) <= MaxLines
               /\ events \in Seq(Event)

-----------------------------------------------------------------------------
(* _GetFilesListMap.                                                       *)

\* The pairs of a rule and one of its paths, in the order of the two loops.
PathsOf(rule) == [i \in 1 .. Len(rule.paths) |-> <<rule, rule.paths[i]>>]
AllPaths(rs) == FlattenSeq([i \in 1 .. Len(rs) |-> PathsOf(rs[i])])

NoRules == [f \in File |-> <<>>]

CrawlInit == /\ rules = <<>>
             /\ todo = <<>>
             /\ assigned = NoRules
             /\ file \in File
             /\ lines = <<>>
             /\ events = <<>>

\* The continue for a rule that the file already has is one of the inner loop
\* and skips nothing.
Assign(rule, path) ==
    assigned' = [f \in File |-> IF f \in path \ rule.excluded
                                THEN Append(assigned[f], rule)
                                ELSE assigned[f]]

AssignNext == /\ pc = "assign"
              /\ todo # <<>>
              /\ Assign(todo[1][1], todo[1][2])
              /\ todo' = Tail(todo)
              /\ UNCHANGED <<rules, pc, file, lines, events>>

-----------------------------------------------------------------------------
(* Reading one of the files.                                               *)

Begin == /\ pc = "assign"
         /\ todo = <<>>
         /\ file' \in {f \in File : assigned[f] # <<>>}
         /\ pc' = "read"
         /\ UNCHANGED <<rules, todo, assigned, lines, events>>

Matches(filter, line) == line.kind \in filter.kinds

EventOf_NextSecond(filter, line) ==
    [sid |-> filter.sid, ip |-> line.ip, time |-> line.time + 1]

EventOf(filter, line) == [sid |-> filter.sid, ip |-> line.ip, time |-> line.time]

Excluded(filter, line) == line.ip \in filter.excludedIps

\* ParseLine: a filter of the rule gives an event when its expression matches,
\* the time can be parsed and no field is excluded.
Gives(filter, line) == /\ Matches(filter, line)
                       /\ line.time # BadTime
                       /\ ~Excluded(filter, line)

ParseLine_StopsAtExcluded(rule, line) ==
    LET Some == Keep(rule.events,
                     {f \in ToSet(rule.events) : Matches(f, line) /\ line.time # BadTime})
    IN  IF Some # <<>> /\ line.ip \notin Some[1].excludedIps
        THEN << EventOf(Some[1], line) >> ELSE <<>>

ParseLine(rule, line) ==
    LET Giving == Keep(rule.events, {f \in ToSet(rule.events) : Gives(f, line)})
    IN  [i \in 1 .. Len(Giving) |-> EventOf(Giving[i], line)]

Parsed(rs, line) == FlattenSeq([i \in 1 .. Len(rs) |-> ParseLine(rs[i], line)])

ReadLine(line) == /\ pc = "read"
                  /\ Len(lines) < MaxLines
                  /\ lines' = Append(lines, line)
                  /\ events' = events \o Parsed(assigned[file], line)
                  /\ UNCHANGED <<rules, pc, todo, assigned, file>>

SameEvent(e, f) == e.sid = f.sid /\ e.ip = f.ip /\ e.time = f.time

Clean_Neighbours(evs) ==
    FoldLeft(LAMBDA kept, e : IF kept # <<>> /\ SameEvent(Last(kept), e) THEN kept
                                                                         ELSE Append(kept, e),
             <<>>, evs)

\* CleanSecurityEventsFromDublicates: an event is kept unless the same one is
\* among those that are kept already.
Clean(evs) ==
    FoldLeft(LAMBDA kept, e : IF \E i \in 1 .. Len(kept) : SameEvent(kept[i], e)
                              THEN kept ELSE Append(kept, e),
             <<>>, evs)

EndOfFile == /\ pc = "read"
             /\ events' = Clean(events)
             /\ pc' = "send"
             /\ UNCHANGED <<rules, todo, assigned, file, lines>>

\* The container is gone, and the next crawl begins.
Send == /\ pc = "send"
        /\ pc' = "assign"
        /\ todo' = AllPaths(rules)
        /\ assigned' = NoRules
        /\ lines' = <<>>
        /\ events' = <<>>
        /\ UNCHANGED <<rules, file>>

\* No rule has a file: the crawl is over.
NoFiles == /\ pc = "assign"
           /\ todo = <<>>
           /\ assigned = NoRules
           /\ todo' = AllPaths(rules)
           /\ UNCHANGED <<rules, pc, assigned, file, lines, events>>

CrawlNext == \/ AssignNext \/ Begin \/ NoFiles
             \/ \E line \in Line : ReadLine(line)
             \/ EndOfFile \/ Send

-----------------------------------------------------------------------------
(* Properties.                                                             *)

\* The rules that the file is meant for: one of their paths matches it, and it
\* is not excluded; each once, in the order of the rule files.
Applies(rule) == /\ file \notin rule.excluded
                 /\ \E i \in 1 .. Len(rule.paths) : file \in rule.paths[i]
Applicable == Keep(rules, {r \in ToSet(rules) : Applies(r)})

\* Overlapping paths of a rule make its lines be parsed twice, and the removal
\* of duplicates makes up for it: what is sent, and its order, is as if each
\* rule had been assigned once.
OverlapIsHarmless ==
    pc = "send" =>
        events = Clean(FlattenSeq([i \in 1 .. Len(lines) |-> Parsed(Applicable, lines[i])]))
=============================================================================
