---------------------------- MODULE WinEventLog -----------------------------
(***************************************************************************)
(* The crawler of Windows event logs (crawler_wineventlog_windows.go,      *)
(* eventlogs_windows.go).  Its offset is a time: a crawl asks for the      *)
(* records of the period since the second in which the last query was      *)
(* made, and Windows applies the period when it runs the query.            *)
(*                                                                         *)
(* The crawler shares SystemState.Sources with the files crawler, and both *)
(* append to it in Find() without a lock.                                  *)
(*                                                                         *)
(* One life of the process, that begins with the entries Restore has read  *)
(* (program.go:76).  What an earlier process has sent is not counted:      *)
(* where the offset that it left is older than its last query, the records *)
(* since that offset are sent once more.                                   *)
(*                                                                         *)
(* One rule and one path; all records have an event id the rule asks for.  *)
(***************************************************************************)
EXTENDS Naturals, Sequences, FiniteSets

CONSTANTS Files,         \* the sources of the files crawler
          EventLog,      \* the source of this one
          Second,        \* units of time in a second
          CrawlPeriod,   \* _crawlPeriod
          DeadTime,      \* rule.deadtime
          MaxRead,       \* _maxNumberEventsToRead
          MaxRecords,    \* bound on the records of the log
          MaxTime        \* bound on the clock

ASSUME WinEventLogAssumption == /\ IsFiniteSet(Files)
                                /\ EventLog \notin Files
                                /\ Second \in Nat \ {0}
                                /\ CrawlPeriod \in Nat /\ CrawlPeriod >= Second
                                /\ DeadTime \in Nat
                                /\ MaxRead \in Nat \ {0}
                                /\ MaxRecords \in Nat
                                /\ MaxTime \in Nat /\ MaxTime >= Second

(* An operator whose name has an underscore is the one it is named after    *)
(* with a plausible bug: the properties must notice it.                    *)

VARIABLES now,         \* the time, in units
          log,         \* the times of the records, in their order
          sources,     \* SystemState.Sources
          held,        \* crawler -> the slice it has read and is about to extend
          pc,          \* where the goroutine is
          offset,      \* SourceState.Offset of the entry it works with
          started,     \* when periodToParse was computed
          period,      \* periodToParse
          queryTime,
          result,      \* the records of the container it is about to send
          awake,       \* when the sleep is over
          times,       \* history: record -> how often this process sent it
          losses,      \* history: how often the entry was lost
          dropped      \* history: the records lost in one of the known ways

sharedVars == <<sources, held, losses>>
crawlVars == <<pc, offset, started, period, queryTime, result, awake, times, dropped>>
vars == <<now, log, sharedVars, crawlVars>>

Record == 1 .. MaxRecords
Crawler == {"files", "events"}
Source == Files \cup {EventLog}

\* Type correctness.
TypeOK == /\ now \in Second .. MaxTime
          /\ log \in Seq(Second .. MaxTime) /\ Len(log) <= MaxRecords
          /\ sources \subseteq Source
          /\ held \in [Crawler -> Seq([slice : SUBSET Source, new : Source])]
          /\ pc \in {"sleep", "append", "period", "stamp", "query", "send"}
          /\ offset \in 0 .. MaxTime \div Second
          /\ started \in 0 .. MaxTime /\ period \in Nat
          /\ queryTime \in 0 .. MaxTime
          /\ result \subseteq Record /\ Cardinality(result) <= MaxRead
          /\ awake \in 0 .. MaxTime + CrawlPeriod
          /\ times \in [Record -> Nat]
          /\ losses \in Nat
          /\ dropped \subseteq Record

\* The entries that were restored; the offset of one is the second in which an
\* earlier process made a query.  All that has happened since, before this
\* process first crawls, are ticks and records.
Init == /\ now = Second
        /\ log = <<>>
        /\ sources \in SUBSET Source
        /\ held = [c \in Crawler |-> <<>>]
        /\ pc = "sleep"
        /\ offset = IF EventLog \in sources THEN now \div Second ELSE 0
        /\ started = 0
        /\ period = 0
        /\ queryTime = offset * Second
        /\ result = {}
        /\ awake = 0
        /\ times = [r \in Record |-> 0]
        /\ losses = 0
        /\ dropped = {}

-----------------------------------------------------------------------------
(* Time and the programs that log.                                         *)

Tick == /\ now < MaxTime
        /\ now' = now + 1
        /\ UNCHANGED <<log, sharedVars, crawlVars>>

\* The bounded clock stands still.
TimeEnds == now = MaxTime /\ UNCHANGED vars

WriteRecord == /\ Len(log) < MaxRecords
               /\ log' = Append(log, now)
               /\ UNCHANGED <<now, sharedVars, crawlVars>>

-----------------------------------------------------------------------------
(* Find() of SystemState: the loop over Sources finds nothing, and append  *)
(* extends the slice that was read.  What the other crawler has appended   *)
(* since is overwritten.                                                   *)

NotFound_Unchecked(c, s) ==
    /\ held[c] = <<>>
    /\ held' = [held EXCEPT ![c] = <<[slice |-> sources, new |-> s]>>]

NotFound(c, s) ==
    /\ held[c] = <<>>
    /\ s \notin sources
    /\ held' = [held EXCEPT ![c] = <<[slice |-> sources, new |-> s]>>]

AppendSource(c) ==
    /\ held[c] # <<>>
    /\ sources' = held[c][1].slice \cup {held[c][1].new}
    /\ held' = [held EXCEPT ![c] = <<>>]
    /\ losses' = IF EventLog \in sources \ sources' THEN losses + 1 ELSE losses

FilesFind(s) == /\ NotFound("files", s)
                /\ UNCHANGED <<now, log, sources, losses, crawlVars>>

FilesAppend == /\ AppendSource("files")
               /\ UNCHANGED <<now, log, crawlVars>>

-----------------------------------------------------------------------------
(* _RunOnce.                                                               *)

FindEntry == /\ pc = "sleep"
             /\ \/ EventLog \in sources /\ pc' = "period" /\ UNCHANGED held
                \/ NotFound("events", EventLog) /\ pc' = "append"
             /\ UNCHANGED <<now, log, sources, losses, offset, started, period, queryTime,
                            result, awake, times, dropped>>

Wake_NoSleep == FindEntry

Wake == now >= awake /\ FindEntry

AddEntry == /\ pc = "append"
            /\ AppendSource("events")
            /\ offset' = 0
            /\ pc' = "period"
            /\ UNCHANGED <<now, log, started, period, queryTime, result, awake, times, dropped>>

\* CustomLongToTime: the beginning of the second.
Resumed == offset * Second

ComputePeriod == /\ pc = "period"
                 /\ started' = now
                 /\ period' = IF offset > 0 THEN now - Resumed ELSE DeadTime
                 /\ pc' = "stamp"
                 /\ UNCHANGED <<now, log, sharedVars, offset, queryTime, result, awake,
                                times, dropped>>

Stamp == /\ pc = "stamp"
         /\ queryTime' = now
         /\ pc' = "query"
         /\ UNCHANGED <<now, log, sharedVars, offset, started, period, result, awake,
                        times, dropped>>

\* The query, as Windows runs it, and the newest records, as one EvtNext in
\* reverse direction returns them.
Matching == {r \in DOMAIN log : now - log[r] <= period}
Newest(rs) == {r \in rs : Cardinality({q \in rs : q > r}) < MaxRead}

\* Records that a crawl should get and does not: beyond the limit; older than
\* the dead time when there is no offset; logged while the delay between the
\* computing of the period and the query lasts, counted from the old offset.
Beyond == Matching \ Newest(Matching)
TooOld == IF offset > 0 THEN {} ELSE {r \in DOMAIN log : log[r] < now - DeadTime}
Slipped == {r \in DOMAIN log : offset > 0 /\ log[r] \in Resumed .. Resumed + (now - started) - 1}

Query_StampsAfter ==
    /\ pc = "query"
    /\ result' = Newest(Matching)
    /\ dropped' = dropped \cup Beyond \cup TooOld \cup Slipped
    /\ \E later \in now .. MaxTime : offset' = later \div Second + 1
    /\ pc' = "send"
    /\ UNCHANGED <<now, log, sharedVars, started, period, queryTime, awake, times>>

Query_LimitIgnored ==
    /\ pc = "query"
    /\ result' = Matching
    /\ dropped' = dropped \cup TooOld \cup Slipped
    /\ offset' = queryTime \div Second
    /\ pc' = "send"
    /\ UNCHANGED <<now, log, sharedVars, started, period, queryTime, awake, times>>

Query == /\ pc = "query"
         /\ result' = Newest(Matching)
         /\ dropped' = dropped \cup Beyond \cup TooOld \cup Slipped
         /\ offset' = queryTime \div Second
         /\ pc' = "send"
         /\ UNCHANGED <<now, log, sharedVars, started, period, queryTime, awake, times>>

Sleep == awake' = now + CrawlPeriod /\ pc' = "sleep"

\* The query or the rendering of one of its records fails.
QueryFails == /\ pc = "query"
              /\ Sleep
              /\ UNCHANGED <<now, log, sharedVars, offset, started, period, queryTime,
                             result, times, dropped>>

Send == /\ pc = "send"
        /\ times' = [r \in Record |-> IF r \in result THEN times[r] + 1 ELSE times[r]]
        /\ result' = {}
        /\ Sleep
        /\ UNCHANGED <<now, log, sharedVars, offset, started, period, queryTime, dropped>>

Next == \/ Tick \/ TimeEnds \/ WriteRecord
        \/ FilesAppend \/ \E s \in Files : FilesFind(s)
        \/ Wake \/ AddEntry \/ ComputePeriod \/ Stamp
        \/ Query \/ QueryFails \/ Send

Spec == Init /\ [][Next]_vars

-----------------------------------------------------------------------------
(* Properties.                                                             *)

\* The offset is as good as the query behind it: a record logged before the
\* second of the offset was sent, is about to be, or is one of those that the
\* code drops; a query that fails drops none.
RecordsAccounted ==
    \A r \in DOMAIN log :
        log[r] < Resumed => times[r] > 0 \/ r \in result \cup dropped

\* The second of the offset is asked for again ("add one millisecond not to
\* catch previous collected events" is not done, line 83), so a record may be
\* sent twice by one process, and no more often, unless an append of the other
\* crawler has overwritten the entry: then the log is read from the dead time on
\* again.  A restart counts anew: from an older durable offset the process
\* sends again what an earlier one has sent (lines 81-86).
SentTwiceAtMost == \A r \in Record : times[r] <= 2 * (losses + 1)

\* Each of the entries of the other crawler can overwrite this one only once:
\* the crawlers settle, and no entry is lost for good.
LossesBounded == losses <= Cardinality(Files)
=============================================================================
