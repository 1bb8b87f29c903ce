-------------------------- MODULE WinEventLogProofs -------------------------
(***************************************************************************)
(* Proofs about WinEventLog, the crawler of Windows event logs: type       *)
(* correctness, that no record is behind the offset without having been    *)
(* dealt with, that none is sent more than twice between two losses of the *)
(* entry, and that the race for SystemState.Sources loses the entry at     *)
(* most once for each source of the other crawler.                         *)
(***************************************************************************)
EXTENDS WinEventLog, FiniteSetTheorems, WellFoundedInduction, TLAPS

USE WinEventLogAssumption

-----------------------------------------------------------------------------
(* Arithmetic and cardinalities.                                           *)

\* A time and the beginning of its second.
LEMMA Seconds ==
    ASSUME NEW t \in Nat
    PROVE  /\ t \div Second \in Nat
           /\ (t \div Second) * Second <= t
           /\ t < (t \div Second) * Second + Second
           /\ t >= Second => t \div Second > 0
<1> DEFINE q == t \div Second
           r == t % Second
<1>1. t = Second * q + r /\ r \in 0 .. Second - 1 /\ q \in Int
  OBVIOUS
<1>2. q >= 0
  OBVIOUS
<1>3. Second * q = q * Second
  BY <1>1
<1> HIDE DEF q, r
<1>4. ASSUME t >= Second, q = 0 PROVE FALSE
  BY <1>1, <1>4
<1> QED
  BY <1>1, <1>2, <1>3, <1>4 DEF q

LEMMA SecondsMonotone ==
    ASSUME NEW t \in Nat, NEW u \in Nat, t <= u PROVE t \div Second <= u \div Second
OBVIOUS

LEMMA Smallest ==
    ASSUME NEW S \in SUBSET Nat, S # {} PROVE \E x \in S : \A y \in S : x <= y
<1>1. PICK x \in S : \A y \in S : ~ (<<y, x>> \in OpToRel(<, Nat))
  BY NatLessThanWellFounded, WFMin
<1>2. \A y \in S : ~ (y < x)
  BY <1>1 DEF OpToRel
<1> QED
  BY <1>2

\* A query returns no more records than were asked for.
LEMMA NewestAreFew ==
    ASSUME NEW rs \in SUBSET Nat, IsFiniteSet(rs)
    PROVE  Newest(rs) \subseteq rs /\ IsFiniteSet(Newest(rs)) /\ Cardinality(Newest(rs)) <= MaxRead
<1>1. Newest(rs) \subseteq rs
  BY DEF Newest
<1>2. IsFiniteSet(Newest(rs))
  BY <1>1, FS_Subset
<1>3. CASE Newest(rs) = {}
  BY <1>1, <1>2, <1>3, FS_EmptySet
<1>4. CASE Newest(rs) # {}
  <2>1. PICK m \in Newest(rs) : \A r \in Newest(rs) : m <= r
    BY <1>1, <1>4, Smallest
  <2> DEFINE later == {q \in rs : q > m}
  <2>2. Cardinality(later) < MaxRead /\ later \subseteq rs
    BY DEF Newest
  <2>3. IsFiniteSet(later)
    BY <2>2, FS_Subset
  <2>4. Newest(rs) \subseteq later \cup {m}
    <3>1. ASSUME NEW r \in Newest(rs), r # m PROVE r \in later
      <4>1. m \in Nat /\ r \in Nat /\ r \in rs /\ m <= r
        BY <1>1, <2>1
      <4> QED
        BY <3>1, <4>1
    <3> QED
      BY <3>1
  <2> HIDE DEF later
  <2>5. IsFiniteSet(later \cup {m}) /\ Cardinality(later \cup {m}) <= Cardinality(later) + 1
    <3>1. Cardinality(later) \in Nat
      BY <2>3, FS_CardinalityType
    <3>2. /\ IsFiniteSet(later \cup {m})
          /\ Cardinality(later \cup {m}) = IF m \in later THEN Cardinality(later)
                                                         ELSE Cardinality(later) + 1
      BY <2>3, FS_AddElement, Zenon
    <3> QED
      BY <3>1, <3>2
  <2>6. Cardinality(Newest(rs)) <= Cardinality(later \cup {m})
    BY <2>4, <2>5, FS_Subset
  <2>7. /\ Cardinality(later) \in Nat /\ Cardinality(later \cup {m}) \in Nat
        /\ Cardinality(Newest(rs)) \in Nat
    BY <1>2, <2>3, <2>5, FS_CardinalityType
  <2> QED
    BY <1>1, <1>2, <2>2, <2>5, <2>6, <2>7
<1> QED
  BY <1>3, <1>4

-----------------------------------------------------------------------------
(* Type correctness.  The times of a crawl follow each other; were the     *)
(* offset ever beyond the time, the period would be negative.              *)

ClockInv == /\ \A r \in DOMAIN log : log[r] <= now
            /\ started <= now
            /\ queryTime <= now
            /\ Resumed <= queryTime
            /\ pc \in {"stamp", "query"} =>
                   period = IF offset > 0 THEN started - Resumed ELSE DeadTime
            /\ pc = "query" => queryTime >= Second
            /\ pc # "send" => result = {}
            /\ pc = "send" => offset > 0

\* TypeOK, with a name for its bound on the offset.
MaxOffset == MaxTime \div Second

Types == /\ now \in Second .. MaxTime
         /\ log \in Seq(Second .. MaxTime) /\ Len(log) <= MaxRecords
         /\ sources \subseteq Source
         /\ held \in [Crawler -> Seq([slice : SUBSET Source, new : Source])]
         /\ pc \in {"sleep", "append", "period", "stamp", "query", "send"}
         /\ offset \in 0 .. MaxOffset
         /\ started \in 0 .. MaxTime /\ period \in Nat
         /\ queryTime \in 0 .. MaxTime
         /\ result \subseteq Record /\ Cardinality(result) <= MaxRead
         /\ awake \in 0 .. MaxTime + CrawlPeriod
         /\ times \in [Record -> Nat]
         /\ losses \in Nat
         /\ dropped \subseteq Record

TypeInv == Types /\ ClockInv

LEMMA ResumedAt == MaxOffset \in Nat /\ (offset \in Nat => Resumed \in Nat) /\ (offset = 0 => Resumed = 0)
BY Seconds DEF MaxOffset, Resumed

\* What SANY and the provers need of the numbers.
LEMMA Numbers ==
    ASSUME TypeInv
    PROVE  /\ now \in Nat /\ started \in Nat /\ queryTime \in Nat /\ offset \in Nat
           /\ awake \in Nat /\ period \in Nat /\ losses \in Nat /\ Resumed \in Nat
           /\ now >= Second /\ now <= MaxTime /\ MaxTime \in Nat /\ Second \in Nat
           /\ Second >= 1 /\ CrawlPeriod \in Nat /\ CrawlPeriod >= Second /\ DeadTime \in Nat
           /\ Len(log) \in Nat /\ DOMAIN log = 1 .. Len(log) /\ DOMAIN log \subseteq Record
           /\ \A r \in DOMAIN log : log[r] \in Nat /\ log[r] >= Second /\ log[r] <= now
<1>1. MaxOffset \in Nat
  BY ResumedAt
<1>2. offset \in Nat
  BY <1>1 DEF TypeInv, Types
<1>3. Resumed \in Nat
  BY <1>2, ResumedAt
<1>4. DOMAIN log = 1 .. Len(log) /\ Len(log) \in Nat /\ Len(log) <= MaxRecords
  BY DEF TypeInv, Types
<1>5. DOMAIN log \subseteq Record
  BY <1>4 DEF Record
<1>6. \A r \in DOMAIN log : log[r] \in Second .. MaxTime /\ log[r] <= now
  <2>1. log \in Seq(Second .. MaxTime) /\ \A r \in DOMAIN log : log[r] <= now
    BY DEF TypeInv, Types, ClockInv
  <2> QED
    BY <2>1
<1> QED
  BY <1>2, <1>3, <1>4, <1>5, <1>6 DEF TypeInv, Types

LEMMA SameResumed == UNCHANGED offset => UNCHANGED Resumed
BY DEF Resumed

LEMMA TypeInit == Init => TypeInv
<1> SUFFICES ASSUME Init PROVE TypeInv
  OBVIOUS
<1>1. /\ Second \div Second \in Nat /\ (Second \div Second) * Second <= Second
      /\ Second \div Second <= MaxOffset
  BY Seconds, SecondsMonotone DEF MaxOffset
<1>2. now = Second /\ offset = IF EventLog \in sources THEN Second \div Second ELSE 0
  BY DEF Init
<1>3. offset \in 0 .. MaxOffset
  BY <1>1, <1>2, ResumedAt
<1>4. Resumed \in Nat /\ Resumed <= Second
  BY <1>1, <1>2, <1>3, ResumedAt DEF Resumed
<1>5. queryTime = Resumed
  BY DEF Init, Resumed
<1>6. queryTime \in 0 .. MaxTime /\ queryTime <= now /\ Resumed <= queryTime
  BY <1>2, <1>4, <1>5
<1>7. Cardinality({}) <= MaxRead
  BY FS_EmptySet
<1> QED
  BY <1>3, <1>6, <1>7 DEF Init, TypeInv, Types, ClockInv

LEMMA FoundTypes ==
    ASSUME TypeInv, NEW c \in Crawler, NEW s \in Source, NotFound(c, s)
    PROVE  held' \in [Crawler -> Seq([slice : SUBSET Source, new : Source])]
<1>1. [slice |-> sources, new |-> s] \in [slice : SUBSET Source, new : Source]
  BY DEF TypeInv, Types
<1>2. <<[slice |-> sources, new |-> s]>> \in Seq([slice : SUBSET Source, new : Source])
  BY <1>1
<1> QED
  BY <1>2 DEF NotFound, TypeInv, Types

LEMMA FirstElement == ASSUME NEW S, NEW s \in Seq(S), s # <<>> PROVE s[1] \in S
OBVIOUS

LEMMA AppendTypes ==
    ASSUME TypeInv, NEW c \in Crawler, AppendSource(c)
    PROVE  /\ held' \in [Crawler -> Seq([slice : SUBSET Source, new : Source])]
           /\ sources' \subseteq Source
           /\ losses' \in Nat
<1>1. held[c][1] \in [slice : SUBSET Source, new : Source]
  <2>1. held[c] \in Seq([slice : SUBSET Source, new : Source]) /\ held[c] # <<>>
    BY DEF AppendSource, TypeInv, Types
  <2> QED
    BY <2>1, FirstElement
<1>2. <<>> \in Seq([slice : SUBSET Source, new : Source])
  OBVIOUS
<1>3. losses' \in Nat
  BY DEF AppendSource, TypeInv, Types
<1> QED
  BY <1>1, <1>2, <1>3 DEF AppendSource, TypeInv, Types

\* The files crawler, and the programs that log, leave the crawl alone.
LEMMA OthersTypes ==
    ASSUME TypeInv, Tick \/ WriteRecord \/ FilesAppend \/ \E s \in Files : FilesFind(s)
    PROVE  TypeInv'
<1>1. CASE Tick
  <2>1. now' = now + 1 /\ now < MaxTime /\ UNCHANGED <<log, sharedVars, crawlVars>>
    BY <1>1 DEF Tick
  <2>2. Resumed' = Resumed
    BY <2>1 DEF crawlVars, Resumed
  <2>0. now' \in Second .. MaxTime /\ now \in Nat /\ now <= now'
    <3>1. now \in Nat /\ now >= Second /\ MaxTime \in Nat /\ Second \in Nat
      BY Numbers
    <3> QED
      BY <2>1, <3>1
  <2>3. Types'
    BY <2>0, <2>1 DEF sharedVars, crawlVars, TypeInv, Types
  <2>4. ClockInv'
    <3>1. started <= now' /\ queryTime <= now'
      <4>1. started \in Nat /\ queryTime \in Nat /\ started <= now /\ queryTime <= now
        BY Numbers DEF TypeInv, ClockInv
      <4> QED
        BY <2>0, <2>1, <4>1
    <3>2. \A r \in DOMAIN log : log[r] <= now'
      <4>1. \A r \in DOMAIN log : log[r] \in Nat /\ log[r] <= now
        BY Numbers
      <4> QED
        BY <2>0, <2>1, <4>1
    <3> QED
      BY <2>1, <2>2, <3>1, <3>2 DEF crawlVars, TypeInv, ClockInv
  <2> QED
    BY <2>3, <2>4 DEF TypeInv
<1>2. CASE WriteRecord
  <2>1. /\ log' = Append(log, now) /\ Len(log) < MaxRecords /\ now' = now
        /\ UNCHANGED <<sharedVars, crawlVars>>
    BY <1>2 DEF WriteRecord
  <2>2. log' \in Seq(Second .. MaxTime) /\ Len(log') <= MaxRecords
    <3>1. log \in Seq(Second .. MaxTime) /\ now \in Second .. MaxTime /\ MaxRecords \in Nat
      BY DEF TypeInv, Types
    <3> QED
      BY <2>1, <3>1
  <2>3. \A r \in DOMAIN log' : log'[r] <= now
    <3>1. log \in Seq(Second .. MaxTime) /\ now \in Nat
      BY Numbers DEF TypeInv, Types
    <3>2. DOMAIN log' = 1 .. (Len(log) + 1) /\ log'[Len(log) + 1] = now
          /\ \A r \in 1 .. Len(log) : log'[r] = log[r]
      BY <2>1, <3>1
    <3>3. \A r \in DOMAIN log' : r = Len(log) + 1 \/ r \in DOMAIN log
      BY <3>2, Numbers
    <3> QED
      BY <3>1, <3>2, <3>3, Numbers
  <2>4. Resumed' = Resumed
    BY <2>1 DEF crawlVars, Resumed
  <2> QED
    BY <2>1, <2>2, <2>3, <2>4 DEF sharedVars, crawlVars, TypeInv, Types, ClockInv
<1>3. CASE FilesAppend
  <2>1. UNCHANGED <<now, log, crawlVars>> /\ AppendSource("files") /\ "files" \in Crawler
    BY <1>3 DEF FilesAppend, Crawler
  <2> QED
    BY <2>1, AppendTypes, SameResumed DEF crawlVars, TypeInv, Types, ClockInv
<1>4. ASSUME NEW s \in Files, FilesFind(s) PROVE TypeInv'
  <2>1. /\ UNCHANGED <<now, log, sources, losses, crawlVars>> /\ NotFound("files", s)
        /\ "files" \in Crawler /\ s \in Source
    BY <1>4 DEF FilesFind, Crawler, Source
  <2> QED
    BY <2>1, FoundTypes, SameResumed DEF crawlVars, TypeInv, Types, ClockInv
<1> QED
  BY <1>1, <1>2, <1>3, <1>4

LEMMA MatchingFinite ==
    ASSUME TypeInv
    PROVE  /\ Matching \subseteq DOMAIN log /\ Matching \in SUBSET Nat /\ IsFiniteSet(Matching)
           /\ Newest(Matching) \subseteq Matching /\ Cardinality(Newest(Matching)) <= MaxRead
<1>1. Matching \subseteq DOMAIN log /\ DOMAIN log = 1 .. Len(log) /\ Len(log) \in Nat
  BY Numbers DEF Matching
<1>2. IsFiniteSet(1 .. Len(log))
  BY <1>1, FS_Interval
<1>3. IsFiniteSet(Matching)
  BY <1>1, <1>2, FS_Subset
<1>4. Matching \in SUBSET Nat
  BY <1>1
<1> QED
  BY <1>1, <1>3, <1>4, NewestAreFew

LEMMA AwakeInBound == ASSUME TypeInv PROVE now + CrawlPeriod \in 0 .. MaxTime + CrawlPeriod
<1>1. now \in Nat /\ CrawlPeriod \in Nat /\ MaxTime \in Nat /\ now <= MaxTime
  BY Numbers
<1> QED
  BY <1>1

LEMMA CrawlTypes ==
    ASSUME TypeInv, Wake \/ AddEntry \/ ComputePeriod \/ Stamp \/ Query \/ QueryFails \/ Send
    PROVE  TypeInv'
<1>1. CASE Wake
  <2>1. /\ UNCHANGED <<now, log, sources, losses, offset, started, period, queryTime, result,
                       awake, times, dropped>>
        /\ pc = "sleep" /\ pc' \in {"period", "append"}
    BY <1>1 DEF Wake, FindEntry
  <2>2. held' \in [Crawler -> Seq([slice : SUBSET Source, new : Source])]
    <3>1. CASE UNCHANGED held
      BY <3>1 DEF TypeInv, Types
    <3>2. CASE NotFound("events", EventLog)
      BY <3>2, FoundTypes DEF Crawler, Source
    <3> QED
      BY <1>1, <3>1, <3>2 DEF Wake, FindEntry
  <2> QED
    BY <2>1, <2>2, SameResumed DEF TypeInv, Types, ClockInv
<1>2. CASE AddEntry
  <2>1. /\ UNCHANGED <<now, log, started, period, queryTime, result, awake, times, dropped>>
        /\ offset' = 0 /\ pc = "append" /\ pc' = "period" /\ AppendSource("events")
        /\ "events" \in Crawler
    BY <1>2 DEF AddEntry, Crawler
  <2>2. Resumed' = 0 /\ 0 \in 0 .. MaxOffset
    <3>1. Resumed' = 0
      BY <2>1 DEF Resumed
    <3> QED
      BY <3>1, ResumedAt
  <2> QED
    <3>1. 0 <= queryTime
      BY Numbers
    <3> QED
      BY <2>1, <2>2, <3>1, AppendTypes DEF TypeInv, Types, ClockInv
<1>3. CASE ComputePeriod
  <2>1. /\ UNCHANGED <<now, log, sharedVars, offset, queryTime, result, awake, times, dropped>>
        /\ started' = now /\ pc = "period" /\ pc' = "stamp" /\ Resumed' = Resumed
        /\ period' = IF offset > 0 THEN now - Resumed ELSE DeadTime
    BY <1>3 DEF ComputePeriod, Resumed
  <2>2. period' \in Nat /\ started' \in 0 .. MaxTime
    BY <2>1, Numbers DEF TypeInv, ClockInv
  <2>3. started' <= now
    BY <2>1, Numbers
  <2> QED
    BY <2>1, <2>2, <2>3 DEF sharedVars, TypeInv, Types, ClockInv
<1>4. CASE Stamp
  <2>1. /\ UNCHANGED <<now, log, sharedVars, offset, started, period, result, awake, times, dropped>>
        /\ queryTime' = now /\ pc = "stamp" /\ pc' = "query" /\ Resumed' = Resumed
    BY <1>4 DEF Stamp, Resumed
  <2>2. queryTime' \in 0 .. MaxTime /\ queryTime' <= now /\ Resumed <= queryTime' /\ queryTime' >= Second
    BY <2>1, Numbers DEF TypeInv, ClockInv
  <2> QED
    BY <2>1, <2>2 DEF sharedVars, TypeInv, Types, ClockInv
<1>5. CASE Query
  <2>1. /\ UNCHANGED <<now, log, sharedVars, started, period, queryTime, awake, times>>
        /\ offset' = queryTime \div Second /\ pc = "query" /\ pc' = "send"
        /\ result' = Newest(Matching)
        /\ dropped' = dropped \cup Beyond \cup TooOld \cup Slipped
    BY <1>5 DEF Query
  <2>2. /\ offset' \in 0 .. MaxOffset /\ Resumed' <= queryTime /\ offset' > 0
    <3>1. queryTime \in Nat /\ queryTime <= MaxTime /\ queryTime >= Second
      BY <2>1, Numbers DEF TypeInv, Types, ClockInv
    <3>2. /\ queryTime \div Second \in Nat /\ MaxTime \div Second \in Nat
          /\ queryTime \div Second <= MaxTime \div Second
      BY <3>1, Seconds, SecondsMonotone
    <3>3. queryTime \div Second > 0 /\ (queryTime \div Second) * Second <= queryTime
      BY <3>1, Seconds
    <3> QED
      BY <2>1, <3>2, <3>3 DEF Resumed, MaxOffset
  <2>3. result' \subseteq Record /\ Cardinality(result') <= MaxRead
    BY <2>1, MatchingFinite, Numbers
  <2>4. dropped' \subseteq Record
    BY <2>1, MatchingFinite, Numbers DEF Beyond, TooOld, Slipped, TypeInv, Types
  <2> QED
    BY <2>1, <2>2, <2>3, <2>4 DEF sharedVars, TypeInv, Types, ClockInv
<1>6. CASE QueryFails
  <2>1. /\ UNCHANGED <<now, log, sharedVars, offset, started, period, queryTime, result, times,
                       dropped>>
        /\ pc = "query" /\ pc' = "sleep" /\ awake' = now + CrawlPeriod /\ Resumed' = Resumed
    BY <1>6 DEF QueryFails, Sleep, Resumed
  <2>2. awake' \in 0 .. MaxTime + CrawlPeriod
    BY <2>1, AwakeInBound
  <2> QED
    BY <2>1, <2>2 DEF sharedVars, TypeInv, Types, ClockInv
<1>7. CASE Send
  <2>1. /\ UNCHANGED <<now, log, sharedVars, offset, started, period, queryTime, dropped>>
        /\ times' = [r \in Record |-> IF r \in result THEN times[r] + 1 ELSE times[r]]
        /\ result' = {} /\ pc = "send" /\ pc' = "sleep" /\ awake' = now + CrawlPeriod
        /\ Resumed' = Resumed
    BY <1>7 DEF Send, Sleep, Resumed
  <2>2. times' \in [Record -> Nat] /\ Cardinality(result') <= MaxRead
    BY <2>1, FS_EmptySet DEF TypeInv, Types
  <2>3. awake' \in 0 .. MaxTime + CrawlPeriod
    BY <2>1, AwakeInBound
  <2> QED
    BY <2>1, <2>2, <2>3 DEF sharedVars, TypeInv, Types, ClockInv
<1> QED
  BY <1>1, <1>2, <1>3, <1>4, <1>5, <1>6, <1>7

LEMMA TypeStep == TypeInv /\ [Next]_vars => TypeInv'
<1>1. ASSUME TypeInv, UNCHANGED vars PROVE TypeInv'
  BY <1>1, SameResumed DEF vars, sharedVars, crawlVars, TypeInv, Types, ClockInv
<1> QED
  BY <1>1, OthersTypes, CrawlTypes DEF Next, TimeEnds

\* The variables of the crawl hold values of their types; a container has at
\* most MaxRead records and no period is negative
\* (crawler_wineventlog_windows.go:46-120, eventlogs_windows.go).
THEOREM TypeCorrect == Spec => []TypeOK
<1>1. TypeInv => TypeOK
  BY DEF TypeInv, Types, MaxOffset, TypeOK
<1> QED
  BY <1>1, TypeInit, TypeStep, PTL DEF Spec

-----------------------------------------------------------------------------
(* The records.  A period that was computed before the query covers it but *)
(* for the delay between the two, which Slipped counts.                    *)

LEMMA OffsetCovers ==
    ASSUME TypeInv, RecordsAccounted, Query PROVE RecordsAccounted'
<1>1. /\ UNCHANGED <<now, log, started, times>>
      /\ pc = "query" /\ result = {} /\ result' = Newest(Matching)
      /\ dropped' = dropped \cup Beyond \cup TooOld \cup Slipped
      /\ offset' = queryTime \div Second
  BY DEF Query, TypeInv, ClockInv
<1>2. period = IF offset > 0 THEN started - Resumed ELSE DeadTime
  BY <1>1 DEF TypeInv, ClockInv
<1> SUFFICES ASSUME NEW r \in DOMAIN log, log[r] < Resumed'
             PROVE  times[r] > 0 \/ r \in result' \cup dropped'
  BY <1>1 DEF RecordsAccounted
<1>3. /\ now \in Nat /\ started \in Nat /\ started <= now /\ Resumed \in Nat /\ DeadTime \in Nat
      /\ log[r] \in Nat /\ log[r] <= now
  BY Numbers DEF TypeInv, ClockInv
<1>4. CASE r \in Matching
  BY <1>1, <1>4 DEF Beyond
<1>5. CASE r \notin Matching /\ offset > 0
  <2>1. ~ (now - log[r] <= started - Resumed)
    BY <1>2, <1>5 DEF Matching
  <2>2. CASE log[r] < Resumed
    BY <1>1, <2>2 DEF RecordsAccounted
  <2>3. CASE log[r] >= Resumed
    <3>1. log[r] \in Resumed .. Resumed + (now - started) - 1
      BY <1>3, <2>1, <2>3
    <3> QED
      BY <1>1, <1>5, <3>1 DEF Slipped
  <2> QED
    BY <1>3, <2>2, <2>3
<1>6. CASE r \notin Matching /\ ~ (offset > 0)
  <2>1. ~ (now - log[r] <= DeadTime)
    BY <1>2, <1>6 DEF Matching
  <2>2. log[r] < now - DeadTime
    BY <1>3, <2>1
  <2> QED
    BY <1>1, <1>6, <2>2 DEF TooOld
<1> QED
  BY <1>4, <1>5, <1>6

LEMMA AccountStep == TypeInv /\ RecordsAccounted /\ [Next]_vars => RecordsAccounted'
<1> SUFFICES ASSUME TypeInv, RecordsAccounted, [Next]_vars PROVE RecordsAccounted'
  OBVIOUS
<1>1. CASE UNCHANGED <<log, offset, times, result, dropped>>
  BY <1>1, SameResumed DEF RecordsAccounted
<1>2. CASE Tick \/ TimeEnds \/ FilesAppend \/ (\E s \in Files : FilesFind(s)) \/ UNCHANGED vars
  BY <1>1, <1>2 DEF Tick, TimeEnds, FilesAppend, FilesFind, vars, crawlVars
<1>3. CASE WriteRecord
  <2>1. log' = Append(log, now) /\ UNCHANGED <<offset, times, result, dropped>>
    BY <1>3 DEF WriteRecord, crawlVars
  <2>2. Resumed' = Resumed /\ Resumed <= now /\ Resumed \in Nat /\ now \in Nat
    BY <2>1, SameResumed, Numbers DEF TypeInv, ClockInv
  <2>3. /\ DOMAIN log' = 1 .. (Len(log) + 1) /\ log'[Len(log) + 1] = now
        /\ \A r \in 1 .. Len(log) : log'[r] = log[r]
    BY <2>1 DEF TypeInv, Types
  <2>4. \A r \in DOMAIN log' : r = Len(log) + 1 \/ r \in DOMAIN log
    BY <2>3, Numbers
  <2>5. ~ (now < Resumed)
    BY <2>2
  <2> QED
    BY <2>1, <2>2, <2>3, <2>4, <2>5, Numbers DEF RecordsAccounted
<1>4. CASE Wake \/ ComputePeriod \/ Stamp \/ QueryFails
  BY <1>1, <1>4 DEF Wake, FindEntry, ComputePeriod, Stamp, QueryFails
<1>5. CASE AddEntry
  <2>1. offset' = 0 /\ log' = log
    BY <1>5 DEF AddEntry
  <2>2. Resumed' = 0
    BY <2>1 DEF Resumed
  <2>3. \A r \in DOMAIN log : ~ (log[r] < 0)
    BY Numbers
  <2> QED
    BY <2>1, <2>2, <2>3 DEF RecordsAccounted
<1>6. CASE Query
  BY <1>6, OffsetCovers
<1>7. CASE Send
  <2>1. /\ UNCHANGED <<log, offset, dropped>> /\ result' = {}
        /\ times' = [r \in Record |-> IF r \in result THEN times[r] + 1 ELSE times[r]]
    BY <1>7 DEF Send
  <2>2. \A r \in Record : times[r] \in Nat
    BY DEF TypeInv, Types
  <2>3. ASSUME NEW r \in DOMAIN log
        PROVE  (times[r] > 0 => times'[r] > 0) /\ (r \in result => times'[r] > 0)
    <3>1. r \in Record
      BY Numbers
    <3>2. times'[r] = (IF r \in result THEN times[r] + 1 ELSE times[r]) /\ times[r] \in Nat
      BY <2>1, <2>2, <3>1
    <3> QED
      BY <3>2
  <2> QED
    BY <2>1, <2>3, SameResumed DEF RecordsAccounted
<1> QED
  BY <1>2, <1>3, <1>4, <1>5, <1>6, <1>7 DEF Next

\* Behind the offset is no record that was neither sent nor dropped in one of the
\* ways of the code: by the limit, by the dead time, or in the delay between
\* the period and the query (crawler_wineventlog_windows.go:70-110).
THEOREM RecordsAccountedHolds == Spec => []RecordsAccounted
<1>1. Init => RecordsAccounted
  BY DEF Init, RecordsAccounted
<1> QED
  BY <1>1, TypeInit, TypeStep, AccountStep, PTL DEF Spec

-----------------------------------------------------------------------------
(* The race for SystemState.Sources.  Only a slice that the files crawler  *)
(* has read before the entry was there can overwrite it, and the append    *)
(* puts one more file into the slice: the next slices have it, too.        *)

FilesIn(slice) == Cardinality(slice \cap Files)

HeldEvents == held["events"] # <<>> =>
                  /\ pc = "append"
                  /\ EventLog \notin sources
                  /\ held["events"][1].new = EventLog
                  /\ losses <= FilesIn(held["events"][1].slice)

HeldFiles == held["files"] # <<>> =>
                 /\ held["files"][1].new \in Files \ held["files"][1].slice
                 /\ EventLog \in held["files"][1].slice => EventLog \in sources
                 /\ losses <= FilesIn(held["files"][1].slice)

ShareInv == HeldEvents /\ HeldFiles /\ losses <= FilesIn(sources)

LEMMA FilesCounted ==
    ASSUME NEW slice
    PROVE  /\ FilesIn(slice) \in Nat
           /\ FilesIn(slice) <= Cardinality(Files)
           /\ \A s \in Files \ slice : FilesIn(slice \cup {s}) = FilesIn(slice) + 1
           /\ FilesIn(slice \cup {EventLog}) = FilesIn(slice)
<1>1. slice \cap Files \in SUBSET Files
  OBVIOUS
<1>2. IsFiniteSet(slice \cap Files) /\ FilesIn(slice) <= Cardinality(Files)
  BY <1>1, FS_Subset DEF FilesIn
<1>3. FilesIn(slice) \in Nat
  BY <1>2, FS_CardinalityType DEF FilesIn
<1>4. ASSUME NEW s \in Files \ slice PROVE FilesIn(slice \cup {s}) = FilesIn(slice) + 1
  <2>1. (slice \cup {s}) \cap Files = (slice \cap Files) \cup {s} /\ s \notin slice \cap Files
    BY <1>4
  <2>2. Cardinality((slice \cap Files) \cup {s}) = Cardinality(slice \cap Files) + 1
    BY <1>2, <2>1, FS_AddElement, Zenon
  <2> QED
    BY <2>1, <2>2 DEF FilesIn
<1>5. (slice \cup {EventLog}) \cap Files = slice \cap Files
  OBVIOUS
<1> QED
  BY <1>2, <1>3, <1>4, <1>5 DEF FilesIn

LEMMA HeldTypes ==
    ASSUME TypeInv PROVE DOMAIN held = {"files", "events"} /\ losses \in Nat
BY DEF TypeInv, Types, Crawler

LEMMA ShareInit == Init => ShareInv
<1> SUFFICES ASSUME Init PROVE ShareInv
  OBVIOUS
<1>1. held["events"] = <<>> /\ held["files"] = <<>> /\ losses = 0
  BY DEF Init, Crawler
<1>2. FilesIn(sources) \in Nat
  BY FilesCounted
<1>3. losses <= FilesIn(sources)
  BY <1>1, <1>2
<1> QED
  BY <1>1, <1>3 DEF ShareInv, HeldEvents, HeldFiles

LEMMA ShareStep == TypeInv /\ ShareInv /\ [Next]_vars => ShareInv'
<1> SUFFICES ASSUME TypeInv, ShareInv, [Next]_vars PROVE ShareInv'
  OBVIOUS
<1>1. CASE UNCHANGED <<sources, held, losses>> /\ (pc = "append" => pc' = "append")
  BY <1>1 DEF ShareInv, HeldEvents, HeldFiles
<1>2. CASE Tick \/ TimeEnds \/ WriteRecord \/ UNCHANGED vars
  BY <1>1, <1>2 DEF Tick, TimeEnds, WriteRecord, vars, sharedVars, crawlVars
<1>3. CASE ComputePeriod \/ Stamp \/ Query \/ QueryFails \/ Send
  BY <1>1, <1>3 DEF ComputePeriod, Stamp, Query, QueryFails, Send, sharedVars
<1>4. ASSUME NEW s \in Files, FilesFind(s) PROVE ShareInv'
  <2>1. /\ s \notin sources /\ UNCHANGED <<sources, losses, pc>>
        /\ held' = [held EXCEPT !["files"] = <<[slice |-> sources, new |-> s]>>]
    BY <1>4 DEF FilesFind, NotFound, crawlVars
  <2>2. held'["files"] = <<[slice |-> sources, new |-> s]>> /\ held'["events"] = held["events"]
    BY <2>1, HeldTypes
  <2> QED
    BY <2>1, <2>2 DEF ShareInv, HeldEvents, HeldFiles
<1>5. CASE FilesAppend
  <2> DEFINE slice == held["files"][1].slice
             s == held["files"][1].new
  <2>1. /\ held["files"] # <<>> /\ sources' = slice \cup {s} /\ pc' = pc
        /\ held' = [held EXCEPT !["files"] = <<>>]
        /\ losses' = IF EventLog \in sources \ sources' THEN losses + 1 ELSE losses
    BY <1>5 DEF FilesAppend, AppendSource, crawlVars
  <2>2. held'["files"] = <<>> /\ held'["events"] = held["events"] /\ losses \in Nat
    BY <2>1, HeldTypes
  <2>3. /\ s \in Files \ slice /\ (EventLog \in slice => EventLog \in sources)
        /\ losses <= FilesIn(slice)
    BY <2>1 DEF ShareInv, HeldFiles
  <2> HIDE DEF slice, s
  <2>4. FilesIn(sources') = FilesIn(slice) + 1 /\ FilesIn(slice) \in Nat
    BY <2>1, <2>3, FilesCounted
  <2>5. losses' <= FilesIn(sources')
    BY <2>1, <2>2, <2>3, <2>4
  <2>6. HeldFiles'
    BY <2>2 DEF HeldFiles
\* While the events crawler holds a slice there is no entry to be lost.
  <2>7. HeldEvents'
    <3>1. s # EventLog
      BY <2>3
    <3>2. CASE EventLog \in sources
      BY <2>2, <3>2 DEF ShareInv, HeldEvents
    <3>3. CASE EventLog \notin sources
      BY <2>1, <2>2, <2>3, <3>1, <3>3 DEF ShareInv, HeldEvents
    <3> QED
      BY <3>2, <3>3
  <2> QED
    BY <2>5, <2>6, <2>7 DEF ShareInv
<1>6. CASE Wake
  <2>1. UNCHANGED <<sources, losses>> /\ pc = "sleep" /\ held["events"] = <<>>
    BY <1>6 DEF Wake, FindEntry, ShareInv, HeldEvents
  <2>2. CASE UNCHANGED held
    BY <2>1, <2>2 DEF ShareInv, HeldEvents, HeldFiles
  <2>3. CASE NotFound("events", EventLog) /\ pc' = "append"
    <3>1. /\ EventLog \notin sources
          /\ held'["events"] = <<[slice |-> sources, new |-> EventLog]>>
          /\ held'["files"] = held["files"]
      BY <2>3, HeldTypes DEF NotFound
    <3> QED
      BY <2>1, <2>3, <3>1 DEF ShareInv, HeldEvents, HeldFiles
  <2> QED
    BY <1>6, <2>2, <2>3 DEF Wake, FindEntry
<1>7. CASE AddEntry
  <2> DEFINE slice == held["events"][1].slice
  <2>1. /\ held["events"] # <<>> /\ held' = [held EXCEPT !["events"] = <<>>]
        /\ sources' = slice \cup {EventLog} /\ losses <= FilesIn(slice)
        /\ losses' = IF EventLog \in sources \ sources' THEN losses + 1 ELSE losses
    BY <1>7 DEF AddEntry, AppendSource, ShareInv, HeldEvents
  <2>2. held'["files"] = held["files"] /\ held'["events"] = <<>> /\ losses' = losses
    BY <2>1, HeldTypes
  <2> HIDE DEF slice
  <2>3. losses' <= FilesIn(sources')
    BY <2>1, <2>2, FilesCounted
  <2> QED
    BY <2>1, <2>2, <2>3 DEF ShareInv, HeldEvents, HeldFiles
<1> QED
  BY <1>2, <1>3, <1>4, <1>5, <1>6, <1>7 DEF Next

\* The unlocked appends to SystemState.Sources lose the entry of the event log
\* at most once for each source of the other crawler (system_state.go:93-110).
THEOREM LossesBoundedHolds == Spec => []LossesBounded
<1>1. TypeInv /\ ShareInv => LossesBounded
  <2> SUFFICES ASSUME TypeInv, ShareInv PROVE losses <= Cardinality(Files)
    BY DEF LossesBounded
  <2>1. losses <= FilesIn(sources) /\ FilesIn(sources) <= Cardinality(Files)
    BY FilesCounted DEF ShareInv
  <2>2. losses \in Nat /\ FilesIn(sources) \in Nat /\ Cardinality(Files) \in Nat
    BY HeldTypes, FilesCounted, FS_CardinalityType
  <2> QED
    BY <2>1, <2>2
<1> QED
  BY <1>1, TypeInit, TypeStep, ShareInit, ShareStep, PTL DEF Spec

-----------------------------------------------------------------------------
(* How often a record is sent.  Each entry, the lost ones and the one there *)
(* is, sends a record at most twice.  Once it has sent it, the record is    *)
(* older than a crawl period when the next query is stamped, so its offset  *)
(* is behind no second crawl that sends it.                                 *)

Entries == losses + IF EventLog \in sources THEN 1 ELSE 0

Sendings(r) == times[r] + IF r \in result THEN 1 ELSE 0

\* What the sleep of a crawl period leaves of the time since the record.
SentLately(r) == /\ pc = "sleep" => log[r] + CrawlPeriod <= awake
                 /\ pc = "send" => log[r] <= now
                 /\ pc = "query" => log[r] + CrawlPeriod <= queryTime
                 /\ pc \notin {"sleep", "send", "query"} => log[r] + CrawlPeriod <= now

Twice(r) == /\ Sendings(r) <= 2 * Entries
            /\ Entries > 0 /\ Sendings(r) > 2 * Entries - 2 =>
                   offset > 0 /\ SentLately(r)
            /\ Entries > 0 /\ Sendings(r) > 2 * Entries - 1 => log[r] < Resumed

SendInv == /\ Entries = 0 => offset = 0 /\ pc \in {"sleep", "append"}
           /\ result \subseteq DOMAIN log
           /\ \A r \in Record : /\ times[r] > 0 => r \in DOMAIN log
                               /\ Twice(r)

LEMMA Counts ==
    ASSUME TypeInv
    PROVE  /\ Entries \in Nat /\ losses \in Nat
           /\ \A r \in Record : times[r] \in Nat /\ Sendings(r) \in Nat
<1>1. losses \in Nat /\ \A r \in Record : times[r] \in Nat
  BY DEF TypeInv, Types
<1>2. Entries \in Nat
  BY <1>1 DEF Entries
<1>3. \A r \in Record : Sendings(r) \in Nat
  BY <1>1 DEF Sendings
<1> QED
  BY <1>1, <1>2, <1>3

\* A record that was sent is in the log, at a time that has been.
LEMMA SentIsLogged ==
    ASSUME TypeInv, SendInv, NEW r \in Record, Sendings(r) > 0
    PROVE  /\ r \in DOMAIN log /\ log[r] \in Nat /\ log[r] <= now
<1>1. times[r] > 0 \/ r \in result
  BY Counts DEF Sendings
<1>2. r \in DOMAIN log
  BY <1>1 DEF SendInv
<1> QED
  BY <1>2, Numbers

\* Only an append that adds the entry starts to count anew.
LEMMA EntriesKept ==
    ASSUME TypeInv, ShareInv, Next, ~ AddEntry PROVE Entries' = Entries
<1>1. CASE UNCHANGED <<sources, losses>>
  BY <1>1 DEF Entries
<1>2. CASE FilesAppend
  <2> DEFINE slice == held["files"][1].slice
             s == held["files"][1].new
  <2>1. /\ sources' = slice \cup {s} /\ losses \in Nat
        /\ losses' = IF EventLog \in sources \ sources' THEN losses + 1 ELSE losses
        /\ s \in Files /\ (EventLog \in slice => EventLog \in sources)
    BY <1>2, HeldTypes DEF FilesAppend, AppendSource, ShareInv, HeldFiles
  <2> HIDE DEF slice, s
  <2>2. EventLog \in sources' => EventLog \in sources
    BY <2>1
  <2> QED
    BY <2>1, <2>2 DEF Entries
<1>3. CASE Tick \/ TimeEnds \/ WriteRecord \/ \E s \in Files : FilesFind(s)
  BY <1>1, <1>3 DEF Tick, TimeEnds, WriteRecord, FilesFind, vars, sharedVars
<1>4. CASE Wake \/ ComputePeriod \/ Stamp \/ Query \/ QueryFails \/ Send
  BY <1>1, <1>4 DEF Wake, FindEntry, ComputePeriod, Stamp, Query, QueryFails, Send, sharedVars
<1> QED
  BY <1>2, <1>3, <1>4 DEF Next

\* A step that neither adds the entry nor queries sends what it had to send,
\* and keeps the time since the record.
LEMMA TwiceKept ==
    ASSUME TypeInv, SendInv, NEW r \in Record,
           Entries' = Entries, UNCHANGED offset, Sendings(r)' = Sendings(r),
           Sendings(r) > 0 => log'[r] = log[r] /\ (SentLately(r) => SentLately(r)')
    PROVE  Twice(r)'
<1>1. Resumed' = Resumed /\ Twice(r) /\ Entries \in Nat /\ Sendings(r) \in Nat
  BY SameResumed, Counts DEF SendInv
<1>2. CASE Sendings(r) > 0
  BY <1>1, <1>2 DEF Twice
<1>3. CASE ~ (Sendings(r) > 0)
  <2>1. Sendings(r) = 0
    BY <1>1, <1>3
  <2> QED
    BY <1>1, <2>1 DEF Twice
<1> QED
  BY <1>2, <1>3

\* The query: it sends a record once more only from the second of the offset
\* on, and the new offset is beyond what was sent before the sleep.
\* A record a crawl period before a query is before the second of the query.
LEMMA PeriodPassed ==
    ASSUME NEW r \in Nat, NEW second \in Nat, TypeInv,
           r + CrawlPeriod <= queryTime, queryTime < second + Second
    PROVE  r < second
<1>1. /\ queryTime \in Nat /\ CrawlPeriod \in Nat /\ Second \in Nat
      /\ CrawlPeriod >= Second
  BY Numbers
<1> QED
  BY <1>1

LEMMA QueryTwice ==
    ASSUME TypeInv, ShareInv, SendInv, Query, NEW r \in Record
    PROVE  Twice(r)'
<1>1. /\ UNCHANGED <<now, log, times>> /\ Entries' = Entries
      /\ pc = "query" /\ pc' = "send" /\ result = {} /\ result' = Newest(Matching)
      /\ offset' = queryTime \div Second
  <2>1. Query => Next /\ ~ AddEntry
    BY DEF Next, Query, AddEntry
  <2> QED
    BY <2>1, EntriesKept DEF Query, TypeInv, ClockInv
<1>2. offset' > 0 /\ Resumed' \in Nat /\ queryTime < Resumed' + Second
  <2>1. queryTime \in Nat /\ queryTime >= Second
    BY <1>1, Numbers DEF TypeInv, ClockInv
  <2> QED
    BY <1>1, <2>1, Seconds, ResumedAt DEF Resumed
<1>3. /\ Entries \in Nat /\ Entries > 0 /\ Twice(r) /\ times[r] \in Nat
      /\ Sendings(r) = times[r]
  BY <1>1, Counts DEF SendInv, Sendings
<1>4. CASE r \notin result'
  <2>1. Sendings(r)' = Sendings(r)
    BY <1>1, <1>3, <1>4 DEF Sendings
  <2>2. CASE Sendings(r) > 2 * Entries - 2
    <3>1. Sendings(r) > 0
      BY <1>3, <2>2
    <3>2. log[r] \in Nat /\ log[r] <= now
      BY <3>1, SentIsLogged
    <3>3. log[r] + CrawlPeriod <= queryTime
      BY <1>1, <1>3, <2>2 DEF Twice, SentLately
    <3>4. log[r] < Resumed'
      BY <1>2, <3>2, <3>3, PeriodPassed
    <3>5. Sendings(r) <= 2 * Entries
      BY <1>3 DEF Twice
    <3> QED
      BY <1>1, <1>2, <2>1, <3>2, <3>4, <3>5 DEF Twice, SentLately
  <2>3. CASE ~ (Sendings(r) > 2 * Entries - 2)
    BY <1>1, <1>3, <2>1, <2>3 DEF Twice
  <2> QED
    BY <2>2, <2>3
<1>5. CASE r \in result'
  <2>1. Sendings(r)' = times[r] + 1
    BY <1>1, <1>5 DEF Sendings
  <2>2. r \in Matching /\ r \in DOMAIN log /\ log[r] \in Nat /\ log[r] <= now
    BY <1>1, <1>5, MatchingFinite, Numbers
  <2>3. SentLately(r)'
    BY <1>1, <2>2 DEF SentLately
  <2>4. times[r] > 2 * Entries - 2 => offset > 0 /\ log[r] + CrawlPeriod <= queryTime
    BY <1>1, <1>3 DEF Twice, SentLately
  <2>5. offset > 0 => log[r] >= Resumed
    <3> SUFFICES ASSUME offset > 0 PROVE log[r] >= Resumed
      OBVIOUS
    <3>1. now - log[r] <= started - Resumed
      BY <1>1, <2>2 DEF Matching, TypeInv, ClockInv
    <3>2. started <= now
      BY DEF TypeInv, ClockInv
    <3> QED
      BY <2>2, <3>1, <3>2, Numbers
  <2>6. times[r] <= 2 * Entries - 1
    <3>1. ASSUME times[r] > 2 * Entries - 1 PROVE FALSE
      <4>1. log[r] < Resumed /\ offset > 0
        BY <1>3, <2>4, <3>1 DEF Twice
      <4> QED
        BY <2>2, <2>5, <4>1, Numbers
    <3> QED
      BY <1>3, <3>1
  <2>7. Sendings(r)' > 2 * Entries - 1 => log[r] < Resumed'
    <3> SUFFICES ASSUME Sendings(r)' > 2 * Entries - 1 PROVE log[r] < Resumed'
      OBVIOUS
    <3>1. times[r] > 2 * Entries - 2
      BY <1>3, <2>1
    <3>2. log[r] + CrawlPeriod <= queryTime
      BY <2>4, <3>1
    <3> QED
      BY <1>2, <2>2, <3>2, PeriodPassed
  <2>8. Sendings(r)' <= 2 * Entries
    BY <1>3, <2>1, <2>6
  <2> QED
    BY <1>1, <1>2, <2>3, <2>7, <2>8 DEF Twice
<1> QED
  BY <1>4, <1>5

\* The steps of the others, and of the clock.
LEMMA OthersSend ==
    ASSUME TypeInv, ShareInv, SendInv, Next,
           Tick \/ WriteRecord \/ FilesAppend \/ \E s \in Files : FilesFind(s)
    PROVE  SendInv'
<1>1. UNCHANGED crawlVars
  BY DEF Tick, WriteRecord, FilesAppend, FilesFind
<1>2. Entries' = Entries
  <2>1. ~ AddEntry
    BY <1>1 DEF AddEntry, crawlVars
  <2> QED
    BY <2>1, EntriesKept
<1>3. DOMAIN log \subseteq DOMAIN log' /\ \A r \in DOMAIN log : log'[r] = log[r]
  <2>1. CASE UNCHANGED log
    BY <2>1
  <2>2. CASE log' = Append(log, now)
    <3>1. log \in Seq(Second .. MaxTime) /\ now \in Nat
      BY Numbers DEF TypeInv, Types
    <3>2. /\ DOMAIN log = 1 .. Len(log) /\ DOMAIN log' = 1 .. (Len(log) + 1)
          /\ \A r \in 1 .. Len(log) : log'[r] = log[r]
      BY <2>2, <3>1
    <3>3. 1 .. Len(log) \subseteq 1 .. (Len(log) + 1)
      BY Numbers
    <3> QED
      BY <3>2, <3>3
  <2> QED
    BY <2>1, <2>2 DEF Tick, WriteRecord, FilesAppend, FilesFind
<1>4. now' \in Nat /\ now <= now'
  <2>1. now' = now \/ now' = now + 1
    BY DEF Tick, WriteRecord, FilesAppend, FilesFind
  <2> QED
    BY <2>1, Numbers
<1>5. ASSUME NEW r \in Record PROVE Twice(r)'
  <2>1. Sendings(r)' = Sendings(r) /\ UNCHANGED offset
    BY <1>1 DEF crawlVars, Sendings
  <2>2. ASSUME Sendings(r) > 0 PROVE log'[r] = log[r] /\ (SentLately(r) => SentLately(r)')
    <3>1. r \in DOMAIN log /\ log[r] \in Nat
      BY <2>2, SentIsLogged
    <3>2. log'[r] = log[r]
      BY <1>3, <3>1
    <3>3. log[r] <= now => log[r] <= now'
      BY <1>4, <3>1, Numbers
    <3>4. log[r] + CrawlPeriod <= now => log[r] + CrawlPeriod <= now'
      <4>1. now \in Nat /\ CrawlPeriod \in Nat
        BY Numbers
      <4> QED
        BY <1>4, <3>1, <4>1
    <3> QED
      BY <1>1, <3>2, <3>3, <3>4 DEF crawlVars, SentLately
  <2> QED
    BY <1>2, <2>1, <2>2, TwiceKept
<1>6. \A r \in Record : times'[r] > 0 => r \in DOMAIN log'
  BY <1>1, <1>3 DEF crawlVars, SendInv
<1> QED
  BY <1>1, <1>2, <1>3, <1>5, <1>6 DEF crawlVars, SendInv

\* The steps of the crawl but the query and the append.
LEMMA CrawlSends ==
    ASSUME TypeInv, ShareInv, SendInv, Next,
           Wake \/ ComputePeriod \/ Stamp \/ QueryFails \/ Send
    PROVE  SendInv'
<1>1. UNCHANGED <<now, log, offset>> /\ DOMAIN log' = DOMAIN log
  BY DEF Wake, FindEntry, ComputePeriod, Stamp, QueryFails, Send
<1>2. Entries' = Entries
  <2>1. ~ AddEntry
    BY DEF AddEntry, Wake, FindEntry, ComputePeriod, Stamp, QueryFails, Send
  <2> QED
    BY <2>1, EntriesKept
<1>3. ASSUME NEW r \in Record PROVE Sendings(r)' = Sendings(r) /\ (times'[r] > 0 => r \in DOMAIN log)
  <2>1. CASE UNCHANGED <<times, result>>
    BY <2>1 DEF Sendings, SendInv
  <2>2. CASE Send
    <3>1. times'[r] = (IF r \in result THEN times[r] + 1 ELSE times[r]) /\ result' = {}
      BY <2>2 DEF Send
    <3>2. times[r] \in Nat
      BY Counts
    <3>3. Sendings(r)' = times'[r]
      BY <3>1, <3>2 DEF Sendings
    <3> QED
      BY <3>1, <3>2, <3>3 DEF Sendings, SendInv
  <2> QED
    BY <2>1, <2>2 DEF Wake, FindEntry, ComputePeriod, Stamp, QueryFails
<1>4. result' \subseteq DOMAIN log'
  BY <1>1 DEF SendInv, Wake, FindEntry, ComputePeriod, Stamp, QueryFails, Send
<1>5. Entries' = 0 => offset' = 0 /\ pc' \in {"sleep", "append"}
  <2> SUFFICES ASSUME Entries = 0 PROVE offset = 0 /\ pc' \in {"sleep", "append"}
    BY <1>1, <1>2
  <2>1. offset = 0 /\ pc \in {"sleep", "append"}
    BY DEF SendInv
  <2>2. Wake
    BY <2>1 DEF ComputePeriod, Stamp, QueryFails, Send
  <2>3. EventLog \notin sources
    BY Counts DEF Entries
  <2> QED
    BY <2>1, <2>2, <2>3 DEF Wake, FindEntry
<1>6. ASSUME NEW r \in Record, Sendings(r) > 0, SentLately(r) PROVE SentLately(r)'
  <2>1. log[r] \in Nat /\ log[r] <= now
    BY <1>6, SentIsLogged
  <2>2. CASE Wake
    <3>1. pc = "sleep" /\ pc' \in {"period", "append"} /\ now >= awake
      BY <2>2 DEF Wake, FindEntry
    <3>2. awake \in Nat /\ now \in Nat /\ CrawlPeriod \in Nat
      BY Numbers
    <3>3. log[r] + CrawlPeriod <= awake
      BY <1>6, <3>1 DEF SentLately
    <3>4. log[r] + CrawlPeriod <= now
      BY <2>1, <3>1, <3>2, <3>3
    <3> QED
      BY <1>1, <3>1, <3>4 DEF SentLately
  <2>3. CASE ComputePeriod
    BY <1>1, <1>6, <2>3 DEF ComputePeriod, SentLately
  <2>4. CASE Stamp
    BY <1>1, <1>6, <2>4 DEF Stamp, SentLately
  <2>5. CASE QueryFails \/ Send
    <3>1. pc' = "sleep" /\ awake' = now + CrawlPeriod
      BY <2>5 DEF QueryFails, Send, Sleep
    <3>2. now \in Nat /\ CrawlPeriod \in Nat
      BY Numbers
    <3>3. log[r] + CrawlPeriod <= awake'
      BY <2>1, <3>1, <3>2
    <3> QED
      BY <1>1, <3>1, <3>3 DEF SentLately
  <2> QED
    BY <2>2, <2>3, <2>4, <2>5
<1>7. ASSUME NEW r \in Record PROVE Twice(r)'
  BY <1>1, <1>2, <1>3, <1>6, TwiceKept
<1> QED
  BY <1>1, <1>3, <1>4, <1>5, <1>7 DEF SendInv

\* The entry that is added counts two more.
LEMMA AddEntrySends ==
    ASSUME TypeInv, ShareInv, SendInv, AddEntry PROVE SendInv'
<1>1. /\ UNCHANGED <<log, result, times>> /\ offset' = 0 /\ pc' = "period"
      /\ EventLog \in sources' /\ EventLog \notin sources /\ losses' = losses
  BY DEF AddEntry, AppendSource, ShareInv, HeldEvents
<1>2. Entries' = Entries + 1 /\ Entries \in Nat
  BY <1>1, Counts DEF Entries
<1>3. ASSUME NEW r \in Record PROVE Twice(r)'
  <2>1. Sendings(r)' = Sendings(r) /\ Sendings(r) \in Nat /\ Sendings(r) <= 2 * Entries
    BY <1>1, Counts DEF Sendings, SendInv, Twice
  <2>2. /\ Sendings(r)' <= 2 * Entries'
        /\ ~ (Sendings(r)' > 2 * Entries' - 2) /\ ~ (Sendings(r)' > 2 * Entries' - 1)
    BY <1>2, <2>1
  <2> QED
    BY <2>2 DEF Twice
<1>4. Entries' # 0
  BY <1>2
<1> QED
  BY <1>1, <1>3, <1>4 DEF SendInv

LEMMA SendStep == TypeInv /\ ShareInv /\ SendInv /\ [Next]_vars => SendInv'
<1> SUFFICES ASSUME TypeInv, ShareInv, SendInv, [Next]_vars PROVE SendInv'
  OBVIOUS
<1>1. CASE UNCHANGED vars
  <2>1. /\ UNCHANGED <<now, log, sources, losses, pc, offset, queryTime, result, awake, times>>
        /\ Entries' = Entries /\ Resumed' = Resumed
    BY <1>1, SameResumed DEF vars, sharedVars, crawlVars, Entries
  <2>2. \A r \in Record : Twice(r) => Twice(r)'
    BY <2>1 DEF Twice, Sendings, SentLately
  <2> QED
    BY <2>1, <2>2 DEF SendInv
<1>2. CASE Next
  <2>1. CASE Query
    <3>1. UNCHANGED <<log, times>> /\ offset' = queryTime \div Second /\ pc = "query"
          /\ result' = Newest(Matching) /\ pc' = "send"
      BY <2>1 DEF Query
    <3>2. Entries' # 0
      <4>1. Query => ~ AddEntry
        BY DEF Query, AddEntry
      <4>2. Entries' = Entries
        BY <1>2, <2>1, <4>1, EntriesKept
      <4> QED
        BY <3>1, <4>2 DEF SendInv
    <3>3. result' \subseteq DOMAIN log'
      BY <3>1, MatchingFinite
    <3> QED
      BY <2>1, <3>1, <3>2, <3>3, QueryTwice DEF SendInv
  <2> QED
    BY <1>1, <1>2, <2>1, OthersSend, CrawlSends, AddEntrySends DEF Next, TimeEnds
<1> QED
  BY <1>1, <1>2

\* No record is sent more than twice, and twice more for each loss of the entry
\* (crawler_wineventlog_windows.go:70-110, "add one millisecond" is not done).
THEOREM SentTwiceAtMostHolds == Spec => []SentTwiceAtMost
<1>1. Init => SendInv
  <2> SUFFICES ASSUME Init PROVE SendInv
    OBVIOUS
  <2>1. /\ losses = 0 /\ (EventLog \notin sources => offset = 0) /\ pc = "sleep"
        /\ result = {} /\ \A r \in Record : times[r] = 0
    BY DEF Init
  <2>2. /\ Entries \in {0, 1} /\ (Entries = 0 => EventLog \notin sources)
        /\ \A r \in Record : Sendings(r) = 0
    BY <2>1 DEF Entries, Sendings
  <2> QED
    BY <2>1, <2>2 DEF SendInv, Twice
<1>2. TypeInv /\ SendInv => SentTwiceAtMost
  <2> SUFFICES ASSUME TypeInv, SendInv, NEW r \in Record PROVE times[r] <= 2 * (losses + 1)
    BY DEF SentTwiceAtMost
  <2>1. Sendings(r) <= 2 * Entries /\ times[r] \in Nat /\ losses \in Nat
    BY Counts DEF SendInv, Twice
  <2>2. Entries <= losses + 1 /\ Entries \in Nat
    BY <2>1 DEF Entries
  <2>3. times[r] <= Sendings(r) /\ Sendings(r) \in Nat
    BY <2>1 DEF Sendings
  <2> QED
    BY <2>1, <2>2, <2>3
<1> QED
  BY <1>1, <1>2, TypeInit, TypeStep, ShareInit, ShareStep, SendStep, PTL DEF Spec
=============================================================================
