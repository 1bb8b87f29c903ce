# dhound-agent in TLA+

A verification development of dhound-agent, the program that watches the logs
of a host, turns lines into security events and posts them to a server. The
modules model the pipeline of goroutines between the log files and the server,
TLC checks them on small instances, and TLAPS proves the central properties for
every value of the constants. Paths below are relative to the repository
(`src/`), module names to this directory.

## 1. The system

`program.go` wires goroutines with unbuffered channels:

    FilesCrawler ----+                                       .state/.net_<second>
    (crawler_files)  |                                              ^  |
                     +--> IpEnricher --> Queue --> HttpGateway -----+--+--> server
    WinEventLog -----+   (ip_enricher)  (queue)   (http_gateway)
    Crawler                                            |
       ^                                               v
       +------- Find(), Restore() ------------- SystemState --> .state/.dhound-state

| component | state | operations | modelled by |
|---|---|---|---|
| `FilesCrawler` | position of each file in its `SourceState`, the open file, the buffered reader | `_RunOnce` every minute: glob, identify by inode, skip dead or unchanged files, seek, read, parse, send | `FilesCrawler`, abstractly `LogReader` |
| `WinEventLogCrawler` | the second of the last query in its `SourceState` | `_RunOnce` every minute: find the entry, query the records since that second, parse, send | `WinEventLog` |
| `IpEnricher` | map of addresses to DNS names, shared by two goroutines | `Run` attaches the map to a container and passes it on, `Sync` fills the map, or on Windows replaces it | `IpEnricher` (Linux), `Enricher` (both builds); the hop of a container, `Agent!Enrich` |
| `Queue` | `_items`, `_containsCriticalEvent`, `_firstRun`, `_lastRun`, a ticker goroutine and an `AfterFunc` | receive, decide to flush, `Flush` | `Queue`, abstractly `BatchQueue` |
| `HttpGateway` | the batch in hand, the temporary files | resend the files, post the batch, save what failed, pass the batch on | `HttpGateway`, abstractly `Gateway` |
| `SystemState` | the state file, `Sources` | `Sync` on every batch: read, expire, apply, `Save`; `Restore`, `Find` | `SystemState`, abstractly `OffsetStore` |
| `Program` | the wiring | `Start`, `Stop` (which drains nothing) | `Agent`, its contract `Delivery` |
| rules of a file | `pathOnRulesMap`, rebuilt for every crawl | assign rules to files, parse a line with them, remove duplicate events | `FileRules` |
| options, configuration | read once at the start | `LoadConfig`: main file, rule files one by one; `InternalRun`: exit, or start the crawlers | `Startup` |
| `Utf8Reader` | none beyond a crawl | choose a decoder from the first bytes, the rule and the system | `Decoder` |
| init script, `file_windows.go`, `version.go` | | | not modelled, see section 8 |

How they interact. A container carries the events of one crawl of one file and
the offset up to which it was read. The queue groups containers into batches; a
batch without containers is a heartbeat. Every send blocks until the receiver
is back at its `range`. The offset is stored only at the end of the chain: the
gateway sends a batch on to the system state after `SendToServer` returns, so
what is stored must already be at the server, in a temporary file, or
deliberately given up. A restart loses everything in memory and resumes from
the state file, or from the beginning where that file cannot be read.

What is hard here, with the line of code at which it bites, is the list
`hazards` of `PROJECT.json`. The important ones: a restart between any two of
the goroutines; a state file cut short by a restart or a full disk; saves,
resends and answers that are lost or late; two timers and an arrival racing to
be the next message of the queue; the reading ahead of a buffered reader
against the offset that is recorded; a rotation while a file is crawled; an
offset that is a time, on a log that grows while it is queried; what is learnt
from the beginning of a file and needed in its middle; one wrong rule file
among several.

What makes each part correct:

* crawler: each line is read once and in order, also over a rotation and when
  the file is emptied, and nothing behind the recorded offset is unsent;
* event logs: no record before the offset is skipped but in ways the code
  knows, and none is sent without end;
* decoder: text is decoded as its BOM, its rule or its first bytes say;
* queue: nothing waits longer than the timers promise, the backlog is bounded,
  everything leaves in order, nothing leaves twice;
* gateway: an event it is done with is at the server, on disk, or lost in a way
  the code knows; what is on disk is sent in the end;
* system state: the file behaves as an atomic store that may forget;
* enricher: a name that was heard is posted, whatever the goroutines that share
  the map do, or is lost in a way the code knows;
* configuration and rules: what is sent is what the usable rule files ask for,
  once, and a rule file that is wrong costs no other its events;
* the whole: a restart may send an event twice but skips none.

## 2. The modules

| module | models | state and actions |
|---|---|---|
| `Pipeline` | `securityevent.go`, `securityeventscontainer.go` | constant operators: an event is `<<source, line>>`, an offset a number of lines, a channel a sequence of length at most 1 (the blocked sender's value) |
| `BatchQueue` | the promise of the queue without clocks | `Receive`, `Poll`, `FinishFlush` |
| `Queue` | `queue.go` | `ReceiveContainer`, `ReceiveTick`, `ReceiveStart` (the three messages of the loop), `FinishFlush`, the ticker (`TickerFires`, `TickerPushes`), the `AfterFunc` (`StartFires`), `Tick` |
| `Gateway` | the promise of the gateway | `TakeBatch`, `Settle` |
| `HttpGateway` | `http_gateway.go` | `TakeBatch`, `SkipUnreadable`, `ResendFile`, `SendBatch`, `OpenTmpFile`, `WriteTmpFile`, `SaveFails`, `Crash` |
| `OffsetStore` | the promise of the state file | `Accept`, `Save`, `Forget` |
| `SystemState` | `system_state.go` | `ReceiveEmpty`, `Receive`, `ReadAndApply`, `Truncate`, `WriteState`, `SaveFails`, `StateCrash` |
| `LogReader` | the promise of a crawler | `WriteLine`, `Crawl`, `CrawlNothing` |
| `FilesCrawler` | `crawler_files.go`, `file_other.go` | one action per step of `_RunOnce`: `Glob`, `Identify`, `NothingToRead`, `Stat`, `Open`, `OpenFails`, `Fill`, `ReadLine`, `EndOfFile`, `BreakLastLine`, `ReadFails`; the environment writes, rotates, empties and deletes files, reuses inodes and lets files grow old |
| `IpEnricher` | `ip_enricher.go`, `ip_enricher_linux.go`, the merge in `http_gateway.go` | `Hear`, `Add`, `Store` (the goroutine `Sync`), `Take`, `Clear`, `SendOn` (`Run`), `TakeBatch`, `MergeEntry`, `NextContainer`, `PostMessage` (the gateway), `Fault` |
| `Enricher` | the same for both builds, `ip_enricher_windows.go` | `IpEnricher`, and on Windows `ReadCache` (`Sync`), `Receive`, `LookUp` (`Run`) |
| `FileRules` | `_GetFilesListMap`, `ParseLine`, `CleanSecurityEventsFromDublicates` | `AssignNext`, `Begin`, `NoFiles`, `ReadLine`, `EndOfFile`, `Send` |
| `Startup` | `LoadConfig`, `InternalRun`, the timeout option; extends `FileRules` | `LoadMain`, `LoadRule` (one per file), `Exit`, `Run`, `TickerPanics`, then the steps of `FileRules` |
| `WinEventLog` | `crawler_wineventlog_windows.go`, `eventlogs_windows.go`, `SystemState.Find` | `Wake`, `AddEntry`, `ComputePeriod`, `Stamp`, `Query`, `QueryFails`, `Send`; `FilesFind`, `FilesAppend` of the other crawler |
| `Decoder` | `utf8.go` and its use in `_RunOnce` | `Write`, `CrawlText` |
| `Agent` | `program.go` | instances of `LogReader`, `BatchQueue`, `Gateway` and `SystemState` over shared variables, `Enrich`, `Crash` |
| `Delivery` | the contract with the operator | `Write`, `Settle`, `Commit` |
| `MC*` | | values of the constants for TLC |
| `QueueProofs`, `HttpGatewayProofs`, `SystemStateProofs`, `FilesCrawlerProofs`, `EnricherProofs`, `WinEventLogProofs`, `InputProofs`, `AgentProofs` | | the theorems; `InputProofs` for `FileRules`, `Startup` and `Decoder` |

The composition uses the abstract module of a component where a run shows that
the detailed one implements it: `Queue` implements `BatchQueue`, `HttpGateway`
implements `Gateway`, and `FilesCrawler` implements `LogReader`, where each
content that an inode has had is a source; all three are also proved. The
system state enters `Agent` in detail, because its steps are where a restart
hurts; that it implements `OffsetStore` is checked and proved on its own.

Operators with an underscore in their name, such as `FlushDue_WithoutAge`, are
the operators they are named after with a plausible bug. No specification uses
them; they document what each property is sensitive to (`mutants` in
`PROJECT.json`).

### Abstractions

* Except in `FileRules`, a line is its number and the event it gives; parsing,
  filters, wording and JSON are left out. A line without an event is not
  distinguished from one whose event is dropped by a filter.
* `HttpGateway`: the answer of the server is one of five classes (`Answer`)
  which are what `SendToServer` and the resending distinguish, together with
  whether the server took the events ("late": it took them, the client saw a
  failure). The name of a temporary file is the second. `_firstMessageSent` is
  not modelled: `SendToServer` has a value receiver, so its assignment is lost
  and the version goes out with every message.
* `SystemState`: an absent entry is one with offset 0, for `Find` returns
  that. `intact` is FALSE while the last write was cut short; such a file does
  not parse and reads as empty. An intact file may fail to be read as well
  (`system_state.go:56`), by `Sync` (`ReadAndApply`) and by `Restore`
  (`RestoreResults`); the file then stays, and what goes on has no entries.
* `FilesCrawler`: content is counted in half lines; an odd size ends in an
  unfinished line. The buffered reader takes at most `BufSize` cells at a time,
  so `fdPos` (what `Seek(0, 1)` reports) runs ahead of `consumed`.
* `IpEnricher`: a map is an identity, its contents a function, so that what is
  handed over is a reference, as in Go; the slice of names of an address is a
  set, because `Sync` adds a name only once. The queue and the gateway keep of
  a container only the reference. The range of the gateway visits the addresses
  that are there when it begins (`todo`), and, as Go allows, may or may not
  visit one that `Sync` adds meanwhile (`MayVisit`). `Fault` is the fatal error of the Go runtime
  for a map that is written while it is ranged over. It may or may not be
  noticed, so the action is possible and never certain; what it does to offsets
  is `Crash` of `Agent`.
* `Enricher`: a DNS cache is a set of A records and a set of CNAME records. Of
  the aliases of a name one remains, any of them, because
  `append(aRecords[cname], name)` (`ip_enricher_windows.go:87`) begins anew with
  each section; and an alias of an alias is not followed (`:93`). `ReadCache`
  is one action: the map it builds is not seen by anyone before it is stored.
  The container's own map takes the slice of the published one, so names of
  different states of the cache can be in one batch, but never for one address.
* `FileRules`: a path is the set of files it matches; a line has a kind, which
  is what the regular expressions tell apart, an address and a time that may
  not parse. An event keeps the three fields that are compared for duplicates.
* `Startup`: a rule file is a record of what may be wrong in it (`yamlOk`,
  `deadtimeOk`, an exclusion of files that is `Bad`, events whose expression
  does not compile, exclusions of events with `Bad` among them) and of what it
  asks for. `err` is the variable that `LoadConfig` returns: a deadtime assigns
  it (`config.go:130`), expressions shadow it (`:137`, `:148`, `:166`).
* `WinEventLog`: one rule with one path, all of whose records the rule asks
  for, since rules have entries of their own. Windows is `Matching`, which
  evaluates `timediff` when the query runs, and `Newest`, one `EvtNext` in
  reverse direction. What `Find` does to the slice is two steps: what it has
  read (`held`), and the `append`. The torn reading of a slice header by the
  other goroutine, which would end the process, is left out. The module is one
  life of the process, with or without an entry that `Restore` has read. What an
  earlier process has sent is not counted: from an older durable offset the
  records since that offset are sent again (`:81-86`). A failed rendering
  of a record returns an error for the whole query, so it is `QueryFails`.
* `Decoder`: a character is what the encodings tell apart and a line at the
  same time. `"utf-8"` as a result of `Decoding` also stands for bytes that
  are passed on as they are. A character in another encoding than the one it
  is decoded from becomes `"?"`; plain ASCII is the same in UTF-8 and
  windows-1252. `ProbeLen` stands for the 128 KiB of `utf8ProbeLen`.
* Histories (`settled`, `givenUp`, `discarded`, `overwritten`, `sent`, `before`,
  `contents`, `read`, `lost`, `times`, `losses`, `dropped`, `first`, `unread`)
  record what properties speak about and guard nothing of the code; `contents`
  also bounds the file system (`MaxContents`), and `offered` of `HttpGateway`
  lets the queue hand over an event once in a process.

## 3. The runs

| run | question | result |
|---|---|---|
| `queue` | With two timers, dropped ticks, a slow gateway and arrivals at any time: is waiting bounded, the backlog bounded, does everything leave, is `BatchQueue` implemented? | holds |
| `gateway` | With every answer, failing file operations and restarts at any step: does an event vanish in a way other than the three the code has? Is what is saved resent? | holds |
| `state` | Is the state file, with truncation, failing reads and writes, expiry and restarts, an atomic store that may forget? Does the goroutine always return to its receive? | holds |
| `agent` | Composition, one growing source, two restarts: is a line skipped? Is each line dealt with in the end? Does the durable offset fall to an older value, but once after a `Restore` that could not read it? | holds |
| `crawler` | A log that grows, is rotated, is emptied or gets an inode again: is each line of each content read once and in order? Is anything behind the offset unsent? | holds, for orderly writers |
| `enricher` | In both builds, three goroutines share maps without a lock: does a name vanish in a way other than the four the code has? Do names leave as long as containers come? On Windows, do the names of an address come from one state of the DNS cache? | holds |
| `rules` | For rule files with anything wrong in one of each, every choice of enabled rules, and every short file: is what is sent what the usable rules ask for, once, also when paths of a rule overlap? When does the agent end? | holds |
| `eventlog` | An event log that grows while it is queried, with limits, failing queries and the other crawler appending to `Sources`: is a record skipped in a way other than the three the code has? How often does one process send it? | holds |
| `decoder` | Every encoding, BOM, rule and system, for files that grow between crawls: is what can be decoded decoded right? | holds |
| `gateway_save` | "don't lose any security events, save it into temp file" (`http_gateway.go:225`). | violated |
| `crawler_split` | "if file is still modifiying, break the last line" (`crawler_files.go:171`). | violated |
| `decode_resume` | "If file starts with BOM ... then BOM is used" (`utf8.go:66`). | violated |

What the violated runs show:

* `gateway_save`: two batches that fail within one second, as when connections
  are refused, use the same file name; the second write truncates the first.
* `crawler_split`: the offset recorded for the line before an unfinished one
  is the position of the file, which the buffered reader has already moved
  over the unfinished part. The next crawl begins in the middle of that line.
* `decode_resume`: for UTF-16 the reader leaves the choice to `BOMOverride`,
  which looks for a BOM where the reading begins. A crawl that resumes has
  already sought to its offset (`crawler_files.go:147`), so the fallback is
  used, which decodes nothing: no expression matches the rest of the file.
  UTF-32 and a BOM of UTF-8 are decided by `Utf8Reader` itself and survive.

What passing runs say of the code's known deviations:

* The queue looks at its clock only when a message comes, and compares
  strictly. A visit of the ticker exactly one timeout after the last flush does
  nothing, so data waits for up to two timeouts, although `options.go:33` calls
  the option the frequency of sending. `OrdinaryLatency` is the bound that does
  hold, and it is proved.
* A temporary file is removed on status 200 alone, although for a fresh batch
  the same answer with an error in its body (`http_gateway.go:201`) is a failure
  that gets saved. `Conservation` has this loss as `discarded`.
* A `Restore` that cannot read an intact state file logs it and goes on
  (`system_state.go:56-58`). The file keeps its offsets, but every source is read
  from its beginning, and what the crawl has reached when its container is stored
  takes the place of a later offset: lines are sent again, none is skipped.
  `DurableOffsetsGrow` allows for this, once for each source of such a restart,
  and for nothing else.
* The `continue` that should skip an assigned rule (`crawler_files.go:326`)
  belongs to the inner loop, so a rule with two paths that match a file is
  assigned twice and every line is parsed twice. The removal of duplicates hides
  it: `OverlapIsHarmless`.
* A wrong deadtime leaves its error in the result of `LoadConfig` unless a rule
  file after it can be read, so whether the agent starts depends on the order of
  the names of the files: `ExitHasCause`. A timeout of 0 ends the agent when the
  queue makes its ticker.
* "add one millisecond not to catch previous collected events"
  (`crawler_wineventlog_windows.go:83`) is not done, so records of the second of
  a query are sent twice, but by one process not more often: `SentTwiceAtMost`
  (a restart counts anew, see section 2). After a lost
  append the log is read again from the dead time on, and that happens at most
  once for each file of the other crawler: `LossesBounded`.

The three ways in which `RecordsAccounted` lets a record be skipped: it is
beyond the newest 1000 of its query; it is older than the dead time when there
is no offset; it slips out of the period, which is computed from the clock
(line 86) before Windows evaluates it against a later one. A query that fails
loses nothing, because the offset is set only behind it (line 125).

The four ways in which `NamesAccounted` lets a name be lost: `Run` clears the
field after `Sync` has stored a new map in it; a later container of a batch has
names for the same address and replaces the earlier ones; a message without
events fails and is not saved; the process ends at `Fault`. On Windows only the
last two concern names that containers have.

### Bounds

* `queue`: one unit is 20 s, so the default idle timeout of 60 s is 3 units and
  the critical timeout and the start delay are 1. These are the smallest values
  in which all three differ where they differ in the code. Three kinds of
  containers (plain, critical, bulk), `MaxItems = 3`, `MaxSecurityEvents = 4`:
  "bulk" reaches the limit on events before the limit on containers, the
  others the other way round. `age` is counted to `AgeCap = 7`, more than any
  bound a property compares it with.
* `gateway`: heartbeats, a batch with one event and one with two, two seconds
  (`MaxClock = 1`): enough for two files, for the collision of two saves in one
  second and for a file to be resent while another waits. One restart, at any
  step, after which both batches may come again, those that are done with
  included. With two restarts the run passes too, in six times the time; the
  safety theorems hold for any number.
* `state`: two sources; batches that mention one, both, or one twice, with
  offset 0 among them; expiry after 2 of 4 units.
* `agent`: two lines, batches of at most two containers, one container without
  a line (`MaxBlanks`), two restarts, one unit of time in which entries expire.
  Two lines and two containers are the least that let two containers of one
  source be in different stages of the pipeline. One source: that a batch with
  containers of several is handled is what the theorems show.
* `crawler`: two contents (`MaxContents`: a file and its successor, be that a
  new inode, the same one after deletion, or the same file emptied), files of
  two lines (`MaxSize = 4` cells), a buffer of three cells, so that the buffer
  can end inside a line and hold more than one. `crawler_split` needs one
  content.
* `enricher`: two addresses, two names, two answers, batches of up to two
  containers: enough for an answer to be half added while the map is taken,
  cleared, merged, or stored again, and for two containers of a batch to bring
  the same address. Two answers make at most two maps on Linux; on
  Windows containers make maps too, and `ReadCache` and `LookUp` wait while the
  three identities are in use. Three caches: two that disagree on a name, one
  with an alias and an internal address.
* `rules`: two files, two rule files; of each every single mistake (unreadable,
  deadtime, exclusion of files, an event) or one of the other lists of paths,
  exclusions and sources, in all pairs, also none or one rule file, and every
  choice of enabled rules; a timeout of 0 or 60; five kinds of lines of which up
  to three are read; filters share kinds and a sid within a rule and between the
  two. All choices are initial states.
* `eventlog`: a second is two units, so that a record can fall before or behind
  the query within its second; a crawl every second, three of them and a part of
  the fourth (`MaxTime = 8`); a dead time shorter than the run; a limit of one
  record of two; two files of the other crawler, so that its appends can hit
  twice. Any of the three entries may have been restored; the clock may run and
  records come before the first crawl, so the restored offset may be old.
* `decoder`: a probe of 8 bytes, so that a character of any width can straddle
  its end, its last four bytes (`UTFMax`) included; files of up to four
  characters of four kinds, crawled at any time.

### Deadlock

No configuration switches the deadlock check off: in each instance some
goroutine can always step. Where only the bounds stop everything, or the program
rests by itself, a step that changes nothing says so: `TimeEnds` of
`WinEventLog` (the bounded clock stands still), `NothingNew` of `Decoder`,
`NoCrawler` of `Startup` (the process has ended, or has no files crawler).

## 4. Time

Only the queue compares times closely, so only `Queue` has a clock of its own
units. It is digital and urgent: `Tick` is enabled only when no goroutine of
the queue can run (`~Runnable`), which says that scheduling takes no time
compared with a unit of 20 s. The gateway is exempt: its requests take up to 15
seconds each and there may be many, so a batch may wait in `gateIn` for as many
ticks as it likes. Comparisons are strict (`>`) as in `queue.go:78` and `:84`.
`age` counts from `_lastRun` and is cut at `AgeCap`, which `QueueAssumption`
makes larger than every bound it is compared with.

`HttpGateway` has a clock in seconds, for file names; `SystemState` one in
units of expiry. Both advance at any time, nothing waits for them. The clock of
`WinEventLog` may advance between any two steps: what is at stake there are the
delays between reading the clock twice. Its only wait is the sleep of a crawl
period, which the code does not shorten.

## 5. Fairness

* Weak fairness for each goroutine's step: the Go scheduler runs what can run.
* Strong fairness where several senders race for one channel (the three
  messages of `Queue`; `BatchQueue!Receive` against `Poll`): Go serves blocked
  senders of a channel first come, first served.
* The gateway returns: requests have a timeout of 15 seconds
  (`http_gateway.go:103`).
* `SF(ResendFile(f, "accepted", TRUE))` in `HttpGateway`: a server that is
  asked for ever answers, and the file can then be removed. Without this no
  agent could deliver; `SavedIsResent` says that nothing else is needed.
* Restarts do not go on for ever: `HttpGateway` and `Agent` bound them by
  `MaxCrashes`. An agent that is restarted before each of its steps does nothing.
* `FilesCrawler`: opening and reading do not fail for ever.
* `Enricher`: the three goroutines run, in both builds. Nothing makes containers
  come, so `NamesLeave` has that as its condition. `Startup`, `WinEventLog` and
  `Decoder` have no fairness: their properties are safety.
* Nothing is assumed of writers, rotation, arrivals, or of `Delivery`.

## 6. Assumptions of the models

* `Orderly` (constant of `FilesCrawler`, TRUE in `crawler`, FALSE in
  `crawler_split`) is what the file system has to spare a crawl: a writer that
  has begun a line finishes it before the file looks quiet, and half lines
  appear only when the crawler has caught up with the file or continue one; a
  read does not fail inside a line; a file is emptied while the crawler sleeps
  and stays smaller than its old offset until it is crawled; a rotation does not
  fall between identifying and opening a file. Without any of these the code
  does lose or split lines: `crawler_files.go:114` tells a new content from the
  old one by its size alone, and `:172` uses a time that was taken before the
  file was read.
* An inode that is given to a new file keeps its `SourceState`
  (`file_other.go:27`), so what holds for a file that is emptied holds for it.
* The queue offers an event to the gateway once in a process, and perhaps again
  after a restart, also when the gateway was done with it (`OfferBatch`,
  `offered`); that it does not do so within a process is `OnceUnlessRestarted` of
  `Agent`.
* A duplicate is not seen: sets of events say whether the server has one, not how
  often. Delivery is at least once.
* In `Agent`, a crawl of an unchanged file is a container without lines, which
  may carry offset 0: the loop of `_RunOnce` breaks before it sets the offset
  (`crawler_files.go:174`). The state then stores 0 and a restart reads the
  file again: `DurableOffsetsGrow` has this exception. Its other one is a
  `Restore` that could not read the file (`unread`).

## 7. What is proved

`tlapm` checks every leaf of the eight modules whose names end in `Proofs`. What
they prove holds for every value of the constants that the assumptions of the
modules admit.

**QueueProofs**, from `QueueAssumption` (limits and timeouts are positive,
`AgeCap` exceeds the bounds):

* `TypeCorrect`: `Spec => []TypeOK`. Not trivial for `tickerClock`: it stays
  within `0 .. IdleTimeout` because `Tick` is disabled when the ticker must
  fire.
* `OrdinaryLatencyHolds`, `CriticalLatencyHolds`, `BacklogBounded`,
  `FirstMessageHolds`: the four bounds, for all durations and limits. They are
  not inductive. While a tick is on its way to the queue, `tickerClock` has
  been reset but the queue has not looked yet; so the inductive invariant
  `BoundsInv` measures age against `SinceVisit`, which is `IdleTimeout` while a
  tick is pending and `tickerClock` otherwise.
* `QueueImplementsBatchQueue`: initial states and steps of `Queue` are initial
  states and steps, or stutters, of `BatchQueue`: the safety part of
  `RefinesBatchQueue`.

**HttpGatewayProofs**, from `HttpGatewayAssumption`, for all batches, numbers of
files, answers, failures and restarts:

* `TypeCorrect`, `ConservationHolds` and `DiskHolds` (`OnlyDeliveredLeavesDisk`).
  The inductive invariant is `Shape`: types, that the file being written is
  there and empty (`FileIsOpen`, else writing it could lose what it held), and
  that the files still to be resent are there (`ResendIsThere`). `EveryStep`
  shows for every step that `Shape` survives and that nothing leaves the ledger
  (`Kept`); `Conservation` and the action property both follow from `Kept`.
* `GatewayImplemented`: the safety part of `RefinesGateway`.

**SystemStateProofs**, from `SystemStateAssumption`, for all sources, batches and
ways in which a save can fail:

* `TypeCorrect`.
* `StoreImplemented`: `Spec => RefinesOffsetStore`, in full, since `OffsetStore`
  states no fairness. A save is three steps (apply, truncate, write) of which
  only the last is a step of the store, so `StoreInv` has to remember until
  then where the entries that are written come from: for each source from the
  last container of the batch, from what was restored, or from nothing
  (`StagedIsSave`). A truncation is a `Forget` of everything.

**FilesCrawlerProofs**, from `FilesCrawlerAssumption`, for every number of
contents, size of files and size of the buffer:

* `TypeCorrect`, for orderly and other file systems. That the `Past` of an inode
  has a place in `Content` needs the count `contents` in the invariant.
* `BehindOffsetHolds` (`BehindOffsetIsSent`) and `LogReaderImplemented`
  (`Spec => ImplementsLogReader`, in full, since `LogReader` states no fairness),
  under the hypothesis `Orderly`, as in the run; without it both are false, see
  section 6 and `crawler_split`. `OrderInv` says what makes the reading ahead
  harmless: an unfinished line is the only thing behind an offset and is fresh
  (`FileInv`); what decides on it, `fresh`, was not taken too early (`OpenInv`);
  in the middle of a crawl the lines of the container are exactly those
  from `start` to `consumed`, and where these differ the file has no
  unfinished line, so the position that runs ahead of `consumed` is made up for
  before the container is sent (`ReadInv`).
  The refinement maps the position of a source that is being read to `start`,
  for the offsets recorded line by line belong to the one `Crawl` of `LogReader`.

**EnricherProofs**, from `IpEnricherAssumption` and `EnricherAssumption`, for both
builds and all addresses, names, answers and DNS caches:

* `BuildTypeCorrect`. A goroutine that has a map to range over has one that
  exists (`Ranges`, `Adds`).
* `NamesAccountedHolds`. The four losses are the only ones, although three
  goroutines share maps without a lock. What a goroutine has handed over it may
  still write to, so `AccountInv` counts by place: a name is done with, in a map
  that will still come down to the gateway (`Held`, `Behind`), or in the map the
  gateway ranges over, and there it is still to be visited or in one of the
  other places (`Ranged`). A map that `Sync` publishes on Windows is not such a
  place: `Run` copies names out of it, and its own map has to be without names
  for the events it has still to look up (`Stages`).
* `NamesOfOneCacheHolds`. `CacheInv` says the same of every map, not only of
  the message.

**WinEventLogProofs**, from `WinEventLogAssumption`, for every log, delay, period,
limit and clock:

* `TypeCorrect`. A container holds no more records than a query may return, for
  which `NewestAreFew` counts.
* `RecordsAccountedHolds`: it is inductive with the types and the order of the
  clock readings (`ClockInv`).
* `LossesBoundedHolds`. An append loses the entry only with a slice that was read
  before the entry was there, and it brings a file into `sources` that stays in
  every later slice. `ShareInv` therefore bounds the losses by the files in each
  slice that some goroutine holds, not only in the shared one.
* `SentTwiceAtMostHolds`. `SendInv` gives each entry, lost or present, two
  sendings, a restored one included, and says of a record that has used the first one of the present
  entry that it is at least a crawl period older than the next query, and of one
  that has used both that the offset is behind it. It rests on
  `CrawlPeriod >= Second`: offsets are whole seconds.

**InputProofs**, of `Startup` with `FileRules`, from `FileRulesAssumption` and
`StartupAssumption`, for every configuration directory, whatever is wrong with its files and in whatever order,
and for all files and sequences of lines:

* `TypeCorrect` and `ExitHasItsCause` (`ExitHasCause`). `LoadInv` says what a
  prefix of the rule files has come to: each usable one of them has its entry in
  `loaded`, and `err` is the error of the last one that can be read, which is
  how the errors before it are forgotten (`BadDeadtime`).
* `OverlapDoesNoHarm` (`OverlapIsHarmless`) and `SentIsWhatIsAskedFor`
  (`SentIsWhatMatches`). The loops of the crawler are folds of the model, and a
  theorem with an operator as a parameter cannot be used; so induction is over
  sets of indices (`InductionUpTo`), and for each fold it is proved
  once that it does what its body says, step by step (`KeepIsLoop`,
  `CleanIsLoop`, `FlattenIsLoop`). From there on a sequence is looked at only
  through `Leads(s, A, B)`: a member of `A` is in `s` with none of `B` before it.
  Two sequences are `Alike` when they agree on this for all `A` and `B`. A rule
  that is assigned once more adds nothing that leads (`AssignContinues`), what is
  alike stays alike when lines are parsed and events appended (`ParsedAlike`,
  `ReadContinues`), and alike sequences are equal once the duplicates are removed
  (`CleanOfAlike`). So `AssignInv` compares the rules of each file with those of
  the pairs already visited, `ReadInv` the container with the events of rules
  assigned once, both up to `Alike`. What `FlattenIs`, `ParsedIs` and `LoadedAll`
  say of the members then gives the set of events.

and of `Decoder`, from `DecoderAssumption`, for every encoding, rule, system, length
of the probe and growth of the file (its names begin with `Decode` where `Startup`,
which the same module extends, has them too):

* `DecodeTypeCorrect` (`DecodeTypeOK`) and `DecodedRightHolds` (`DecodedRight`), by
  `TextInv`: nothing is read while the offset is 0, so that the first crawl is
  the only one that sees a BOM. Where a character ends is a fold over those before
  it; `EndIsLoop` and `EndSame` say that it depends on these alone and is the same
  when the file has grown. `MarkDecides` is the choice among the five BOMs, of
  which one begins another (`MarksDiffer`). `RunesAreProbed` shows that the four
  bytes of slack suffice for a file of UTF-8 whose last rune the probe cuts,
  `OthersAreNoticed` that the slack hides no letter that comes before it. A longer
  file is not known better, so what was decoded right stays so (`WriteKeeps`).

**AgentProofs**, from `AgentAssumption`, for every set of sources and every
bound:

* `TypeCorrect`.
* `DurableCoveredHolds`: `Spec => []DurableCovered`, no restart skips a line.
  The inductive invariant `CoverInv` follows an offset through the pipeline:
  the lines up to the offset of a container are settled or are events of
  containers that are further down (`PipelineCovered`); a batch being handed
  over is the one in the queue (`Handover`); what the state goroutine holds,
  stages and has on disk is covered by settled events alone (`StateCovered`).
  The order "settle, then store" in the gateway is what makes the last part
  inductive. `LastMention`, the last container of a source in a batch, exists
  by the least-number principle of `WellFoundedInduction`.
* `DeliveryHolds`: `Spec => ImplementsDelivery`, in full, since `Delivery`
  states no fairness. `Delivery` also says that nothing is settled that was
  not written.
* `OnceHolds` (`OnceUnlessRestarted`): that what is settled is not on its way
  again is not inductive, each stage has to be disjoint from all that are
  further down, and all of them from what the crawler has not read (`FreshInv`).
  The items of the queue count as the gateway's as soon as they are offered to
  it, because `Flush` empties them only after its send has returned.
* `DurableOffsetsGrowHolds` (`DurableOffsetsGrow`): any offset in the pipeline
  may be the durable one some day, so `OrderInv` says that each is 0 or at least
  those of its source that are further down (`SourceInOrder`), and where the
  entries that are being saved come from (`StagedFrom`). It survives a restart
  because the crawler resumes from the durable offset, or else the source is in
  `unread` and its durable offset is in order with nothing (`Stored`) until the
  state goroutine stores another: that step is the exception, and it takes the
  source out of `unread`.

Together they say for the whole: behind what a restart resumes from there is
only what the server has, what waits in a temporary file, or what was lost in one
of three known ways (`DurableCoveredHolds`, `ConservationHolds`); the components
that `Agent` takes in their abstract form are implemented by the detailed ones
as far as safety goes (`QueueImplementsBatchQueue`, `GatewayImplemented`,
`LogReaderImplemented`).

What the assumptions on constants ask for beyond their types: limits and
timeouts of the queue are positive; a crawl period is at least a second
(`CrawlPeriod` is a minute in the code); the files of the other crawler are
finitely many; the bounded clock of `WinEventLog` begins within its bound; there
is a name at all; a map in use is not nil; the rule files of a directory, the
paths and the events of a rule file come in a sequence, and an event has a
natural number. The code or the meaning of the
constant gives each of them.

Only model-checked:

* every liveness property (`ItemsLeave`, `SavedIsResent`, `StateReturns`,
  `EveryLineSettled`, `EveryLineRead`, `NamesLeave`) and the fairness part of
  `RefinesBatchQueue` and `RefinesGateway`: fairness and ENABLED are out of the
  prover's reach.

The invariants and the safety parts of the refinements that the passing runs check
are all proved.

## 8. What is not modelled, and the plan

Next:

1. Lemmas that several proof modules have in common (channels, batches, folds) in
   one place.
2. Of `FilesCrawler`: two paths of one inode, as hard links give.

Not modelled: the number of a line in the text of an event (it is increased for
the end of a file too, and decides nothing); the year of a date that has none
(`util_date.go:82`), which needs no state of the agent to go wrong; YAML and the
expansion of environment variables; the torn slice header of `Find`.

Left out for good: service registration, logging and profiling (no state that
matters here), the system calls of `file_windows.go` and `eventlogs_windows.go`,
the init script (a shell script around `kill` and a pid file; a restart is
`Crash`), regular expressions and the wording of messages.
