---------------------------- MODULE FilesCrawler ----------------------------
(***************************************************************************)
(* The files crawler (crawler_files.go) on a log that is rotated: a live   *)
(* file and the one it is renamed to, both matched by the rule's paths.    *)
(* A file may also be emptied, or deleted and its inode given to a new one.*)
(* The file system, with its writers and logrotate, is modelled as the     *)
(* crawler sees it: a path leads to an inode, which keys the offset.       *)
(*                                                                         *)
(* A line is two cells, its text and its newline, so the content of a file *)
(* is its size: line k ends at 2k, and an odd size is an unfinished line.  *)
(* All lines match the rule, and positions are counted in cells.           *)
(***************************************************************************)
EXTENDS Naturals, Sequences

CONSTANTS Live, Old,      \* the paths of the log and of its rotated copy
          MaxContents,    \* bound on the files, an emptied one counted again
          MaxSize,        \* bound on the size of a file
          BufSize,        \* how much one read of the buffered reader asks for
          Orderly         \* see below

ASSUME FilesCrawlerAssumption == /\ Live # Old
                                 /\ MaxContents \in Nat \ {0}
                                 /\ MaxSize \in Nat
                                 /\ BufSize \in Nat \ {0}
                                 /\ Orderly \in BOOLEAN

(***************************************************************************)
(* What the file system spares an Orderly crawl, beyond what the other     *)
(* comments say: a line is written in one piece, unless it is begun while  *)
(* the crawler sleeps and has read everything before it; an unfinished     *)
(* line is finished within a minute; a read does not fail in the middle of *)
(* a line; and a file is emptied while the crawler sleeps, and stays       *)
(* smaller than it was until it has been crawled.                          *)
(***************************************************************************)

(* An operator whose name has an underscore is the one it is named after    *)
(* with a plausible bug: the properties must notice it.                    *)

VARIABLES link,        \* path -> inode, or 0 when there is no such file
          inodes,      \* the number of inodes handed out so far
          contents,    \* history: the number of contents they have had so far
          size,        \* inode -> size
          modified,    \* inode -> "fresh", "quiet" for 60 s, or "dead"
          before,      \* history: inode -> the lines and the offset, in lines, of
                       \* each of the contents it had before this one
          anew,        \* inode -> its offset belongs to the content before
          offsets,     \* SourceState.Offset of each inode
          pc,          \* where the goroutine is
          todo,        \* the paths of the glob still to be crawled
          path,        \* the path it is working on
          source,      \* the inode whose SourceState it uses
          fresh,       \* the file was modified less than 60 s before the stat
          start,       \* the position it decided to read from
          fd,          \* the inode of the open file
          consumed,    \* the end of the last line it got
          fdPos,       \* the position of the open file, behind the read-ahead
          container,   \* eventsContainer: its offset and the lines in it
          enrichIn,    \* channel IpEnricher.Input
          sent         \* history: inode -> the lines it has sent

fileVars == <<link, inodes, contents, size, modified, before>>
readVars == <<fd, consumed, fdPos, container>>
crawlVars == <<pc, todo, path, source, fresh, start, readVars, offsets, anew, sent>>
vars == <<fileVars, crawlVars, enrichIn>>

Path == {Live, Old}
Inode == 1 .. MaxContents

LinesOf(i, ks) == {i} \X ks

\* Type correctness.
TypeOK == /\ link \in [Path -> 0 .. MaxContents]
          /\ inodes \in Inode
          /\ contents \in Inode
          /\ size \in [Inode -> 0 .. MaxSize]
          /\ modified \in [Inode -> {"fresh", "quiet", "dead"}]
          /\ offsets \in [Inode -> 0 .. MaxSize]
          /\ before \in [Inode -> Seq([written : Nat, pos : Nat])]
          /\ anew \in [Inode -> BOOLEAN]
          /\ pc \in {"sleep", "next", "stat", "open", "read"}
          /\ todo \subseteq Path
          /\ path \in Path
          /\ source \in 0 .. MaxContents
          /\ fresh \in BOOLEAN
          /\ start \in 0 .. MaxSize
          /\ fd \in 0 .. MaxContents
          /\ consumed \in 0 .. MaxSize
          /\ fdPos \in 0 .. MaxSize
          /\ container.offset \in 0 .. MaxSize
          /\ container.lines \subseteq 1 .. MaxSize
          /\ Len(enrichIn) <= 1
          /\ sent \in [Inode -> SUBSET (1 .. MaxSize)]

NoLines == [offset |-> 0, lines |-> {}]

Init == /\ link = [p \in Path |-> IF p = Live THEN 1 ELSE 0]
        /\ inodes = 1
        /\ contents = 1
        /\ size = [i \in Inode |-> 0]
        /\ modified = [i \in Inode |-> "fresh"]
        /\ offsets = [i \in Inode |-> 0]
        /\ before = [i \in Inode |-> <<>>]
        /\ anew = [i \in Inode |-> FALSE]
        /\ pc = "sleep"
        /\ todo = {}
        /\ path = Live
        /\ source = 0
        /\ fresh = FALSE
        /\ start = 0
        /\ fd = 0
        /\ consumed = 0
        /\ fdPos = 0
        /\ container = NoLines
        /\ enrichIn = <<>>
        /\ sent = [i \in Inode |-> {}]

-----------------------------------------------------------------------------
(* The writers, logrotate and the passing of time.                         *)

Linked(i) == \E p \in Path : link[p] = i

\* The lines of an inode that are behind its offset.
Position(i) == IF anew[i] THEN 0 ELSE offsets[i] \div 2

\* The inode gets a new, empty content and keeps its offset.
Renew(i) == /\ contents < MaxContents
            /\ contents' = contents + 1
            /\ before' = [before EXCEPT ![i] = Append(@, [written |-> size[i] \div 2,
                                                         pos |-> Position(i)])]
            /\ size' = [size EXCEPT ![i] = 0]
            /\ modified' = [modified EXCEPT ![i] = "fresh"]
            /\ anew' = [anew EXCEPT ![i] = offsets[i] > 0]
            /\ sent' = [sent EXCEPT ![i] = {}]
            /\ UNCHANGED <<inodes, pc, todo, path, source, fresh, start, readVars, offsets,
                           enrichIn>>

Write(i, cells) ==
    /\ Linked(i)
    /\ size[i] + cells <= MaxSize
    /\ (Orderly /\ anew[i]) => size[i] + cells < offsets[i]
    /\ size' = [size EXCEPT ![i] = @ + cells]
    /\ modified' = [modified EXCEPT ![i] = "fresh"]
    /\ UNCHANGED <<link, inodes, contents, before, crawlVars, enrichIn>>

WriteLine(i) == size[i] % 2 = 0 /\ Write(i, 2)

WriteHalf(i) == /\ Orderly => size[i] % 2 = 1 \/ (pc = "sleep" /\ offsets[i] = size[i])
                /\ Write(i, 1)

GrowOld(i) == /\ modified[i] # "dead"
              /\ Linked(i)
              /\ Orderly => size[i] % 2 = 0
              /\ modified' = [modified EXCEPT ![i] = IF @ = "fresh" THEN "quiet" ELSE "dead"]
              /\ UNCHANGED <<link, inodes, contents, size, before, crawlVars, enrichIn>>

\* logrotate spares an Orderly crawl between the steps that identify a file and
\* open it.
Rename == /\ link[Live] # 0
          /\ Orderly => pc \notin {"stat", "open"}
          /\ contents < MaxContents
          /\ link' = [link EXCEPT ![Live] = 0, ![Old] = link[Live]]
          /\ UNCHANGED <<inodes, contents, size, modified, before, crawlVars, enrichIn>>

Delete == /\ link[Old] # 0
          /\ Orderly => pc \notin {"stat", "open"}
          /\ contents < MaxContents
          /\ link' = [link EXCEPT ![Old] = 0]
          /\ UNCHANGED <<inodes, contents, size, modified, before, crawlVars, enrichIn>>

Create == /\ link[Live] = 0
          /\ contents < MaxContents
          /\ inodes' = inodes + 1
          /\ contents' = contents + 1
          /\ link' = [link EXCEPT ![Live] = inodes + 1]
          /\ UNCHANGED <<size, modified, before, crawlVars, enrichIn>>

Truncate(i) == /\ Linked(i) /\ size[i] > 0
               /\ Orderly => pc = "sleep"
               /\ Renew(i)
               /\ UNCHANGED link

\* A new file gets the inode of a deleted one.  The crawler keeps what it has
\* opened open until the crawl is over.
ReuseInode(i) == /\ link[Live] = 0 /\ i <= inodes /\ ~Linked(i)
                 /\ pc = "sleep"
                 /\ Renew(i)
                 /\ link' = [link EXCEPT ![Live] = i]

-----------------------------------------------------------------------------
(* The crawler.                                                            *)

Glob == /\ pc = "sleep"
        /\ todo' = {p \in Path : link[p] # 0}
        /\ pc' = "next"
        /\ UNCHANGED <<fileVars, path, source, fresh, start, readVars, offsets, anew, sent, enrichIn>>

CrawlEnds == /\ pc = "next"
             /\ enrichIn = <<>>
             /\ todo = {}
             /\ pc' = "sleep"
             /\ UNCHANGED <<fileVars, todo, path, source, fresh, start, readVars,
                            offsets, anew, sent, enrichIn>>

\* GetFileOsUniqueKey, once the send for the previous file has returned.
Identify(p) == /\ pc = "next"
               /\ enrichIn = <<>>
               /\ p \in todo
               /\ todo' = todo \ {p}
               /\ \/ link[p] = 0 /\ UNCHANGED <<pc, path, source>>
                  \/ link[p] # 0 /\ path' = p /\ source' = link[p] /\ pc' = "stat"
               /\ UNCHANGED <<fileVars, fresh, start, readVars, offsets, anew, sent, enrichIn>>

\* The variables of an iteration go out of scope.
NextFile == /\ pc' = "next"
            /\ path' = Live /\ source' = 0
            /\ fresh' = FALSE /\ start' = 0
            /\ fd' = 0 /\ consumed' = 0 /\ fdPos' = 0 /\ container' = NoLines
            /\ UNCHANGED <<fileVars, todo>>

SkipFile == NextFile /\ UNCHANGED <<offsets, anew, sent, enrichIn>>

StartOf_AsStored(s, i) == offsets[s]

\* A file that has shrunk is read from its beginning.
StartOf(s, i) == IF offsets[s] > size[i] THEN 0 ELSE offsets[s]

\* Nothing to do: the stat fails, the file is dead or has not changed.
NothingToRead == /\ pc = "stat"
                 /\ LET i == link[path] IN
                      i # 0 => modified[i] = "dead" \/ offsets[source] = size[i]
                 /\ SkipFile

Stat == /\ pc = "stat"
        /\ link[path] # 0
        /\ modified[link[path]] # "dead"
        /\ offsets[source] # size[link[path]]
        /\ fresh' = (modified[link[path]] = "fresh")
        /\ start' = StartOf(source, link[path])
        /\ pc' = "open"
        /\ UNCHANGED <<fileVars, todo, path, source, readVars, offsets, anew, sent, enrichIn>>

OpenFails == pc = "open" /\ SkipFile

Open_NoSeek ==
    /\ pc = "open"
    /\ link[path] # 0
    /\ fd' = link[path]
    /\ consumed' = 0
    /\ fdPos' = 0
    /\ container' = NoLines
    /\ pc' = "read"
    /\ UNCHANGED <<fileVars, todo, path, source, fresh, start, offsets, anew, sent, enrichIn>>

Open == /\ pc = "open"
        /\ link[path] # 0
        /\ fd' = link[path]
        /\ consumed' = start
        /\ fdPos' = start
        /\ container' = NoLines
        /\ pc' = "read"
        /\ UNCHANGED <<fileVars, todo, path, source, fresh, start, offsets, anew, sent, enrichIn>>

LineEnd == 2 * (consumed \div 2) + 2

Fill_WholeBuffer ==
    /\ pc = "read"
    /\ LineEnd > fdPos
    /\ fdPos < size[fd]
    /\ fdPos' = fdPos + BufSize
    /\ UNCHANGED <<fileVars, pc, todo, path, source, fresh, start, fd, consumed,
                   container, offsets, anew, sent, enrichIn>>

\* The buffer holds no newline: the buffered reader asks the file for more.
Fill == /\ pc = "read"
        /\ LineEnd > fdPos
        /\ fdPos < size[fd]
        /\ fdPos' = IF size[fd] - fdPos < BufSize THEN size[fd] ELSE fdPos + BufSize
        /\ UNCHANGED <<fileVars, pc, todo, path, source, fresh, start, fd, consumed,
                       container, offsets, anew, sent, enrichIn>>

\* ParseLine, with its rules and filters, turns a line into its event; what is
\* left of a line whose beginning has been read matches no rule.
Parsed(end) == IF consumed % 2 = 0 /\ consumed < end THEN {consumed \div 2 + 1} ELSE {}

\* The body of the loop: the offset recorded is the one of the open file.
RecordOffset == /\ offsets' = [offsets EXCEPT ![source] = fdPos]
                /\ anew' = [anew EXCEPT ![source] = FALSE]

With(end) == [offset |-> fdPos, lines |-> container.lines \cup Parsed(end)]

ReadLine == /\ pc = "read"
            /\ LineEnd <= fdPos
            /\ RecordOffset
            /\ container' = With(LineEnd)
            /\ consumed' = LineEnd
            /\ UNCHANGED <<fileVars, pc, todo, path, source, fresh, start, fd, fdPos,
                           sent, enrichIn>>

Send(c) == /\ enrichIn' = <<[src |-> source, offset |-> c.offset, lines |-> c.lines]>>
           /\ sent' = [sent EXCEPT ![source] = @ \cup c.lines]
           /\ NextFile

AtEnd == pc = "read" /\ LineEnd > fdPos /\ fdPos >= size[fd]

\* The end of the file, behind its last line or in the middle of one that has
\* been left alone for a minute.
EndOfFile == /\ AtEnd
             /\ consumed = fdPos \/ ~fresh
             /\ RecordOffset
             /\ Send(With(fdPos))

BreakLastLine_OffsetFirst ==
    /\ AtEnd
    /\ consumed < fdPos
    /\ fresh
    /\ RecordOffset
    /\ Send(container)

\* "if file is still modifiying, break the last line"
BreakLastLine == /\ AtEnd
                 /\ consumed < fdPos
                 /\ fresh
                 /\ Send(container)
                 /\ UNCHANGED <<offsets, anew>>

\* A read fails: what is in the buffer is taken for a line.
ReadFails == /\ pc = "read"
             /\ LineEnd > fdPos
             /\ Orderly => consumed = fdPos
             /\ RecordOffset
             /\ Send(With(fdPos))

CrawlerNext == \/ Glob \/ CrawlEnds
               \/ \E p \in Path : Identify(p)
               \/ NothingToRead \/ Stat \/ OpenFails \/ Open
               \/ Fill \/ ReadLine \/ EndOfFile \/ BreakLastLine \/ ReadFails

\* The enricher at the other end.
TakeContainer == /\ enrichIn # <<>>
                 /\ enrichIn' = <<>>
                 /\ UNCHANGED <<fileVars, crawlVars>>

Next == \/ CrawlerNext
        \/ TakeContainer
        \/ \E i \in Inode : WriteLine(i) \/ WriteHalf(i) \/ GrowOld(i)
        \/ \E i \in Inode : Truncate(i) \/ ReuseInode(i)
        \/ Rename \/ Delete \/ Create

\* The crawler runs and the enricher takes what it is sent.  An open or
\* a read that fails again and again succeeds in the end.
Fairness == /\ WF_vars(CrawlerNext)
            /\ WF_vars(TakeContainer)
            /\ \A p \in Path : /\ SF_vars(path = p /\ Open)
                               /\ SF_vars(path = p /\ Fill)
                               /\ SF_vars(path = p /\ EndOfFile)

Spec == Init /\ [][Next]_vars /\ Fairness

-----------------------------------------------------------------------------
(* Properties.                                                             *)

\* When a file has been crawled, each line that begins before its offset has
\* been sent, whatever the buffered reader has read ahead; since a crawl
\* resumes at the offset, what has not been sent by then never is.  The offset
\* of a content that is gone does not count.
BehindOffsetIsSent ==
    pc \in {"sleep", "next"} =>
        \A i \in Inode : \A k \in 1 .. MaxSize :
            ~anew[i] /\ 2 * k - 1 <= offsets[i] => k \in sent[i]

\* A line of a file that stays reachable and alive is read in the end, also
\* when the file is renamed on the way, and when the file was emptied before
\* the line was written.
EveryLineRead ==
    \A i \in Inode : \A k \in 1 .. (MaxSize \div 2) :
        (size[i] >= 2 * k) ~> \/ k \in sent[i] \/ size[i] < 2 * k
                             \/ ~Linked(i) \/ modified[i] = "dead"

\* The crawler implements the abstract reader: every line once, in order.  To
\* the reader each content of an inode is a source of its own.
Content(i) == <<i, Len(before[i])>>

\* What the content s has and had of lines, given what the present one has.
OfContent(s, field, present) ==
    LET i == s[1] IN CASE s[2] < Len(before[i]) -> before[i][s[2] + 1][field]
                       [] s[2] = Len(before[i]) -> present
                       [] OTHER                 -> 0

Sources == Inode \X (0 .. MaxContents)
Abstract == INSTANCE LogReader WITH
    Source <- Sources,
    MaxLines <- MaxSize \div 2,
    written <- [s \in Sources |-> OfContent(s, "written", size[s[1]] \div 2)],
    pos <- [s \in Sources |->
               OfContent(s, "pos", IF pc = "read" /\ source = s[1] THEN start \div 2
                                                                   ELSE Position(s[1]))],
    enrichIn <- IF enrichIn = <<>> THEN <<>>
                ELSE << [src |-> Content(enrichIn[1].src),
                         offset |-> enrichIn[1].offset \div 2,
                         events |-> LinesOf(Content(enrichIn[1].src), enrichIn[1].lines)] >>
ImplementsLogReader == Abstract!Spec

\* "if file is still modifiying, break the last line" (line 171): the line that
\* is broken off is left for the next crawl.
BrokenLineIsLeft ==
    pc \in {"sleep", "next"} =>
        \A i \in Inode : \A k \in 1 .. MaxSize :
            2 * k - 1 = offsets[i] => k \in sent[i]
=============================================================================
