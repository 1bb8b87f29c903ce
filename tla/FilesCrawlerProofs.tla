------------------------- MODULE FilesCrawlerProofs -------------------------
(***************************************************************************)
(* Proofs about FilesCrawler: its type correctness, for orderly file       *)
(* systems and others; and for an orderly one, that a crawl leaves nothing *)
(* behind the offsets that was not sent, and that the crawler with its     *)
(* buffered reader, its offsets in bytes, rotated and emptied files is the *)
(* abstract reader, which sends each line of each content once, in order.  *)
(***************************************************************************)
EXTENDS FilesCrawler, Integers, TLAPS

USE FilesCrawlerAssumption

-----------------------------------------------------------------------------
(* Type correctness.                                                       *)

Lines == SUBSET (1 .. MaxSize)
InMemory == [offset : 0 .. MaxSize, lines : Lines]
Message == [src : Inode, offset : 0 .. MaxSize, lines : Lines]
Past == [written : Nat, pos : Nat]

\* No inode has had more contents than there were.
FileTypes == /\ link \in [Path -> 0 .. MaxContents]
             /\ inodes \in Inode
             /\ contents \in Inode
             /\ size \in [Inode -> 0 .. MaxSize]
             /\ modified \in [Inode -> {"fresh", "quiet", "dead"}]
             /\ before \in [Inode -> Seq(Past)]
             /\ \A i \in Inode : inodes + Len(before[i]) <= contents

StateTypes == /\ offsets \in [Inode -> 0 .. MaxSize]
              /\ anew \in [Inode -> BOOLEAN]
              /\ sent \in [Inode -> Lines]

CrawlTypes == /\ pc \in {"sleep", "next", "stat", "open", "read"}
              /\ todo \subseteq Path
              /\ path \in Path
              /\ source \in 0 .. MaxContents
              /\ fresh \in BOOLEAN
              /\ start \in 0 .. MaxSize
              /\ fd \in 0 .. MaxContents
              /\ consumed \in 0 .. MaxSize
              /\ fdPos \in 0 .. MaxSize
              /\ container \in InMemory
              /\ pc \in {"stat", "open", "read"} => source \in Inode
              /\ pc = "read" => fd \in Inode

SentTypes == enrichIn \in Seq(Message) /\ Len(enrichIn) <= 1

TypeInv == FileTypes /\ StateTypes /\ CrawlTypes /\ SentTypes

LEMMA Halves ==
    ASSUME NEW n \in Nat
    PROVE  n \div 2 \in Nat /\ n % 2 \in {0, 1} /\ n = 2 * (n \div 2) + (n % 2)
<1> DEFINE q == n \div 2
           r == n % 2
<1>1. n = 2 * q + r /\ r \in 0 .. 1 /\ q \in Int
  OBVIOUS
<1>2. q >= 0
  OBVIOUS
<1> HIDE DEF q, r
<1>3. q \in Nat /\ r \in {0, 1} /\ n = 2 * q + r
  BY <1>1, <1>2
<1> QED
  BY <1>3 DEF q, r

LEMMA Zeros == /\ 0 \in 0 .. MaxSize /\ 0 \in 0 .. MaxContents /\ 1 \in Inode
               /\ Inode \subseteq 0 .. MaxContents /\ NoLines \in InMemory
               /\ \A i \in Inode : i \in Nat /\ i # 0
<1>1. 0 \in 0 .. MaxSize /\ {} \in Lines
  BY DEF Lines
<1>2. NoLines \in InMemory
  BY <1>1 DEF NoLines, InMemory
<1> QED
  BY <1>1, <1>2 DEF Inode

\* A step of others keeps the types of the crawl.
LEMMA Kept == /\ FileTypes /\ UNCHANGED fileVars => FileTypes'
              /\ StateTypes /\ UNCHANGED <<offsets, anew, sent>> => StateTypes'
              /\ CrawlTypes /\ UNCHANGED <<pc, todo, path, source, fresh, start, readVars>> =>
                     CrawlTypes'
              /\ SentTypes /\ UNCHANGED enrichIn => SentTypes'
BY DEF FileTypes, StateTypes, CrawlTypes, SentTypes, fileVars, readVars

LEMMA TypeInit == Init => TypeInv
<1> SUFFICES ASSUME Init PROVE TypeInv
  OBVIOUS
<1>1. FileTypes
  <2>1. <<>> \in Seq(Past) /\ Len(<<>>) = 0
    OBVIOUS
  <2>2. before \in [Inode -> Seq(Past)] /\ \A i \in Inode : inodes + Len(before[i]) <= contents
    BY <2>1 DEF Init
  <2>3. link \in [Path -> 0 .. MaxContents]
    BY DEF Init
  <2> QED
    BY <2>2, <2>3, Zeros DEF Init, FileTypes
<1>2. StateTypes
  BY Zeros DEF Init, StateTypes, Lines
<1>3. CrawlTypes
  BY Zeros DEF Init, CrawlTypes, Path
<1>4. SentTypes
  BY DEF Init, SentTypes
<1> QED
  BY <1>1, <1>2, <1>3, <1>4 DEF TypeInv

-----------------------------------------------------------------------------
(* The file system.                                                        *)

LEMMA WriteTypes ==
    ASSUME TypeInv, NEW i \in Inode, NEW cells \in {1, 2}, Write(i, cells)
    PROVE  TypeInv'
<1>1. /\ size' = [size EXCEPT ![i] = size[i] + cells] /\ size[i] + cells <= MaxSize
      /\ modified' = [modified EXCEPT ![i] = "fresh"]
      /\ UNCHANGED <<link, inodes, contents, before, crawlVars, enrichIn>>
  BY DEF Write
<1>2. size \in [Inode -> 0 .. MaxSize] /\ modified \in [Inode -> {"fresh", "quiet", "dead"}]
  BY DEF TypeInv, FileTypes
<1>3. size[i] + cells \in 0 .. MaxSize
  BY <1>1, <1>2
<1>4. size' \in [Inode -> 0 .. MaxSize] /\ modified' \in [Inode -> {"fresh", "quiet", "dead"}]
  BY <1>1, <1>2, <1>3
<1>5. FileTypes'
  BY <1>1, <1>4 DEF TypeInv, FileTypes
<1> QED
  BY <1>1, <1>5, Kept DEF TypeInv, crawlVars

LEMMA PositionNat == ASSUME TypeInv, NEW i \in Inode PROVE Position(i) \in Nat
<1>1. offsets[i] \in Nat
  BY DEF TypeInv, StateTypes
<1> QED
  BY <1>1, Halves DEF Position

LEMMA RenewTypes ==
    ASSUME TypeInv, NEW i \in Inode, Renew(i), link' \in [Path -> 0 .. MaxContents]
    PROVE  TypeInv'
<1>1. /\ contents < MaxContents /\ contents' = contents + 1
      /\ before' = [before EXCEPT ![i] = Append(before[i], [written |-> size[i] \div 2,
                                                            pos |-> Position(i)])]
      /\ size' = [size EXCEPT ![i] = 0]
      /\ modified' = [modified EXCEPT ![i] = "fresh"]
      /\ anew' = [anew EXCEPT ![i] = offsets[i] > 0]
      /\ sent' = [sent EXCEPT ![i] = {}]
      /\ UNCHANGED <<inodes, pc, todo, path, source, fresh, start, readVars, offsets, enrichIn>>
  BY DEF Renew
<1>2. contents' \in Inode
  BY <1>1 DEF TypeInv, FileTypes, Inode
<1>3. size' \in [Inode -> 0 .. MaxSize] /\ modified' \in [Inode -> {"fresh", "quiet", "dead"}]
  BY <1>1, Zeros DEF TypeInv, FileTypes
<1>4. before' \in [Inode -> Seq(Past)] /\ \A j \in Inode : Len(before'[j]) <= Len(before[j]) + 1
  <2>1. [written |-> size[i] \div 2, pos |-> Position(i)] \in Past
    <3>1. size[i] \in Nat
      BY DEF TypeInv, FileTypes
    <3> QED
      BY <3>1, Halves, PositionNat DEF Past
  <2>2. before \in [Inode -> Seq(Past)]
    BY DEF TypeInv, FileTypes
  <2> DEFINE past == [written |-> size[i] \div 2, pos |-> Position(i)]
  <2> HIDE DEF past
  <2>3. /\ Append(before[i], past) \in Seq(Past)
        /\ Len(Append(before[i], past)) = Len(before[i]) + 1
    BY <2>1, <2>2 DEF past
  <2>4. before' = [before EXCEPT ![i] = Append(before[i], past)]
    BY <1>1 DEF past
  <2>5. \A j \in Inode : Len(before[j]) \in Nat
    BY <2>2
  <2>6. ASSUME NEW j \in Inode PROVE Len(before'[j]) <= Len(before[j]) + 1
    BY <2>2, <2>3, <2>4, <2>5
  <2> QED
    BY <2>2, <2>3, <2>4, <2>6
<1>5. \A j \in Inode : inodes' + Len(before'[j]) <= contents'
  <2>1. \A j \in Inode : Len(before[j]) \in Nat /\ Len(before'[j]) \in Nat
    <3>1. before \in [Inode -> Seq(Past)] /\ before' \in [Inode -> Seq(Past)]
      BY <1>4 DEF TypeInv, FileTypes
    <3> QED
      BY <3>1
  <2>2. inodes \in Nat /\ contents \in Nat /\ \A j \in Inode : inodes + Len(before[j]) <= contents
    BY DEF TypeInv, FileTypes, Inode
  <2> QED
    BY <1>1, <1>4, <2>1, <2>2
<1>6. FileTypes'
  BY <1>1, <1>2, <1>3, <1>4, <1>5 DEF TypeInv, FileTypes
<1>7. StateTypes'
  <2>1. {} \in Lines
    BY DEF Lines
  <2> QED
    BY <1>1, <2>1 DEF TypeInv, StateTypes
<1> QED
  BY <1>1, <1>6, <1>7, Kept DEF TypeInv

LEMMA FilesTypes ==
    ASSUME TypeInv,
           \/ \E i \in Inode : WriteLine(i) \/ WriteHalf(i) \/ GrowOld(i)
           \/ \E i \in Inode : Truncate(i) \/ ReuseInode(i)
           \/ Rename \/ Delete \/ Create
    PROVE  TypeInv'
<1>1. CASE \E i \in Inode : WriteLine(i) \/ WriteHalf(i)
  BY <1>1, WriteTypes DEF WriteLine, WriteHalf
<1>2. ASSUME NEW i \in Inode, GrowOld(i) PROVE TypeInv'
  <2>1. /\ modified' = [modified EXCEPT ![i] = IF modified[i] = "fresh" THEN "quiet" ELSE "dead"]
        /\ UNCHANGED <<link, inodes, contents, size, before, crawlVars, enrichIn>>
    BY <1>2 DEF GrowOld
  <2>2. FileTypes'
    BY <2>1 DEF TypeInv, FileTypes
  <2> QED
    BY <2>1, <2>2, Kept DEF TypeInv, crawlVars
<1>3. CASE \E i \in Inode : Truncate(i)
  BY <1>3, RenewTypes DEF Truncate, TypeInv, FileTypes
<1>4. ASSUME NEW i \in Inode, ReuseInode(i) PROVE TypeInv'
  <2>1. link' \in [Path -> 0 .. MaxContents]
    <3>1. link \in [Path -> 0 .. MaxContents] /\ i \in 0 .. MaxContents
      BY Zeros DEF TypeInv, FileTypes
    <3> QED
      BY <1>4, <3>1 DEF ReuseInode
  <2> QED
    BY <1>4, <2>1, RenewTypes DEF ReuseInode
<1>5. CASE Rename \/ Delete
  <2>1. UNCHANGED <<inodes, contents, size, modified, before, crawlVars, enrichIn>>
    BY <1>5 DEF Rename, Delete
  <2>2. link' \in [Path -> 0 .. MaxContents]
    BY <1>5, Zeros DEF Rename, Delete, TypeInv, FileTypes, Path
  <2>3. FileTypes'
    BY <2>1, <2>2 DEF TypeInv, FileTypes
  <2> QED
    BY <2>1, <2>3, Kept DEF TypeInv, crawlVars
<1>6. CASE Create
  <2>1. /\ inodes' = inodes + 1 /\ contents' = contents + 1 /\ contents < MaxContents
        /\ link' = [link EXCEPT ![Live] = inodes + 1]
        /\ UNCHANGED <<size, modified, before, crawlVars, enrichIn>>
    BY <1>6 DEF Create
  <2>2. /\ inodes \in Nat \ {0} /\ contents \in Nat /\ \A i \in Inode : Len(before[i]) \in Nat
        /\ \A i \in Inode : inodes + Len(before[i]) <= contents
    <3>1. before \in [Inode -> Seq(Past)] /\ inodes \in Inode /\ contents \in Inode
          /\ \A i \in Inode : inodes + Len(before[i]) <= contents
      BY DEF TypeInv, FileTypes
    <3>2. \A i \in Inode : Len(before[i]) \in Nat
      BY <3>1
    <3> QED
      BY <3>1, <3>2 DEF Inode
  <2>3. inodes <= contents
    <3>1. 1 \in Inode
      BY Zeros
    <3>2. Len(before[1]) \in Nat /\ inodes + Len(before[1]) <= contents
      BY <2>2, <3>1
    <3> QED
      BY <2>2, <3>2
  <2>4. inodes' \in Inode /\ contents' \in Inode
    BY <2>1, <2>2, <2>3 DEF Inode
  <2>5. \A i \in Inode : inodes' + Len(before[i]) <= contents'
    <3> SUFFICES ASSUME NEW i \in Inode PROVE inodes + 1 + Len(before[i]) <= contents + 1
      BY <2>1
    <3> DEFINE n == Len(before[i])
    <3>1. inodes \in Nat /\ contents \in Nat /\ n \in Nat /\ inodes + n <= contents
      BY <2>2
    <3> HIDE DEF n
    <3>2. inodes + 1 + n <= contents + 1
      BY <3>1
    <3> QED
      BY <3>2 DEF n
  <2>6. link' \in [Path -> 0 .. MaxContents]
    BY <2>1, <2>4, Zeros DEF TypeInv, FileTypes
  <2>7. FileTypes'
    BY <2>1, <2>4, <2>5, <2>6 DEF TypeInv, FileTypes
  <2> QED
    BY <2>1, <2>7, Kept DEF TypeInv, crawlVars
<1> QED
  BY <1>1, <1>2, <1>3, <1>4, <1>5, <1>6

-----------------------------------------------------------------------------
(* The crawler.                                                            *)

LEMMA Numbers ==
    ASSUME TypeInv
    PROVE  /\ MaxSize \in Nat /\ BufSize \in Nat /\ BufSize > 0
           /\ start \in Nat /\ consumed \in Nat /\ fdPos \in Nat
           /\ start <= MaxSize /\ consumed <= MaxSize /\ fdPos <= MaxSize
           /\ LineEnd \in Nat /\ consumed < LineEnd /\ LineEnd <= consumed + 2
           /\ consumed \div 2 \in Nat
           /\ \A i \in Inode : /\ size[i] \in Nat /\ size[i] <= MaxSize
                              /\ offsets[i] \in Nat /\ offsets[i] <= MaxSize
<1>1. start \in 0 .. MaxSize /\ consumed \in 0 .. MaxSize /\ fdPos \in 0 .. MaxSize
  BY DEF TypeInv, CrawlTypes
<1>2. \A i \in Inode : size[i] \in 0 .. MaxSize /\ offsets[i] \in 0 .. MaxSize
  BY DEF TypeInv, FileTypes, StateTypes
<1>3. /\ consumed \div 2 \in Nat /\ consumed % 2 \in {0, 1}
      /\ consumed = 2 * (consumed \div 2) + (consumed % 2)
  BY <1>1, Halves
<1> QED
  BY <1>1, <1>2, <1>3 DEF LineEnd

LEMMA WithTypes ==
    ASSUME TypeInv, NEW end \in 0 .. MaxSize PROVE With(end) \in InMemory
<1>1. Parsed(end) \subseteq 1 .. MaxSize
  <2>1. consumed \in Nat /\ consumed \div 2 \in Nat /\ 2 * (consumed \div 2) <= consumed
    <3>1. consumed \in Nat
      BY Numbers
    <3> QED
      BY <3>1, Halves
  <2>2. consumed < end => consumed \div 2 + 1 \in 1 .. MaxSize
    BY <2>1
  <2> QED
    BY <2>2 DEF Parsed
<1>2. fdPos \in 0 .. MaxSize /\ container.lines \subseteq 1 .. MaxSize
  BY DEF TypeInv, CrawlTypes, InMemory, Lines
<1>3. container.lines \cup Parsed(end) \in Lines
  BY <1>1, <1>2 DEF Lines
<1> QED
  BY <1>2, <1>3 DEF With, InMemory

LEMMA NextFileTypes == ASSUME TypeInv, NextFile PROVE FileTypes' /\ CrawlTypes'
<1>1. FileTypes'
  BY Kept DEF NextFile, TypeInv
<1>2. CrawlTypes'
  BY Zeros DEF NextFile, TypeInv, CrawlTypes, Path
<1> QED
  BY <1>1, <1>2

LEMMA RecordTypes ==
    ASSUME TypeInv, pc = "read", RecordOffset
    PROVE  /\ offsets' \in [Inode -> 0 .. MaxSize]
           /\ anew' \in [Inode -> BOOLEAN]
BY DEF RecordOffset, TypeInv, CrawlTypes, StateTypes

LEMMA SendTypes ==
    ASSUME TypeInv, pc = "read", NEW c \in InMemory, Send(c),
           RecordOffset \/ UNCHANGED <<offsets, anew>>
    PROVE  TypeInv'
<1>1. source \in Inode /\ source \in DOMAIN sent
  BY DEF TypeInv, CrawlTypes, StateTypes
<1>2. SentTypes'
  <2> DEFINE m == [src |-> source, offset |-> c.offset, lines |-> c.lines]
  <2>1. m \in Message
    BY <1>1 DEF InMemory, Message
  <2>2. enrichIn' = <<m>>
    BY DEF Send
  <2> HIDE DEF m
  <2> QED
    BY <2>1, <2>2 DEF SentTypes
<1>3. sent' \in [Inode -> Lines]
  <2>1. sent[source] \cup c.lines \in Lines
    BY <1>1 DEF TypeInv, StateTypes, InMemory, Lines
  <2>2. sent' = [sent EXCEPT ![source] = sent[source] \cup c.lines]
    BY DEF Send
  <2> QED
    BY <2>1, <2>2 DEF TypeInv, StateTypes
<1>4. StateTypes'
  BY <1>3, RecordTypes DEF TypeInv, StateTypes
<1> QED
  BY <1>2, <1>4, NextFileTypes DEF Send, TypeInv

LEMMA CrawlerTypes == ASSUME TypeInv, CrawlerNext \/ TakeContainer PROVE TypeInv'
<1>1. CASE Glob \/ CrawlEnds
  <2>1. /\ UNCHANGED <<fileVars, path, source, fresh, start, readVars, offsets, anew, sent, enrichIn>>
        /\ pc' \in {"next", "sleep"} /\ todo' \subseteq Path
    BY <1>1 DEF Glob, CrawlEnds, TypeInv, CrawlTypes
  <2>2. CrawlTypes'
    BY <2>1 DEF readVars, TypeInv, CrawlTypes
  <2> QED
    BY <2>1, <2>2, Kept DEF TypeInv
<1>2. ASSUME NEW p \in Path, Identify(p) PROVE TypeInv'
  <2>1. /\ UNCHANGED <<fileVars, fresh, start, readVars, offsets, anew, sent, enrichIn>>
        /\ todo' = todo \ {p} /\ pc = "next"
        /\ \/ link[p] = 0 /\ UNCHANGED <<pc, path, source>>
           \/ link[p] # 0 /\ path' = p /\ source' = link[p] /\ pc' = "stat"
    BY <1>2 DEF Identify
  <2>2. link[p] # 0 => link[p] \in Inode
    BY DEF TypeInv, FileTypes, Inode
  <2>3. CASE link[p] = 0
    <3>1. CrawlTypes'
      BY <2>1, <2>3 DEF readVars, TypeInv, CrawlTypes
    <3> QED
      BY <2>1, <3>1, Kept DEF TypeInv
  <2>4. CASE link[p] # 0
    <3>1. source' \in Inode /\ source' \in 0 .. MaxContents /\ path' \in Path /\ pc' = "stat"
      BY <2>1, <2>2, <2>4, Zeros
    <3>2. CrawlTypes'
      BY <2>1, <3>1 DEF readVars, TypeInv, CrawlTypes
    <3> QED
      BY <2>1, <3>2, Kept DEF TypeInv
  <2> QED
    BY <2>3, <2>4
<1>3. CASE NothingToRead \/ OpenFails
  <2>1. NextFile /\ UNCHANGED <<offsets, anew, sent, enrichIn>>
    BY <1>3 DEF NothingToRead, OpenFails, SkipFile
  <2> QED
    BY <2>1, NextFileTypes, Kept DEF TypeInv
<1>4. CASE Stat
  <2>1. /\ UNCHANGED <<fileVars, todo, path, source, readVars, offsets, anew, sent, enrichIn>>
        /\ fresh' \in BOOLEAN /\ start' = StartOf(source, link[path]) /\ pc = "stat" /\ pc' = "open"
    BY <1>4 DEF Stat
  <2>2. start' \in 0 .. MaxSize
    <3>1. offsets[source] \in 0 .. MaxSize
      BY <2>1 DEF TypeInv, CrawlTypes, StateTypes
    <3> QED
      BY <2>1, <3>1, Zeros DEF StartOf
  <2>3. CrawlTypes'
    BY <2>1, <2>2 DEF readVars, TypeInv, CrawlTypes
  <2> QED
    BY <2>1, <2>3, Kept DEF TypeInv
<1>5. CASE Open
  <2>1. /\ UNCHANGED <<fileVars, todo, path, source, fresh, start, offsets, anew, sent, enrichIn>>
        /\ fd' = link[path] /\ link[path] # 0 /\ consumed' = start /\ fdPos' = start
        /\ container' = NoLines /\ pc = "open" /\ pc' = "read"
    BY <1>5 DEF Open
  <2>2. fd' \in Inode /\ fd' \in 0 .. MaxContents
    BY <2>1, Zeros DEF TypeInv, CrawlTypes, FileTypes, Inode
  <2>3. CrawlTypes'
    BY <2>1, <2>2, Zeros DEF TypeInv, CrawlTypes
  <2> QED
    BY <2>1, <2>3, Kept DEF TypeInv
<1>6. CASE Fill
  <2>1. /\ UNCHANGED <<fileVars, pc, todo, path, source, fresh, start, fd, consumed, container,
                       offsets, anew, sent, enrichIn>>
        /\ pc = "read" /\ fdPos < size[fd]
        /\ fdPos' = IF size[fd] - fdPos < BufSize THEN size[fd] ELSE fdPos + BufSize
    BY <1>6 DEF Fill
  <2>2. fdPos' \in 0 .. MaxSize
    <3>1. fd \in Inode
      BY <2>1 DEF TypeInv, CrawlTypes
    <3> QED
      BY <2>1, <3>1, Numbers
  <2>3. CrawlTypes'
    BY <2>1, <2>2 DEF TypeInv, CrawlTypes
  <2> QED
    BY <2>1, <2>3, Kept DEF TypeInv
<1>7. CASE ReadLine
  <2>1. /\ UNCHANGED <<fileVars, pc, todo, path, source, fresh, start, fd, fdPos, sent, enrichIn>>
        /\ pc = "read" /\ LineEnd <= fdPos /\ RecordOffset
        /\ container' = With(LineEnd) /\ consumed' = LineEnd
    BY <1>7 DEF ReadLine
  <2>2. LineEnd \in 0 .. MaxSize
    BY <2>1, Numbers
  <2>3. CrawlTypes'
    BY <2>1, <2>2, WithTypes DEF TypeInv, CrawlTypes
  <2>4. StateTypes'
    BY <2>1, RecordTypes DEF TypeInv, StateTypes
  <2> QED
    BY <2>1, <2>3, <2>4, Kept DEF TypeInv
<1>8. CASE EndOfFile \/ BreakLastLine \/ ReadFails
  <2>1. container \in InMemory /\ With(fdPos) \in InMemory
    BY WithTypes DEF TypeInv, CrawlTypes
  <2> QED
    BY <1>8, <2>1, SendTypes DEF EndOfFile, BreakLastLine, ReadFails, AtEnd
<1>9. CASE TakeContainer
  <2>1. enrichIn' = <<>> /\ UNCHANGED <<fileVars, crawlVars>>
    BY <1>9 DEF TakeContainer
  <2>2. SentTypes'
    BY <2>1 DEF SentTypes
  <2> QED
    BY <2>1, <2>2, Kept DEF TypeInv, crawlVars
<1> QED
  BY <1>1, <1>2, <1>3, <1>4, <1>5, <1>6, <1>7, <1>8, <1>9 DEF CrawlerNext

LEMMA TypeStep == TypeInv /\ [Next]_vars => TypeInv'
<1>1. TypeInv /\ UNCHANGED vars => TypeInv'
  BY Kept DEF vars, crawlVars, TypeInv
<1> QED
  BY <1>1, FilesTypes, CrawlerTypes DEF Next

\* The variables of the crawler hold values of their types, whatever the file
\* system does between the steps: the offsets and positions stay within the
\* files, and a file that is read was there (crawler_files.go:52-213).
THEOREM TypeCorrect == Spec => []TypeOK
<1>1. TypeInv => TypeOK
  BY DEF TypeInv, FileTypes, StateTypes, CrawlTypes, SentTypes, InMemory, Lines, Past, TypeOK
<1> QED
  BY <1>1, TypeInit, TypeStep, PTL DEF Spec

-----------------------------------------------------------------------------
(* Orderly file systems.  A line that is begun and not finished is the     *)
(* only thing behind an offset; while a file is read, what is in the       *)
(* container are the lines from where the crawl began to what it has got.  *)

Even(n) == n % 2 = 0

Reading(i) == pc = "read" /\ source = i

FileInv(i) ==
    /\ anew[i] => size[i] < offsets[i] /\ Even(size[i])
    /\ ~anew[i] => offsets[i] <= size[i]
    /\ ~Even(size[i]) => ~anew[i] /\ size[i] = offsets[i] + 1 /\ modified[i] = "fresh"
    /\ ~Reading(i) => /\ Even(offsets[i])
                      /\ ~anew[i] => 1 .. (offsets[i] \div 2) \subseteq sent[i]

\* Where a crawl of the file begins.
Begins == IF anew[source] THEN 0 ELSE offsets[source]

OpenInv ==
    pc \in {"open", "read"} =>
        /\ Even(start) /\ start <= size[source]
        /\ ~Even(size[source]) => fresh
        /\ 1 .. (start \div 2) \subseteq sent[source]
        /\ pc = "open" => start = Begins

ReadInv ==
    pc = "read" =>
        /\ fd = source /\ Even(consumed)
        /\ start <= consumed /\ consumed <= fdPos /\ fdPos <= size[source]
        /\ container.lines = (start \div 2 + 1) .. (consumed \div 2)
        /\ consumed = start => container.offset = 0 /\ start = Begins
        /\ consumed # start => Even(size[source])

OrderInv == /\ \A i \in Inode : FileInv(i)
            /\ pc \in {"stat", "open"} => link[path] = source
            /\ OpenInv /\ ReadInv
            /\ enrichIn # <<>> => pc = "next"

LEMMA Parity ==
    ASSUME NEW n \in Nat
    PROVE  /\ Even(0)
           /\ Even(n) => n = 2 * (n \div 2)
           /\ Even(n) => ~Even(n + 1) /\ Even(n + 2) /\ (n + 2) \div 2 = n \div 2 + 1
           /\ ~Even(n) => Even(n + 1) /\ ~Even(n + 2) /\ (n + 1) \div 2 = n \div 2 + 1
           /\ Even(n) => (n + 1) \div 2 = n \div 2
<1>1. n + 1 \in Nat /\ n + 2 \in Nat /\ 0 \in Nat
  OBVIOUS
<1> DEFINE q0 == n \div 2        r0 == n % 2
           q1 == (n + 1) \div 2  r1 == (n + 1) % 2
           q2 == (n + 2) \div 2  r2 == (n + 2) % 2
<1>2. /\ q0 \in Nat /\ r0 \in {0, 1} /\ n = 2 * q0 + r0
      /\ q1 \in Nat /\ r1 \in {0, 1} /\ n + 1 = 2 * q1 + r1
      /\ q2 \in Nat /\ r2 \in {0, 1} /\ n + 2 = 2 * q2 + r2
  BY <1>1, Halves
<1>3. 0 % 2 = 0
  OBVIOUS
<1> HIDE DEF q0, r0, q1, r1, q2, r2
<1>4. /\ r0 = 0 => n = 2 * q0 /\ r1 # 0 /\ r2 = 0 /\ q2 = q0 + 1 /\ q1 = q0
      /\ r0 # 0 => r1 = 0 /\ r2 # 0 /\ q1 = q0 + 1
  BY <1>2
<1> QED
  BY <1>3, <1>4 DEF Even, q0, r0, q1, r1, q2, r2

LEMMA EvenGap ==
    ASSUME NEW m \in Nat, NEW n \in Nat, Even(m), Even(n), m < n PROVE m + 2 <= n
<1> DEFINE p == m \div 2  q == n \div 2
<1>1. m = 2 * p /\ n = 2 * q /\ p \in Nat /\ q \in Nat
  BY Parity, Halves
<1> HIDE DEF p, q
<1> QED
  BY <1>1

\* What is known of the file that is read.
LEMMA Source ==
    ASSUME TypeInv, pc \in {"stat", "open", "read"}
    PROVE  /\ source \in Inode /\ size[source] \in Nat /\ offsets[source] \in Nat
           /\ anew[source] \in BOOLEAN /\ start \in Nat /\ consumed \in Nat /\ fdPos \in Nat
<1>1. source \in Inode
  BY DEF TypeInv, CrawlTypes
<1> QED
  BY <1>1, Numbers DEF TypeInv, StateTypes

LEMMA FileKept ==
    ASSUME OrderInv, UNCHANGED <<size, modified, offsets, anew, sent>>,
           NEW i \in Inode, Reading(i) => Reading(i)'
    PROVE  FileInv(i)'
<1>1. FileInv(i)
  BY DEF OrderInv
<1> QED
  BY <1>1 DEF FileInv

LEMMA OrderInit == Init => OrderInv
<1> SUFFICES ASSUME Init PROVE OrderInv
  OBVIOUS
<1>1. ASSUME NEW i \in Inode PROVE FileInv(i)
  <2>1. size[i] = 0 /\ offsets[i] = 0 /\ anew[i] = FALSE
    BY DEF Init
  <2>2. 0 \div 2 = 0 /\ Even(0) /\ 1 .. 0 = {}
    BY Parity
  <2> QED
    BY <2>1, <2>2 DEF FileInv
<1> QED
  BY <1>1 DEF Init, OrderInv, OpenInv, ReadInv

-----------------------------------------------------------------------------
(* The file system's steps.                                                *)

LEMMA WriteOrder ==
    ASSUME Orderly, TypeInv, OrderInv, NEW i \in Inode, WriteLine(i) \/ WriteHalf(i)
    PROVE  OrderInv'
<1>1. PICK cells \in {1, 2} :
          /\ Write(i, cells)
          /\ cells = 2 => Even(size[i])
          /\ cells = 1 => ~Even(size[i]) \/ (pc = "sleep" /\ offsets[i] = size[i])
  <2>1. CASE WriteLine(i)
    BY <2>1 DEF WriteLine, Even
  <2>2. CASE WriteHalf(i)
    <3>1. size[i] % 2 \in {0, 1}
      BY Numbers, Halves
    <3> QED
      BY <2>2, <3>1 DEF WriteHalf, Even
  <2> QED
    BY <2>1, <2>2
<1>2. /\ size' = [size EXCEPT ![i] = size[i] + cells]
      /\ anew[i] => size[i] + cells < offsets[i]
      /\ modified' = [modified EXCEPT ![i] = "fresh"]
      /\ UNCHANGED <<link, inodes, contents, before, crawlVars, enrichIn>>
  BY <1>1 DEF Write
<1>3. UNCHANGED <<pc, path, source, fresh, start, fd, consumed, fdPos, container, offsets, anew, sent>>
  BY <1>2 DEF crawlVars, readVars
<1>4. /\ \A j \in Inode : size'[j] = IF j = i THEN size[i] + cells ELSE size[j]
      /\ \A j \in Inode : modified'[j] = IF j = i THEN "fresh" ELSE modified[j]
  BY <1>2 DEF TypeInv, FileTypes
<1>5. FileInv(i) /\ size[i] \in Nat /\ offsets[i] \in Nat /\ anew[i] \in BOOLEAN
  BY Numbers DEF OrderInv, TypeInv, StateTypes
\* The parity changes where nobody reads, or from a line begun to its end.
<1>6. /\ ~Even(size'[i]) => pc = "sleep" /\ offsets[i] = size[i] /\ size'[i] = size[i] + 1
      /\ Even(size[i]) /\ ~(pc = "sleep") => Even(size'[i])
  BY <1>1, <1>4, <1>5, Parity
<1>7. ASSUME NEW j \in Inode PROVE FileInv(j)'
  <2>1. CASE j # i
    <3>1. size'[j] = size[j] /\ modified'[j] = modified[j] /\ FileInv(j)
      BY <1>4, <2>1 DEF OrderInv
    <3> QED
      BY <1>3, <3>1 DEF FileInv, Reading
  <2>2. CASE j = i
    <3>1. size'[i] = size[i] + cells /\ modified'[i] = "fresh"
      BY <1>4
    <3>2. anew[i] => size'[i] < offsets[i] /\ Even(size'[i])
      BY <1>2, <1>5, <1>6, <3>1
    <3>3. ~anew[i] => offsets[i] <= size'[i]
      BY <1>5, <3>1 DEF FileInv
    <3>4. ~Even(size'[i]) => ~anew[i] /\ size'[i] = offsets[i] + 1
      BY <1>5, <1>6, <3>2
    <3> QED
      BY <1>3, <1>5, <2>2, <3>1, <3>2, <3>3, <3>4 DEF FileInv, Reading
  <2> QED
    BY <2>1, <2>2
<1>8. /\ \A j \in Inode : size[j] <= size'[j] /\ size[j] \in Nat /\ size'[j] \in Nat
      /\ \A j \in Inode : pc # "sleep" /\ Even(size[j]) => Even(size'[j])
  BY <1>4, <1>6, Numbers
<1>9. Begins' = Begins
  BY <1>3 DEF Begins
<1>10. OpenInv'
  <2> SUFFICES ASSUME pc \in {"open", "read"} PROVE OpenInv'
    BY <1>3 DEF OpenInv
  <2>1. start <= size'[source] /\ (~Even(size'[source]) => fresh)
    BY <1>8, Source DEF OrderInv, OpenInv
  <2> QED
    BY <1>3, <1>9, <2>1 DEF OrderInv, OpenInv
<1>11. ReadInv'
  <2> SUFFICES ASSUME pc = "read" PROVE ReadInv'
    BY <1>3 DEF ReadInv
  <2>1. fdPos <= size'[source] /\ (consumed # start => Even(size'[source]))
    BY <1>8, Source DEF OrderInv, ReadInv
  <2> QED
    BY <1>3, <1>9, <2>1 DEF OrderInv, ReadInv
<1> QED
  BY <1>2, <1>3, <1>7, <1>10, <1>11 DEF OrderInv

LEMMA RenewOrder ==
    ASSUME TypeInv, OrderInv, NEW i \in Inode, Renew(i), pc = "sleep"
    PROVE  OrderInv'
<1>1. /\ UNCHANGED <<pc, source, offsets, enrichIn>>
      /\ \A j \in Inode : size'[j] = IF j = i THEN 0 ELSE size[j]
      /\ \A j \in Inode : modified'[j] = IF j = i THEN "fresh" ELSE modified[j]
      /\ \A j \in Inode : anew'[j] = IF j = i THEN offsets[i] > 0 ELSE anew[j]
      /\ \A j \in Inode : sent'[j] = IF j = i THEN {} ELSE sent[j]
  BY DEF Renew, TypeInv, FileTypes, StateTypes
<1>2. offsets[i] \in Nat /\ Even(offsets[i]) /\ Even(0) /\ 0 \div 2 = 0 /\ 1 .. 0 = {}
  BY Numbers, Parity DEF OrderInv, FileInv, Reading
<1>3. ASSUME NEW j \in Inode PROVE FileInv(j)'
  <2>1. CASE j = i
    <3>1. size'[i] = 0 /\ (anew'[i] <=> offsets[i] > 0) /\ offsets'[i] = offsets[i]
      BY <1>1
    <3>2. ~ (offsets[i] > 0) => offsets[i] = 0
      BY <1>2
    <3> QED
      BY <1>2, <2>1, <3>1, <3>2 DEF FileInv
  <2>2. CASE j # i
    BY <1>1, <2>2 DEF OrderInv, FileInv, Reading
  <2> QED
    BY <2>1, <2>2
<1> QED
  BY <1>1, <1>3 DEF OrderInv, OpenInv, ReadInv

LEMMA FilesOrder ==
    ASSUME Orderly, TypeInv, OrderInv,
           \/ \E i \in Inode : WriteLine(i) \/ WriteHalf(i) \/ GrowOld(i)
           \/ \E i \in Inode : Truncate(i) \/ ReuseInode(i)
           \/ Rename \/ Delete \/ Create
    PROVE  OrderInv'
<1>1. CASE \E i \in Inode : WriteLine(i) \/ WriteHalf(i)
  BY <1>1, WriteOrder
<1>2. CASE \E i \in Inode : Truncate(i) \/ ReuseInode(i)
  BY <1>2, RenewOrder DEF Truncate, ReuseInode
<1>3. ASSUME UNCHANGED <<size, offsets, anew, sent, pc, path, source, fresh, start, readVars, enrichIn>>,
             \A i \in Inode : FileInv(i)',
             pc \in {"stat", "open"} => link'[path] = link[path]
      PROVE  OrderInv'
  <2>1. Begins' = Begins
    BY <1>3 DEF Begins
  <2>2. OpenInv' /\ ReadInv'
    BY <1>3, <2>1 DEF readVars, OrderInv, OpenInv, ReadInv
  <2> QED
    BY <1>3, <2>2 DEF OrderInv
<1>4. ASSUME NEW i \in Inode, GrowOld(i) PROVE OrderInv'
  <2>1. /\ UNCHANGED <<link, size, offsets, anew, sent, pc, path, source, fresh, start, readVars, enrichIn>>
        /\ Even(size[i])
        /\ \A j \in Inode : j # i => modified'[j] = modified[j]
    BY <1>4 DEF GrowOld, crawlVars, Even, TypeInv, FileTypes
  <2>2. ASSUME NEW j \in Inode PROVE FileInv(j)'
    <3>1. FileInv(j) /\ (~Even(size[j]) => modified'[j] = modified[j])
      BY <2>1 DEF OrderInv
    <3> QED
      BY <2>1, <3>1 DEF FileInv, Reading
  <2> QED
    BY <1>3, <2>1, <2>2
<1>5. CASE Rename \/ Delete \/ Create
  <2>1. UNCHANGED <<size, modified, offsets, anew, sent, pc, path, source, fresh, start, readVars, enrichIn>>
    BY <1>5 DEF Rename, Delete, Create, crawlVars
  <2>2. \A i \in Inode : FileInv(i)'
    BY <2>1, FileKept DEF Reading
  <2>3. ASSUME pc \in {"stat", "open"} PROVE link'[path] = link[path]
    <3>1. CASE Rename \/ Delete
      BY <2>3, <3>1 DEF Rename, Delete
    <3>2. CASE Create
      <4>1. link[path] # 0 /\ path \in Path
        BY <2>3, Source, Zeros DEF OrderInv, TypeInv, CrawlTypes
      <4> QED
        BY <3>2, <4>1 DEF Create, TypeInv, FileTypes
    <3> QED
      BY <1>5, <3>1, <3>2
  <2> QED
    BY <1>3, <2>1, <2>2, <2>3
<1> QED
  BY <1>1, <1>2, <1>4, <1>5

-----------------------------------------------------------------------------
(* The crawler's steps.                                                    *)

LEMMA LookOrder ==
    ASSUME Orderly, TypeInv, OrderInv,
           \/ Glob \/ CrawlEnds \/ \E p \in Path : Identify(p)
           \/ NothingToRead \/ OpenFails \/ TakeContainer
    PROVE  OrderInv'
<1>1. UNCHANGED <<link, size, modified, offsets, anew, sent>>
  BY DEF Glob, CrawlEnds, Identify, NothingToRead, OpenFails, TakeContainer, SkipFile, NextFile,
         fileVars, crawlVars
<1>2. CASE Glob \/ CrawlEnds \/ \E p \in Path : Identify(p)
  <2>1. /\ pc' \in {"sleep", "next", "stat"} /\ ~ (pc = "read") /\ enrichIn' = enrichIn
        /\ pc' = "stat" => link[path'] = source'
    BY <1>2 DEF Glob, CrawlEnds, Identify
  <2>2. enrichIn' = <<>> \/ pc' = "next"
    BY <1>2 DEF Glob, CrawlEnds, Identify, OrderInv
  <2>3. \A i \in Inode : FileInv(i)'
    BY <1>1, <2>1, FileKept DEF Reading
  <2> QED
    BY <1>1, <2>1, <2>2, <2>3 DEF OrderInv, OpenInv, ReadInv
<1>3. CASE NothingToRead \/ OpenFails
  <2>1. pc' = "next" /\ ~ (pc = "read")
    BY <1>3 DEF NothingToRead, OpenFails, SkipFile, NextFile
  <2>2. \A i \in Inode : FileInv(i)'
    BY <1>1, <2>1, FileKept DEF Reading
  <2> QED
    BY <2>1, <2>2 DEF OrderInv, OpenInv, ReadInv
<1>4. CASE TakeContainer
  <2>1. enrichIn' = <<>> /\ UNCHANGED crawlVars
    BY <1>4 DEF TakeContainer
  <2>2. UNCHANGED <<pc, path, source, fresh, start, fd, consumed, fdPos, container, offsets, anew, sent>>
    BY <2>1 DEF crawlVars, readVars
  <2>3. \A i \in Inode : FileInv(i)'
    BY <1>1, <2>2, FileKept DEF Reading
  <2>4. Begins' = Begins
    BY <2>2 DEF Begins
  <2>5. OpenInv' /\ ReadInv'
    BY <1>1, <2>2, <2>4 DEF OrderInv, OpenInv, ReadInv
  <2> QED
    BY <1>1, <2>1, <2>2, <2>3, <2>5 DEF OrderInv
<1> QED
  BY <1>2, <1>3, <1>4

LEMMA OpenOrder ==
    ASSUME Orderly, TypeInv, OrderInv, Stat \/ Open
    PROVE  OrderInv'
<1>1. /\ UNCHANGED <<link, size, modified, offsets, anew, sent, path, source, enrichIn>>
      /\ pc \in {"stat", "open"} /\ pc' \in {"open", "read"}
  BY DEF Stat, Open, fileVars
<1>2. \A i \in Inode : FileInv(i)'
  BY <1>1, FileKept DEF Reading
<1>3. /\ source \in Inode /\ size[source] \in Nat /\ offsets[source] \in Nat
      /\ link[path] = source /\ FileInv(source) /\ ~Reading(source) /\ start \in Nat
  BY <1>1, Source DEF OrderInv, Reading
<1>4. Begins' = Begins
  BY <1>1 DEF Begins
<1>5. CASE Stat
  <2>1. /\ start' = StartOf(source, source) /\ pc' = "open"
        /\ fresh' = (modified[source] = "fresh")
    BY <1>3, <1>5 DEF Stat
\* A file that has shrunk is one whose content is new.
  <2>2. start' = Begins /\ Even(start') /\ start' <= size[source] /\ start' \in Nat
    BY <1>3, <2>1, Parity DEF StartOf, FileInv, Begins
  <2>3. 1 .. (start' \div 2) \subseteq sent[source]
    <3>1. CASE anew[source]
      <4>1. start' = 0 /\ 0 \div 2 = 0 /\ 1 .. 0 = {}
        BY <2>2, <3>1 DEF Begins
      <4> QED
        BY <4>1
    <3>2. CASE ~anew[source]
      BY <1>3, <2>2, <3>2 DEF FileInv, Begins
    <3> QED
      BY <3>1, <3>2
  <2>4. ~Even(size[source]) => fresh'
    BY <1>3, <2>1 DEF FileInv
  <2>5. OpenInv'
    BY <1>1, <1>4, <2>1, <2>2, <2>3, <2>4 DEF OpenInv
  <2> QED
    BY <1>1, <1>2, <1>3, <2>1, <2>5 DEF OrderInv, ReadInv
<1>6. CASE Open
  <2>1. /\ fd' = source /\ consumed' = start /\ fdPos' = start /\ container' = NoLines
        /\ pc = "open" /\ pc' = "read" /\ UNCHANGED <<fresh, start>>
    BY <1>3, <1>6 DEF Open
  <2>2. /\ Even(start) /\ start <= size[source] /\ start = Begins
        /\ (~Even(size[source]) => fresh)
        /\ 1 .. (start \div 2) \subseteq sent[source]
    BY <2>1 DEF OrderInv, OpenInv
  <2>3. (start \div 2 + 1) .. (start \div 2) = {}
    <3>1. start \div 2 \in Nat
      BY <1>3, Halves
    <3> QED
      BY <3>1
  <2>4. container'.lines = {} /\ container'.offset = 0
    BY <2>1 DEF NoLines
  <2>5. OpenInv'
    BY <1>1, <1>4, <2>1, <2>2 DEF OpenInv
  <2>6. ReadInv'
    BY <1>1, <1>3, <1>4, <2>1, <2>2, <2>3, <2>4 DEF ReadInv
  <2> QED
    BY <1>1, <1>2, <2>1, <2>5, <2>6 DEF OrderInv
<1> QED
  BY <1>5, <1>6

\* What the invariant says of the file that is read.
LEMMA ReadFacts ==
    ASSUME TypeInv, OrderInv, pc = "read"
    PROVE  /\ source \in Inode /\ size[source] \in Nat /\ offsets[source] \in Nat
           /\ anew[source] \in BOOLEAN /\ start \in Nat /\ consumed \in Nat /\ fdPos \in Nat
           /\ fd = source /\ Even(start) /\ Even(consumed) /\ LineEnd = consumed + 2
           /\ start <= consumed /\ consumed <= fdPos /\ fdPos <= size[source]
           /\ ~Even(size[source]) => /\ fresh /\ consumed = start /\ ~anew[source]
                                     /\ offsets[source] = start /\ size[source] = start + 1
<1>1. /\ source \in Inode /\ size[source] \in Nat /\ offsets[source] \in Nat
      /\ anew[source] \in BOOLEAN /\ start \in Nat /\ consumed \in Nat /\ fdPos \in Nat
  BY Source
<1>2. FileInv(source)
  BY <1>1 DEF OrderInv
<1>3. /\ fd = source /\ Even(start) /\ Even(consumed)
      /\ start <= consumed /\ consumed <= fdPos /\ fdPos <= size[source]
      /\ ~Even(size[source]) => fresh
      /\ consumed # start => Even(size[source])
      /\ consumed = start => start = Begins
  BY DEF OrderInv, OpenInv, ReadInv
<1>4. LineEnd = consumed + 2
  BY <1>1, <1>3, Parity DEF LineEnd
<1>5. ~Even(size[source]) => /\ consumed = start /\ ~anew[source]
                            /\ offsets[source] = start /\ size[source] = start + 1
  BY <1>2, <1>3 DEF FileInv, Begins
<1> QED
  BY <1>1, <1>3, <1>4, <1>5

\* A crawl that ends in one of these ways has read to the end of a line.
LEMMA Ends ==
    ASSUME Orderly, TypeInv, OrderInv, EndOfFile \/ ReadFails
    PROVE  /\ pc = "read" /\ consumed = fdPos
           /\ With(fdPos) = [offset |-> fdPos, lines |-> container.lines]
           /\ Send(With(fdPos)) /\ RecordOffset
<1>1. pc = "read" /\ RecordOffset /\ Send(With(fdPos))
  BY DEF EndOfFile, ReadFails, AtEnd
<1>2. consumed = fdPos
  <2>1. CASE ReadFails
    BY <2>1 DEF ReadFails
  <2>2. CASE EndOfFile
    <3>1. LineEnd > fdPos /\ fdPos >= size[fd] /\ (consumed = fdPos \/ ~fresh)
      BY <2>2 DEF EndOfFile, AtEnd
    <3>2. fdPos = size[source] /\ fdPos < consumed + 2
      BY <1>1, <3>1, ReadFacts
    <3>3. CASE Even(size[source])
      <4>1. ~ (consumed < fdPos)
        BY <1>1, <3>2, <3>3, ReadFacts, EvenGap
      <4> QED
        BY <1>1, <4>1, ReadFacts
    <3>4. CASE ~Even(size[source])
      BY <1>1, <3>1, <3>4, ReadFacts
    <3> QED
      BY <3>3, <3>4
  <2> QED
    BY <2>1, <2>2
<1>3. Parsed(fdPos) = {}
  BY <1>1, <1>2, ReadFacts DEF Parsed
<1> QED
  BY <1>1, <1>2, <1>3 DEF With

\* A crawl breaks off before a line that was begun, and has read none.
LEMMA Breaks ==
    ASSUME TypeInv, OrderInv, BreakLastLine
    PROVE  /\ pc = "read" /\ Send(container) /\ UNCHANGED <<offsets, anew>>
           /\ ~Even(size[source])
           /\ container.offset = 0 /\ container.lines = {}
<1>1. /\ pc = "read" /\ LineEnd > fdPos /\ fdPos >= size[fd] /\ consumed < fdPos
      /\ Send(container) /\ UNCHANGED <<offsets, anew>>
  BY DEF BreakLastLine, AtEnd
<1>2. fdPos = size[source] /\ fdPos < consumed + 2
  BY <1>1, ReadFacts
<1>3. ~Even(size[source])
  BY <1>1, <1>2, ReadFacts, EvenGap
<1>4. consumed = start
  BY <1>1, <1>3, ReadFacts
<1>5. (start \div 2 + 1) .. (start \div 2) = {}
  <2>1. start \div 2 \in Nat
    BY <1>1, ReadFacts, Halves
  <2> QED
    BY <2>1
<1> QED
  BY <1>1, <1>3, <1>4, <1>5 DEF OrderInv, ReadInv

\* The lines a crawl sends follow the ones that were sent before.
LEMMA Joined ==
    ASSUME NEW a \in Nat, NEW b \in Nat, NEW S, a <= b,
           1 .. (a \div 2) \subseteq S
    PROVE  1 .. (b \div 2) \subseteq S \cup ((a \div 2 + 1) .. (b \div 2))
<1>1. a \div 2 \in Nat /\ b \div 2 \in Nat
  BY Halves
<1> DEFINE p == a \div 2  q == b \div 2
<1> HIDE DEF p, q
<1>2. 1 .. q \subseteq S \cup ((p + 1) .. q)
  <2> SUFFICES ASSUME NEW k \in 1 .. q PROVE k \in S \/ k \in (p + 1) .. q
    OBVIOUS
  <2>1. p \in Nat /\ q \in Nat
    BY <1>1 DEF p, q
  <2>2. k \in 1 .. p \/ k \in (p + 1) .. q
    BY <2>1
  <2>3. 1 .. p \subseteq S
    BY DEF p
  <2> QED
    BY <2>2, <2>3
<1> QED
  BY <1>2 DEF p, q

LEMMA EndOrder ==
    ASSUME Orderly, TypeInv, OrderInv, EndOfFile \/ ReadFails \/ BreakLastLine
    PROVE  OrderInv'
<1>1. /\ pc = "read" /\ pc' = "next" /\ UNCHANGED <<link, size, modified>>
  BY Ends, Breaks DEF Send, NextFile, fileVars
<1>2. ASSUME NEW i \in Inode, i # source PROVE FileInv(i)'
  <2>1. offsets'[i] = offsets[i] /\ anew'[i] = anew[i] /\ sent'[i] = sent[i]
    BY <1>2, Ends, Breaks DEF Send, RecordOffset, TypeInv, StateTypes
  <2>2. FileInv(i) /\ ~Reading(i)
    BY <1>2 DEF OrderInv, Reading
  <2> QED
    BY <1>1, <2>1, <2>2 DEF FileInv
<1>3. ASSUME NEW s \in Inode, s = source PROVE FileInv(s)'
  <2>1. /\ 1 .. (start \div 2) \subseteq sent[s] /\ FileInv(s)
        /\ container.lines = (start \div 2 + 1) .. (consumed \div 2)
    BY <1>1, <1>3 DEF OrderInv, OpenInv, ReadInv
  <2>2. CASE EndOfFile \/ ReadFails
    <3>1. /\ offsets'[s] = consumed /\ anew'[s] = FALSE /\ size'[s] = size[s]
          /\ sent'[s] = sent[s] \cup container.lines
      BY <1>1, <1>3, <2>2, Ends, ReadFacts DEF RecordOffset, Send, TypeInv, StateTypes
    <3>2. 1 .. (consumed \div 2) \subseteq sent'[s]
      BY <1>1, <2>1, <3>1, ReadFacts, Joined
    <3>3. consumed <= size[s] /\ Even(consumed)
      BY <1>1, <1>3, ReadFacts
    <3>4. ~Even(size[s]) => size[s] = consumed + 1
      BY <1>1, <1>3, ReadFacts
    <3> QED
      BY <1>1, <2>1, <3>1, <3>2, <3>3, <3>4 DEF FileInv
  <2>3. CASE BreakLastLine
    <3>1. /\ ~Even(size[s]) /\ offsets' = offsets /\ anew' = anew /\ offsets[s] = start
          /\ Even(start) /\ sent'[s] = sent[s] \cup container.lines
      BY <1>1, <1>3, <2>3, Breaks, ReadFacts DEF Send, TypeInv, StateTypes
    <3> QED
      BY <1>1, <2>1, <3>1 DEF FileInv
  <2> QED
    BY <2>2, <2>3
<1> QED
  BY <1>1, <1>2, <1>3 DEF OrderInv, OpenInv, ReadInv

LEMMA ReadOrder ==
    ASSUME Orderly, TypeInv, OrderInv, Fill \/ ReadLine
    PROVE  OrderInv'
<1>1. /\ UNCHANGED <<link, size, modified, pc, source, fresh, start, fd, sent, enrichIn>>
      /\ pc = "read"
  BY DEF Fill, ReadLine, fileVars
<1>2. CASE Fill
  <2>1. /\ UNCHANGED <<consumed, container, offsets, anew>>
        /\ fdPos < size[fd]
        /\ fdPos' = IF size[fd] - fdPos < BufSize THEN size[fd] ELSE fdPos + BufSize
    BY <1>2 DEF Fill
  <2>2. consumed <= fdPos' /\ fdPos' <= size[source]
    BY <1>1, <2>1, ReadFacts
  <2>3. \A i \in Inode : FileInv(i)'
    BY <1>1, <2>1, FileKept DEF Reading
  <2>4. Begins' = Begins
    BY <1>1, <2>1 DEF Begins
  <2>5. OpenInv' /\ ReadInv'
    BY <1>1, <2>1, <2>2, <2>4 DEF OrderInv, OpenInv, ReadInv
  <2> QED
    BY <1>1, <2>3, <2>5 DEF OrderInv
<1>3. CASE ReadLine
  <2>1. /\ UNCHANGED fdPos /\ LineEnd <= fdPos /\ RecordOffset
        /\ container' = With(LineEnd) /\ consumed' = LineEnd
    BY <1>3 DEF ReadLine
  <2>2. Even(size[source]) /\ LineEnd = consumed + 2
    BY <1>1, <2>1, ReadFacts
  <2>3. Even(LineEnd) /\ LineEnd \div 2 = consumed \div 2 + 1
    BY <1>1, <2>2, ReadFacts, Parity
  <2>4. ASSUME NEW i \in Inode PROVE FileInv(i)'
    <3>1. CASE i = source
      <4>1. /\ offsets'[i] = fdPos /\ anew'[i] = FALSE /\ size'[i] = size[i] /\ Reading(i)'
        BY <1>1, <2>1, <3>1 DEF RecordOffset, TypeInv, StateTypes, Reading
      <4>2. fdPos <= size[i] /\ Even(size[i])
        BY <1>1, <2>2, <3>1, ReadFacts
      <4> QED
        BY <4>1, <4>2 DEF FileInv
    <3>2. CASE i # source
      <4>1. offsets'[i] = offsets[i] /\ anew'[i] = anew[i]
        BY <2>1, <3>2 DEF RecordOffset, TypeInv, StateTypes
      <4> QED
        BY <1>1, <3>2, <4>1 DEF OrderInv, FileInv, Reading
    <3> QED
      BY <3>1, <3>2
  <2>5. OpenInv'
    BY <1>1 DEF OrderInv, OpenInv
  <2>6. container'.lines = (start \div 2 + 1) .. (LineEnd \div 2)
    <3> DEFINE p == start \div 2  q == consumed \div 2
    <3>1. p \in Nat /\ q \in Nat /\ p <= q
      <4>1. p \in Nat /\ q \in Nat /\ start = 2 * p /\ consumed = 2 * q /\ start <= consumed
        BY <1>1, ReadFacts, Halves, Parity
      <4> HIDE DEF p, q
      <4> QED
        BY <4>1
    <3>2. Parsed(LineEnd) = {q + 1}
      BY <1>1, <2>2, ReadFacts DEF Parsed, Even
    <3>3. container.lines = (p + 1) .. q
      BY <1>1 DEF OrderInv, ReadInv
    <3> HIDE DEF p, q
    <3>4. (p + 1) .. q \cup {q + 1} = (p + 1) .. (q + 1)
      BY <3>1
    <3>5. container'.lines = container.lines \cup Parsed(LineEnd)
      BY <2>1 DEF With
    <3>6. container'.lines = (p + 1) .. (q + 1)
      BY <3>2, <3>3, <3>4, <3>5
    <3> QED
      BY <2>3, <3>6 DEF p, q
  <2>7. ReadInv'
    <3>1. /\ fd = source /\ start <= LineEnd /\ start # LineEnd /\ fdPos <= size[source]
      BY <1>1, <2>2, ReadFacts
    <3> QED
      BY <1>1, <2>1, <2>2, <2>3, <2>6, <3>1 DEF ReadInv
  <2> QED
    BY <1>1, <2>4, <2>5, <2>7 DEF OrderInv
<1> QED
  BY <1>2, <1>3

LEMMA OrderStep == ASSUME Orderly PROVE TypeInv /\ OrderInv /\ [Next]_vars => OrderInv'
<1> SUFFICES ASSUME TypeInv, OrderInv, [Next]_vars PROVE OrderInv'
  OBVIOUS
<1>1. CASE UNCHANGED vars
  <2>1. UNCHANGED <<link, size, modified, offsets, anew, sent, pc, path, source, fresh, start, fd,
                    consumed, fdPos, container, enrichIn>>
    BY <1>1 DEF vars, fileVars, crawlVars, readVars
  <2>2. \A i \in Inode : FileInv(i)'
    BY <2>1, FileKept DEF Reading
  <2>3. Begins' = Begins
    BY <2>1 DEF Begins
  <2>4. OpenInv' /\ ReadInv'
    BY <2>1, <2>3 DEF OrderInv, OpenInv, ReadInv
  <2> QED
    BY <2>1, <2>2, <2>4 DEF OrderInv
<1>2. CASE CrawlerNext \/ TakeContainer
  BY <1>2, LookOrder, OpenOrder, ReadOrder, EndOrder DEF CrawlerNext
<1> QED
  BY <1>1, <1>2, FilesOrder DEF Next

\* No line that begins before the offset of a file is left unsent when a crawl is
\* over, whatever was read ahead, renamed, emptied or begun in the meantime
\* (crawler_files.go:100-209), if the file system is orderly.
THEOREM BehindOffsetHolds == ASSUME Orderly PROVE Spec => []BehindOffsetIsSent
<1>1. TypeInv /\ OrderInv => BehindOffsetIsSent
  <2> SUFFICES ASSUME TypeInv, OrderInv, pc \in {"sleep", "next"},
                      NEW i \in Inode, NEW k \in 1 .. MaxSize, ~anew[i], 2 * k - 1 <= offsets[i]
               PROVE  k \in sent[i]
    BY DEF BehindOffsetIsSent
  <2>1. /\ offsets[i] \in Nat /\ Even(offsets[i])
        /\ 1 .. (offsets[i] \div 2) \subseteq sent[i]
    BY Numbers DEF OrderInv, FileInv, Reading
  <2>2. offsets[i] = 2 * (offsets[i] \div 2) /\ offsets[i] \div 2 \in Nat
    BY <2>1, Parity, Halves
  <2>3. k \in 1 .. (offsets[i] \div 2)
    BY <2>2
  <2> QED
    BY <2>1, <2>3
<1> QED
  BY <1>1, TypeInit, TypeStep, OrderInit, OrderStep, PTL DEF Spec

-----------------------------------------------------------------------------
(* The abstract reader, to which each content of an inode is a source.     *)

\* What the reader sees as its variables.
Written == [s \in Sources |-> OfContent(s, "written", size[s[1]] \div 2)]

Pos == [s \in Sources |->
           OfContent(s, "pos", IF pc = "read" /\ source = s[1] THEN start \div 2
                                                               ELSE Position(s[1]))]

InChannel == IF enrichIn = <<>> THEN <<>>
             ELSE << [src |-> Content(enrichIn[1].src),
                      offset |-> enrichIn[1].offset \div 2,
                      events |-> LinesOf(Content(enrichIn[1].src), enrichIn[1].lines)] >>

Present(i) == IF Reading(i) THEN start \div 2 ELSE Position(i)

LEMMA PosIs == Pos = [s \in Sources |-> OfContent(s, "pos", Present(s[1]))]
BY DEF Pos, Present, Reading

LEMMA ContentIs ==
    ASSUME TypeInv, NEW i \in Inode
    PROVE  /\ Content(i) \in Sources /\ Len(before[i]) \in Nat
           /\ \A s \in Sources : s[1] = i /\ s[2] = Len(before[i]) <=> s = Content(i)
<1>1. before[i] \in Seq(Past)
  BY DEF TypeInv, FileTypes
<1>2. Len(before[i]) \in Nat
  BY <1>1
<1> DEFINE n == Len(before[i])
<1>3. inodes \in Nat /\ contents \in Nat /\ contents <= MaxContents /\ inodes + n <= contents
  BY DEF TypeInv, FileTypes, Inode
<1>4. n \in Nat
  BY <1>2
<1>5. Content(i) = <<i, n>>
  BY DEF Content
<1> HIDE DEF n
<1>6. n \in 0 .. MaxContents
  BY <1>3, <1>4
<1>7. <<i, n>> \in Sources /\ \A s \in Sources : s[1] = i /\ s[2] = n <=> s = <<i, n>>
  BY <1>6 DEF Sources
<1> QED
  BY <1>2, <1>5, <1>7 DEF n

\* What a step does to the present contents is all that the reader sees of it.
LEMMA SameWritten ==
    ASSUME UNCHANGED before, \A i \in Inode : size'[i] \div 2 = size[i] \div 2
    PROVE  Written' = Written
<1>1. \A s \in Sources : s[1] \in Inode
  BY DEF Sources
<1>2. ASSUME NEW s \in Sources
      PROVE  OfContent(s, "written", size[s[1]] \div 2)' = OfContent(s, "written", size[s[1]] \div 2)
  BY <1>1 DEF OfContent
<1> QED
  BY <1>2 DEF Written

LEMMA SamePos ==
    ASSUME UNCHANGED before, \A i \in Inode : Present(i)' = Present(i)
    PROVE  Pos' = Pos
<1>1. \A s \in Sources : s[1] \in Inode
  BY DEF Sources
<1>2. ASSUME NEW s \in Sources
      PROVE  OfContent(s, "pos", Present(s[1]))' = OfContent(s, "pos", Present(s[1]))
  BY <1>1 DEF OfContent
<1>3. [s \in Sources |-> OfContent(s, "pos", Present(s[1]))]' =
          [s \in Sources |-> OfContent(s, "pos", Present(s[1]))]
  BY <1>2
<1>4. Pos' = [s \in Sources |-> OfContent(s, "pos", Present(s[1]))]'
  BY DEF Pos, Present, Reading
<1> QED
  BY <1>3, <1>4, PosIs

LEMMA MoreWritten ==
    ASSUME TypeInv, UNCHANGED before, NEW i \in Inode,
           size'[i] \div 2 = size[i] \div 2 + 1,
           \A j \in Inode : j # i => size'[j] = size[j]
    PROVE  /\ Written' = [Written EXCEPT ![Content(i)] = Written[Content(i)] + 1]
           /\ Written[Content(i)] = size[i] \div 2
<1>1. \A s \in Sources : s[1] \in Inode
  BY DEF Sources
<1>2. ASSUME NEW s \in Sources, s # Content(i)
      PROVE  OfContent(s, "written", size[s[1]] \div 2)' = OfContent(s, "written", size[s[1]] \div 2)
  <2>1. CASE s[1] # i
    BY <1>1, <2>1 DEF OfContent
  <2>2. CASE s[1] = i
    <3>1. s[2] # Len(before[i])
      BY <1>2, <2>2, ContentIs
    <3> QED
      BY <2>2, <3>1 DEF OfContent
  <2> QED
    BY <2>1, <2>2
<1>3. /\ OfContent(Content(i), "written", size[i] \div 2) = size[i] \div 2
      /\ OfContent(Content(i), "written", size'[i] \div 2) = size'[i] \div 2
      /\ Content(i) \in Sources /\ Content(i)[1] = i
  BY ContentIs DEF OfContent, Content
<1>4. Written[Content(i)] = size[i] \div 2
  BY <1>3 DEF Written
<1>5. ASSUME NEW s \in Sources
      PROVE  Written'[s] = IF s = Content(i) THEN Written[s] + 1 ELSE Written[s]
  <2>1. CASE s = Content(i)
    BY <1>3, <1>4, <2>1 DEF Written, OfContent
  <2>2. CASE s # Content(i)
    BY <1>2, <2>2 DEF Written
  <2> QED
    BY <2>1, <2>2
<1>6. DOMAIN Written' = Sources /\ Written' = [s \in Sources |-> Written'[s]]
  BY DEF Written
<1>7. Written = [s \in Sources |-> Written[s]]
  BY DEF Written
<1> QED
  BY <1>3, <1>4, <1>5, <1>6, <1>7

LEMMA FurtherPos ==
    ASSUME TypeInv, UNCHANGED before, NEW i \in Inode,
           \A j \in Inode : j # i => Present(j)' = Present(j)
    PROVE  /\ Pos' = [Pos EXCEPT ![Content(i)] = Present(i)']
           /\ Pos[Content(i)] = Present(i)
<1>1. \A s \in Sources : s[1] \in Inode
  BY DEF Sources
<1>2. ASSUME NEW s \in Sources, s # Content(i)
      PROVE  OfContent(s, "pos", Present(s[1]))' = OfContent(s, "pos", Present(s[1]))
  <2>1. CASE s[1] # i
    BY <1>1, <2>1 DEF OfContent
  <2>2. CASE s[1] = i
    <3>1. s[2] # Len(before[i])
      BY <1>2, <2>2, ContentIs
    <3> QED
      BY <2>2, <3>1 DEF OfContent
  <2> QED
    BY <2>1, <2>2
<1>3. Content(i) \in Sources /\ Content(i)[1] = i /\ Content(i)' = Content(i)
  BY ContentIs DEF Content
<1>4. Pos' = [s \in Sources |-> OfContent(s, "pos", Present(s[1]))']
  BY DEF Pos, Present, Reading
<1>5. OfContent(Content(i), "pos", Present(i)) = Present(i)
  BY <1>3, ContentIs DEF OfContent, Content
<1>6. ASSUME NEW s \in Sources, s = Content(i)
      PROVE  OfContent(s, "pos", Present(s[1]))' = Present(i)'
  <2>1. s[1] = i /\ s[2] = Len(before[i])
    BY <1>6 DEF Content
  <2> QED
    BY <2>1, ContentIs DEF OfContent
<1>7. Pos[Content(i)] = Present(i)
  BY <1>3, <1>5, PosIs
<1>8. ASSUME NEW s \in Sources
      PROVE  Pos'[s] = IF s = Content(i) THEN Present(i)' ELSE Pos[s]
  <2>1. CASE s = Content(i)
    BY <1>4, <1>6, <2>1
  <2>2. CASE s # Content(i)
    BY <1>2, <1>4, <2>2, PosIs
  <2> QED
    BY <2>1, <2>2
<1>9. Pos' = [s \in Sources |-> Pos'[s]] /\ Pos = [s \in Sources |-> Pos[s]]
  BY DEF Pos
<1> QED
  BY <1>3, <1>7, <1>8, <1>9

\* An emptied file, or a new one with an inode again, is a new source; the old
\* one keeps its lines and its position.
LEMMA Renewed ==
    ASSUME TypeInv, NEW i \in Inode, Renew(i), pc = "sleep"
    PROVE  Written' = Written /\ Pos' = Pos
<1> DEFINE past == [written |-> size[i] \div 2, pos |-> Position(i)]
           n == Len(before[i])
<1>1. /\ before' = [before EXCEPT ![i] = Append(before[i], past)]
      /\ size' = [size EXCEPT ![i] = 0] /\ anew' = [anew EXCEPT ![i] = offsets[i] > 0]
      /\ UNCHANGED <<pc, source, offsets>>
  BY DEF Renew
<1>2. before \in [Inode -> Seq(Past)] /\ before[i] \in Seq(Past) /\ n \in Nat
  <2>1. before \in [Inode -> Seq(Past)]
    BY DEF TypeInv, FileTypes
  <2>2. before[i] \in Seq(Past)
    BY <2>1
  <2> QED
    BY <2>1, <2>2
<1>3. past.written = size[i] \div 2 /\ past.pos = Position(i)
  OBVIOUS
<1> HIDE DEF past
<1>4. /\ Len(Append(before[i], past)) = n + 1
      /\ Append(before[i], past)[n + 1] = past
      /\ \A k \in 1 .. n : Append(before[i], past)[k] = before[i][k]
  BY <1>2
<1>5. before'[i] = Append(before[i], past) /\ \A j \in Inode : j # i => before'[j] = before[j]
  BY <1>1, <1>2
<1>6. /\ Len(before'[i]) = n + 1 /\ before'[i][n + 1] = past
      /\ \A k \in 1 .. n : before'[i][k] = before[i][k]
  BY <1>4, <1>5
<1>7. /\ size'[i] = 0 /\ 0 \div 2 = 0
      /\ \A j \in Inode : j # i => size'[j] = size[j]
  BY <1>1 DEF TypeInv, FileTypes
<1>8. /\ Position(i)' = 0
      /\ \A j \in Inode : j # i => Position(j)' = Position(j)
  <2>1. offsets[i] \in Nat /\ (~ (offsets[i] > 0) => offsets[i] = 0)
    BY Numbers
  <2>2. anew'[i] = (offsets[i] > 0) /\ \A j \in Inode : j # i => anew'[j] = anew[j]
    BY <1>1 DEF TypeInv, StateTypes
  <2> QED
    BY <1>1, <1>7, <2>1, <2>2 DEF Position
<1> HIDE DEF n
<1> DEFINE ThenOf(s, field, q) ==
               CASE s[2] < Len(before'[s[1]]) -> before'[s[1]][s[2] + 1][field]
                 [] s[2] = Len(before'[s[1]]) -> q
                 [] OTHER                     -> 0
\* Either history: the content that ends, the one that begins, the ones between.
<1>9. ASSUME NEW s \in Sources, NEW field \in {"written", "pos"}, NEW p, NEW q,
             s[1] = i => p = past[field] /\ q = 0,
             s[1] # i => p = q
      PROVE  OfContent(s, field, p) = ThenOf(s, field, q)
  <2>1. s[1] \in Inode /\ s[2] \in Nat
    BY DEF Sources
  <2>2. CASE s[1] # i
    <3>1. before'[s[1]] = before[s[1]] /\ p = q
      BY <1>5, <1>9, <2>1, <2>2
    <3> QED
      BY <3>1 DEF OfContent
  <2>3. CASE s[1] = i
    <3>1. p = past[field] /\ q = 0
      BY <1>9, <2>3
    <3>2. CASE s[2] < n
      <4>1. s[2] + 1 \in 1 .. n /\ s[2] < n + 1
        BY <1>2, <2>1, <3>2
      <4>2. before'[s[1]][s[2] + 1] = before[s[1]][s[2] + 1] /\ Len(before'[s[1]]) = n + 1
        BY <1>6, <2>3, <4>1
      <4>3. ThenOf(s, field, q) = before[s[1]][s[2] + 1][field]
        BY <4>1, <4>2
      <4>4. OfContent(s, field, p) = before[s[1]][s[2] + 1][field]
        BY <2>3, <3>2 DEF OfContent, n
      <4> QED
        BY <4>3, <4>4
    <3>3. CASE s[2] = n
      <4>1. n < n + 1 /\ ~ (n < n)
        BY <1>2
      <4> QED
        BY <1>6, <2>3, <3>1, <3>3, <4>1 DEF OfContent, n
    <3>4. CASE s[2] > n
      <4>1. ~ (s[2] < n) /\ s[2] # n /\ ~ (s[2] < n + 1)
        BY <1>2, <2>1, <3>4
      <4> QED
        BY <1>6, <2>3, <3>1, <4>1 DEF OfContent, n
    <3> QED
      BY <1>2, <2>1, <3>2, <3>3, <3>4
  <2> QED
    BY <2>2, <2>3
<1> HIDE DEF ThenOf
<1>10. Written' = Written
  <2>1. ASSUME NEW s \in Sources
        PROVE  OfContent(s, "written", size[s[1]] \div 2)' = OfContent(s, "written", size[s[1]] \div 2)
    <3>1. s[1] \in Inode
      BY DEF Sources
    <3>2. s[1] = i => size[s[1]] \div 2 = past["written"] /\ size'[s[1]] \div 2 = 0
      BY <1>3, <1>7
    <3>3. s[1] # i => size[s[1]] \div 2 = size'[s[1]] \div 2
      BY <1>7, <3>1
    <3>4. OfContent(s, "written", size[s[1]] \div 2) = ThenOf(s, "written", size'[s[1]] \div 2)
      BY <1>9, <3>2, <3>3
    <3>5. OfContent(s, "written", size[s[1]] \div 2)' = ThenOf(s, "written", size'[s[1]] \div 2)
      BY DEF OfContent, ThenOf
    <3> QED
      BY <3>4, <3>5
  <2> QED
    BY <2>1 DEF Written
<1>11. Pos' = Pos
  <2>1. ASSUME NEW s \in Sources
        PROVE  OfContent(s, "pos", Present(s[1]))' = OfContent(s, "pos", Present(s[1]))
    <3>1. s[1] \in Inode
      BY DEF Sources
    <3>2. Present(s[1]) = Position(s[1]) /\ Present(s[1])' = Position(s[1])'
      BY <1>1 DEF Present, Reading
    <3>3. s[1] = i => Present(s[1]) = past["pos"] /\ Present(s[1])' = 0
      BY <1>3, <1>8, <3>2
    <3>4. s[1] # i => Present(s[1]) = Present(s[1])'
      BY <1>8, <3>1, <3>2
    <3>5. OfContent(s, "pos", Present(s[1])) = ThenOf(s, "pos", Present(s[1])')
      BY <1>9, <3>3, <3>4
    <3>6. OfContent(s, "pos", Present(s[1]))' = ThenOf(s, "pos", Present(s[1])')
      BY DEF OfContent, ThenOf
    <3> QED
      BY <3>5, <3>6
  <2>2. Pos' = [s \in Sources |-> OfContent(s, "pos", Present(s[1]))']
    BY DEF Pos, Present, Reading
  <2> QED
    BY <2>1, <2>2, PosIs
<1> QED
  BY <1>10, <1>11

-----------------------------------------------------------------------------
(* The steps of the reader.                                                *)

LEMMA ReaderStutters ==
    ASSUME Written' = Written, Pos' = Pos, InChannel' = InChannel
    PROVE  UNCHANGED (Abstract!vars)
BY DEF Abstract!vars, Written, Pos, InChannel

LEMMA ReaderWrites ==
    ASSUME NEW c \in Sources, Written[c] < MaxSize \div 2,
           Written' = [Written EXCEPT ![c] = Written[c] + 1], Pos' = Pos, InChannel' = InChannel
    PROVE  Abstract!ReaderNext
<1>1. Abstract!WriteLine(c)
  BY DEF Abstract!WriteLine, Written, Pos, InChannel
<1> QED
  BY <1>1 DEF Abstract!ReaderNext

LEMMA LinesBetween ==
    \A c : \A p, q \in Nat : p <= q =>
        LinesOf(c, (p + 1) .. q) = Abstract!LinesUpTo(c, q) \ Abstract!LinesUpTo(c, p)
<1> SUFFICES ASSUME NEW c, NEW p \in Nat, NEW q \in Nat, p <= q
             PROVE  LinesOf(c, (p + 1) .. q) = Abstract!LinesUpTo(c, q) \ Abstract!LinesUpTo(c, p)
  OBVIOUS
<1>1. (1 .. q) \ (1 .. p) = (p + 1) .. q
  OBVIOUS
<1>2. ({c} \X (1 .. q)) \ ({c} \X (1 .. p)) = {c} \X ((1 .. q) \ (1 .. p))
  OBVIOUS
<1> QED
  BY <1>1, <1>2 DEF Abstract!LinesUpTo, LinesOf

LEMMA ReaderCrawls ==
    ASSUME NEW c \in Sources, NEW n \in Nat, Pos[c] \in Nat, Written[c] \in Nat,
           Pos[c] < n, n <= Written[c], InChannel = <<>>,
           InChannel' = <<[src |-> c, offset |-> n, events |-> LinesOf(c, (Pos[c] + 1) .. n)]>>,
           Pos' = [Pos EXCEPT ![c] = n], Written' = Written
    PROVE  Abstract!ReaderNext
<1>1. n \in (Pos[c] + 1) .. Written[c]
  OBVIOUS
<1>2. LinesOf(c, (Pos[c] + 1) .. n) = Abstract!LinesUpTo(c, n) \ Abstract!LinesUpTo(c, Pos[c])
  <2>1. Pos[c] <= n
    OBVIOUS
  <2> QED
    BY <2>1, LinesBetween
<1>3. Abstract!CrawlTo(c, n)
  BY <1>1, <1>2 DEF Abstract!CrawlTo, Abstract!SendContainer, Written, Pos, InChannel
<1>4. Abstract!Crawl(c)
  BY <1>1, <1>3 DEF Abstract!Crawl, Written, Pos
<1> QED
  BY <1>4 DEF Abstract!ReaderNext

LEMMA ReaderCrawlsNothing ==
    ASSUME NEW c \in Sources, NEW n \in {0, Pos[c]}, InChannel = <<>>,
           InChannel' = <<[src |-> c, offset |-> n, events |-> {}]>>,
           Pos' = Pos, Written' = Written
    PROVE  Abstract!ReaderNext
<1>1. Abstract!CrawlNothing(c)
  BY DEF Abstract!CrawlNothing, Abstract!SendContainer, Written, Pos, InChannel
<1> QED
  BY <1>1 DEF Abstract!ReaderNext

LEMMA ReaderTakes ==
    ASSUME InChannel # <<>>, InChannel' = <<>>, Pos' = Pos, Written' = Written
    PROVE  Abstract!TakeContainer
BY DEF Abstract!TakeContainer, Written, Pos, InChannel

LEMMA ReaderInit == Init => Abstract!Init
<1> SUFFICES ASSUME Init PROVE Abstract!Init
  OBVIOUS
<1>1. InChannel = <<>>
  BY DEF Init, InChannel
<1>2. ASSUME NEW s \in Sources
      PROVE  /\ OfContent(s, "written", size[s[1]] \div 2) = 0
             /\ OfContent(s, "pos", Present(s[1])) = 0
  <2>1. s[1] \in Inode /\ s[2] \in Nat /\ 0 \div 2 = 0
    BY DEF Sources
  <2>2. size[s[1]] = 0 /\ before[s[1]] = <<>> /\ offsets[s[1]] = 0 /\ anew[s[1]] = FALSE
    BY <2>1 DEF Init
  <2>3. Present(s[1]) = 0
    BY <2>1, <2>2 DEF Present, Reading, Position, Init
  <2>4. Len(before[s[1]]) = 0 /\ ~ (s[2] < 0)
    BY <2>1, <2>2
  <2> QED
    BY <2>1, <2>2, <2>3, <2>4 DEF OfContent
<1>3. Written = [s \in Sources |-> 0] /\ Pos = [s \in Sources |-> 0]
  BY <1>2, PosIs DEF Written
<1> QED
  BY <1>1, <1>3 DEF Abstract!Init, Written, Pos, InChannel

\* The files' steps: a line is written when its newline is.
LEMMA FilesRefine ==
    ASSUME Orderly, TypeInv, OrderInv,
           \/ \E i \in Inode : WriteLine(i) \/ WriteHalf(i) \/ GrowOld(i)
           \/ \E i \in Inode : Truncate(i) \/ ReuseInode(i)
           \/ Rename \/ Delete \/ Create
    PROVE  [Abstract!ReaderNext]_(Abstract!vars)
<1>1. InChannel' = InChannel
  <2>1. CASE UNCHANGED <<before, enrichIn>>
    BY <2>1 DEF InChannel, Content
  <2>2. CASE \E i \in Inode : Truncate(i) \/ ReuseInode(i)
    <3>1. pc = "sleep" /\ enrichIn' = enrichIn
      BY <2>2 DEF Truncate, ReuseInode, Renew
    <3>2. enrichIn = <<>>
      BY <3>1 DEF OrderInv
    <3> QED
      BY <3>1, <3>2 DEF InChannel
  <2> QED
    BY <2>1, <2>2 DEF WriteLine, WriteHalf, Write, GrowOld, Rename, Delete, Create
<1>2. CASE \E i \in Inode : Truncate(i) \/ ReuseInode(i)
  <2>1. Written' = Written /\ Pos' = Pos
    BY <1>2, Renewed DEF Truncate, ReuseInode
  <2> QED
    BY <1>1, <2>1, ReaderStutters
<1>3. ASSUME UNCHANGED <<before, crawlVars>> PROVE Pos' = Pos
  <2>1. ASSUME NEW i \in Inode PROVE Present(i)' = Present(i)
    BY <1>3 DEF Present, Reading, Position, crawlVars
  <2> QED
    BY <1>3, <2>1, SamePos
<1>4. CASE Rename \/ Delete \/ Create \/ \E i \in Inode : GrowOld(i)
  <2>1. UNCHANGED <<before, size, crawlVars>>
    BY <1>4 DEF Rename, Delete, Create, GrowOld
  <2>2. Written' = Written
    BY <2>1, SameWritten
  <2> QED
    BY <1>1, <1>3, <2>1, <2>2, ReaderStutters
<1>5. ASSUME NEW i \in Inode, WriteLine(i) \/ WriteHalf(i)
      PROVE  [Abstract!ReaderNext]_(Abstract!vars)
  <2>1. UNCHANGED <<before, crawlVars>> /\ \A j \in Inode : j # i => size'[j] = size[j]
    BY <1>5 DEF WriteLine, WriteHalf, Write, TypeInv, FileTypes
  <2>2. size[i] \in Nat /\ size'[i] \in Nat /\ size'[i] <= MaxSize
    BY <1>5 DEF WriteLine, WriteHalf, Write, TypeInv, FileTypes
  <2>3. size'[i] \div 2 = size[i] \div 2 \/ size'[i] \div 2 = size[i] \div 2 + 1
    <3>1. CASE WriteLine(i)
      <4>1. size'[i] = size[i] + 2 /\ Even(size[i])
        BY <3>1 DEF WriteLine, Write, Even, TypeInv, FileTypes
      <4> QED
        BY <2>2, <4>1, Parity
    <3>2. CASE WriteHalf(i)
      <4>1. size'[i] = size[i] + 1
        BY <3>2 DEF WriteHalf, Write, TypeInv, FileTypes
      <4> QED
        BY <2>2, <4>1, Parity
    <3> QED
      BY <1>5, <3>1, <3>2
  <2>4. CASE size'[i] \div 2 = size[i] \div 2
    <3>1. Written' = Written
      BY <2>1, <2>4, SameWritten
    <3> QED
      BY <1>1, <1>3, <2>1, <3>1, ReaderStutters
  <2>5. CASE size'[i] \div 2 = size[i] \div 2 + 1
    <3>1. size[i] \div 2 < MaxSize \div 2
      <4> DEFINE p == size[i] \div 2  q == size'[i] \div 2  m == MaxSize \div 2
      <4>1. /\ p \in Nat /\ q \in Nat /\ m \in Nat /\ q = p + 1
            /\ 2 * q <= size'[i] /\ MaxSize < 2 * m + 2
        <5>1. /\ size'[i] = 2 * (size'[i] \div 2) + (size'[i] % 2) /\ size'[i] % 2 \in {0, 1}
              /\ MaxSize = 2 * (MaxSize \div 2) + (MaxSize % 2) /\ MaxSize % 2 \in {0, 1}
              /\ size[i] \div 2 \in Nat /\ size'[i] \div 2 \in Nat /\ MaxSize \div 2 \in Nat
          BY <2>2, Halves
        <5> QED
          BY <2>5, <5>1
      <4> HIDE DEF p, q, m
      <4>2. p < m
        BY <2>2, <4>1
      <4> QED
        BY <4>2 DEF p, m
    <3>2. /\ Written' = [Written EXCEPT ![Content(i)] = Written[Content(i)] + 1]
          /\ Written[Content(i)] = size[i] \div 2
      BY <2>1, <2>5, MoreWritten
    <3> QED
      BY <1>1, <1>3, <2>1, <3>1, <3>2, ContentIs, ReaderWrites
  <2> QED
    BY <2>3, <2>4, <2>5
<1> QED
  BY <1>2, <1>4, <1>5

\* The steps of a crawl that send nothing.
LEMMA CrawlStutters ==
    ASSUME Orderly, TypeInv, OrderInv,
           \/ Glob \/ CrawlEnds \/ \E p \in Path : Identify(p)
           \/ NothingToRead \/ Stat \/ OpenFails \/ Open \/ Fill \/ ReadLine
    PROVE  UNCHANGED (Abstract!vars)
<1>1. UNCHANGED <<before, size, enrichIn>>
  BY DEF Glob, CrawlEnds, Identify, NothingToRead, Stat, OpenFails, Open, Fill, ReadLine,
         SkipFile, NextFile, fileVars
<1>2. Written' = Written /\ InChannel' = InChannel
  BY <1>1, SameWritten DEF InChannel, Content
<1>3. ASSUME NEW i \in Inode PROVE Present(i)' = Present(i)
  <2>1. CASE Glob \/ CrawlEnds \/ (\E p \in Path : Identify(p)) \/ NothingToRead \/ Stat \/ OpenFails
    <3>1. UNCHANGED <<offsets, anew>> /\ pc # "read" /\ pc' # "read"
      BY <2>1 DEF Glob, CrawlEnds, Identify, NothingToRead, Stat, OpenFails, SkipFile, NextFile
    <3> QED
      BY <3>1 DEF Present, Reading, Position
  <2>2. CASE Open
    <3>1. UNCHANGED <<offsets, anew, source, start>> /\ pc = "open" /\ pc' = "read"
      BY <2>2 DEF Open
    <3>2. start = Begins /\ 0 \div 2 = 0
      BY <3>1 DEF OrderInv, OpenInv
    <3> QED
      BY <3>1, <3>2 DEF Present, Reading, Position, Begins
  <2>3. CASE Fill
    <3>1. UNCHANGED <<offsets, anew, source, start, pc>>
      BY <2>3 DEF Fill
    <3> QED
      BY <3>1 DEF Present, Reading, Position
  <2>4. CASE ReadLine
    <3>1. UNCHANGED <<source, start, pc>> /\ pc = "read" /\ RecordOffset
      BY <2>4 DEF ReadLine
    <3>2. i # source => offsets'[i] = offsets[i] /\ anew'[i] = anew[i]
      BY <3>1 DEF RecordOffset, TypeInv, StateTypes
    <3> QED
      BY <3>1, <3>2 DEF Present, Reading, Position
  <2> QED
    BY <2>1, <2>2, <2>3, <2>4
<1>4. Pos' = Pos
  BY <1>1, <1>3, SamePos
<1> QED
  BY <1>2, <1>4, ReaderStutters

\* The container that a crawl sends, and the position it leaves.
LEMMA SendRefines ==
    ASSUME Orderly, TypeInv, OrderInv, EndOfFile \/ ReadFails \/ BreakLastLine
    PROVE  Abstract!ReaderNext
<1>1. PICK i \in Inode : i = source
  BY Ends, Breaks, ReadFacts
<1> DEFINE c == Content(i)
<1>2. /\ pc = "read" /\ pc' = "next" /\ UNCHANGED <<before, size>>
      /\ \A j \in Inode : j # i => offsets'[j] = offsets[j] /\ anew'[j] = anew[j]
  BY <1>1, Ends, Breaks DEF Send, NextFile, fileVars, RecordOffset, TypeInv, StateTypes
<1>3. InChannel = <<>> /\ Written' = Written
  BY <1>2, SameWritten DEF InChannel, OrderInv
<1>4. /\ start \in Nat /\ consumed \in Nat /\ size[i] \in Nat /\ start <= consumed
      /\ consumed <= size[i] /\ Even(start) /\ Even(consumed)
      /\ ~Even(size[i]) => ~anew[i] /\ offsets[i] = start
  BY <1>1, <1>2, ReadFacts
<1>5. c \in Sources /\ Content(i)' = c /\ Written[c] = size[i] \div 2
  BY <1>2, ContentIs DEF Content, Written, OfContent
<1>6. Pos[c] = start \div 2 /\ Pos' = [Pos EXCEPT ![c] = Position(i)']
  <2>1. Present(i) = start \div 2 /\ Present(i)' = Position(i)'
    BY <1>1, <1>2 DEF Present, Reading
  <2>2. \A j \in Inode : j # i => Present(j)' = Present(j)
    BY <1>1, <1>2 DEF Present, Reading, Position
  <2> QED
    BY <1>2, <2>1, <2>2, FurtherPos
<1>7. ASSUME NEW m \in InMemory, Send(m)
      PROVE  InChannel' = <<[src |-> c, offset |-> m.offset \div 2, events |-> LinesOf(c, m.lines)]>>
  <2>1. enrichIn' = <<[src |-> i, offset |-> m.offset, lines |-> m.lines]>>
    BY <1>1, <1>7 DEF Send
  <2>2. /\ enrichIn' # <<>> /\ enrichIn'[1].src = i
        /\ enrichIn'[1].offset = m.offset /\ enrichIn'[1].lines = m.lines
    BY <2>1
  <2>3. Content(enrichIn[1].src)' = c
    BY <1>5, <2>2 DEF Content
  <2> QED
    BY <2>2, <2>3 DEF InChannel
<1> HIDE DEF c
<1>8. Pos = [s \in Sources |-> Pos[s]]
  BY DEF Pos
<1>9. CASE EndOfFile \/ ReadFails
  <2> DEFINE p == start \div 2  q == consumed \div 2  n == size[i] \div 2
  <2>1. /\ p \in Nat /\ q \in Nat /\ n \in Nat /\ start = 2 * p /\ consumed = 2 * q
        /\ size[i] <= 2 * n + 1
    <3>1. size[i] = 2 * n + (size[i] % 2) /\ size[i] % 2 \in {0, 1} /\ n \in Nat
      BY <1>4, Halves
    <3> QED
      BY <1>4, <3>1, Halves, Parity
  <2>2. Position(i)' = q
    BY <1>1, <1>9, Ends DEF Position, RecordOffset, TypeInv, StateTypes
  <2>3. InChannel' = <<[src |-> c, offset |-> q, events |-> LinesOf(c, (p + 1) .. q)]>>
    <3>1. fdPos \in 0 .. MaxSize
      BY DEF TypeInv, CrawlTypes
    <3>2. With(fdPos) \in InMemory /\ Send(With(fdPos))
      BY <1>9, <3>1, Ends, WithTypes
    <3>3. With(fdPos).offset = consumed /\ With(fdPos).lines = (p + 1) .. q
      BY <1>2, <1>9, Ends DEF OrderInv, ReadInv
    <3> QED
      BY <1>7, <3>2, <3>3
  <2> HIDE DEF p, q, n
  <2>4. p <= q /\ q <= n
    BY <1>4, <2>1
  <2>5. Pos[c] = p /\ Written[c] = n /\ Pos' = [Pos EXCEPT ![c] = q]
    BY <1>5, <1>6, <2>2 DEF p, n
  <2>6. CASE p < q
    BY <1>3, <1>5, <2>1, <2>3, <2>4, <2>5, <2>6, ReaderCrawls
  <2>7. CASE ~ (p < q)
    <3>1. p = q /\ (p + 1) .. q = {}
      BY <2>1, <2>4, <2>7
    <3>2. LinesOf(c, (p + 1) .. q) = {}
      BY <3>1 DEF LinesOf
    <3>3. Pos' = Pos
      BY <1>8, <2>5, <3>1
    <3> QED
      BY <1>3, <1>5, <2>3, <2>5, <3>1, <3>2, <3>3, ReaderCrawlsNothing
  <2> QED
    BY <2>6, <2>7
<1>10. CASE BreakLastLine
  <2>1. /\ ~Even(size[i]) /\ UNCHANGED <<offsets, anew>> /\ Send(container)
        /\ container.offset = 0 /\ container.lines = {} /\ container \in InMemory
    BY <1>1, <1>10, Breaks DEF TypeInv, CrawlTypes
  <2>2. Position(i)' = start \div 2
    BY <1>4, <2>1 DEF Position
  <2>3. Pos' = Pos
    BY <1>6, <1>8, <2>2
  <2>4. LinesOf(c, {}) = {} /\ 0 \div 2 = 0
    BY DEF LinesOf
  <2>5. InChannel' = <<[src |-> c, offset |-> 0, events |-> {}]>>
    BY <1>7, <2>1, <2>4
  <2> QED
    BY <1>3, <1>5, <2>3, <2>5, ReaderCrawlsNothing
<1> QED
  BY <1>9, <1>10

\* The crawler with its half lines, its buffer and its rotated files implements
\* the abstract reader: it sends each line of each content once, in order, with
\* the position behind it, and starts over where it stopped
\* (crawler_files.go:52-213), if the file system is orderly.
THEOREM LogReaderImplemented == ASSUME Orderly PROVE Spec => ImplementsLogReader
<1>1. TypeInv /\ OrderInv /\ [Next]_vars =>
          [Abstract!ReaderNext \/ Abstract!TakeContainer]_(Abstract!vars)
  <2> SUFFICES ASSUME TypeInv, OrderInv, [Next]_vars
               PROVE  [Abstract!ReaderNext \/ Abstract!TakeContainer]_(Abstract!vars)
    OBVIOUS
  <2>1. CASE UNCHANGED vars
    BY <2>1 DEF vars, fileVars, crawlVars, Abstract!vars, OfContent, Position, Content
  <2>2. CASE CrawlerNext
    BY <2>2, CrawlStutters, SendRefines DEF CrawlerNext
  <2>3. CASE TakeContainer
    <3>1. enrichIn # <<>> /\ enrichIn' = <<>> /\ UNCHANGED <<fileVars, crawlVars>>
      BY <2>3 DEF TakeContainer
    <3>2. InChannel # <<>> /\ InChannel' = <<>>
      BY <3>1 DEF InChannel
    <3>3. Written' = Written
      BY <3>1, SameWritten DEF fileVars
    <3>4. Pos' = Pos
      BY <3>1, SamePos DEF fileVars, crawlVars, Present, Reading, Position
    <3> QED
      BY <3>2, <3>3, <3>4, ReaderTakes
  <2> QED
    BY <2>1, <2>2, <2>3, FilesRefine DEF Next
<1> QED
  BY <1>1, ReaderInit, TypeInit, TypeStep, OrderInit, OrderStep, PTL
     DEF Spec, ImplementsLogReader, Abstract!Spec
=============================================================================
