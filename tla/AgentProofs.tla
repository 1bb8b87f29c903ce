---------------------------- MODULE AgentProofs -----------------------------
(***************************************************************************)
(* Proofs about the composition, for every number of sources, lines and    *)
(* restarts: its type correctness, that a restart never skips a line, that *)
(* nothing is settled twice without one, that durable offsets fall back    *)
(* only when they could not be read, and that the whole is what Delivery   *)
(* promises.                                                               *)
(***************************************************************************)
EXTENDS Agent, SequenceTheorems, WellFoundedInduction, TLAPS

-----------------------------------------------------------------------------
(* Lemmas on what travels through the pipeline.                            *)

LEMMA NoLines == ASSUME NEW s PROVE LinesUpTo(s, 0) = {}
BY DEF LinesUpTo

LEMMA LinesAreEvents ==
    ASSUME NEW s \in Source, NEW n \in Nat PROVE LinesUpTo(s, n) \subseteq Event
BY DEF LinesUpTo, Event

LEMMA ChannelValue ==
    ASSUME NEW Value, NEW ch, Channel(ch, Value), ch # <<>>
    PROVE  ch[1] \in Value /\ ch = <<ch[1]>>
<1>0. ch \in Seq(Value) /\ Len(ch) <= 1
  BY DEF Channel
<1>1. Len(ch) = 1
  <2>1. Len(ch) \in Nat \ {0}
    BY <1>0, EmptySeq
  <2> QED
    BY <1>0, <2>1
<1>2. ch \in [1 .. 1 -> Value]
  BY <1>0, <1>1
<1>3. ch[1] \in Value
  BY <1>2
<1>4. <<ch[1]>> \in [1 .. 1 -> Value] /\ \A i \in 1 .. 1 : <<ch[1]>>[i] = ch[i]
  BY <1>3
<1> QED
  BY <1>2, <1>3, <1>4

LEMMA ChannelOf ==
    ASSUME NEW Value
    PROVE  Channel(<<>>, Value) /\ \A v \in Value : Channel(<<v>>, Value)
<1>1. Channel(<<>>, Value)
  BY DEF Channel
<1>2. ASSUME NEW v \in Value PROVE Channel(<<v>>, Value)
  BY DEF Channel
<1> QED
  BY <1>1, <1>2

LEMMA NoEvents == EventsOf(<<>>) = {}
BY DEF EventsOf

LEMMA EventsOfOne == ASSUME NEW c \in Container PROVE EventsOf(<<c>>) = c.events
BY DEF EventsOf

LEMMA EventsOfAppend ==
    ASSUME NEW b \in Batch, NEW c \in Container
    PROVE  EventsOf(Append(b, c)) = EventsOf(b) \cup c.events
<1>1. /\ Len(Append(b, c)) = Len(b) + 1
      /\ Len(b) \in Nat
      /\ Append(b, c)[Len(b) + 1] = c
      /\ \A i \in 1 .. Len(b) : Append(b, c)[i] = b[i]
  BY DEF Batch
<1>2. \A i : i \in 1 .. (Len(b) + 1) <=> i \in 1 .. Len(b) \/ i = Len(b) + 1
  BY <1>1
<1>3. ASSUME NEW e PROVE e \in EventsOf(Append(b, c)) <=> e \in EventsOf(b) \/ e \in c.events
  BY <1>1, <1>2 DEF EventsOf
<1> QED
  BY <1>3

LEMMA BatchEvents == ASSUME NEW b \in Batch PROVE EventsOf(b) \subseteq Event
<1>1. ASSUME NEW i \in 1 .. Len(b) PROVE b[i].events \subseteq Event
  <2>1. b[i] \in Container
    BY DEF Batch
  <2> QED
    BY <2>1 DEF Container
<1> QED
  BY <1>1 DEF EventsOf

\* A source that a batch mentions has a last container in it.
LEMMA LastMention ==
    ASSUME NEW b \in Batch, NEW s, State!Mentions(b, s)
    PROVE  \E i \in 1 .. Len(b) : /\ b[i].src = s
                                 /\ State!LastOffset(b, s) = b[i].offset
<1> DEFINE At(i) == i \in 1 .. Len(b) /\ b[i].src = s
           FromEnd == {n \in Nat : At(Len(b) - n)}
<1>1. Len(b) \in Nat
  BY DEF Batch
<1>2. FromEnd # {}
  <2>1. PICK i \in 1 .. Len(b) : b[i].src = s
    BY DEF State!Mentions
  <2>2. Len(b) - i \in Nat /\ Len(b) - (Len(b) - i) = i
    BY <1>1
  <2> QED
    BY <2>1, <2>2
<1>3. PICK n \in FromEnd : \A m \in FromEnd : <<m, n>> \notin OpToRel(<, Nat)
  BY <1>2, WFMin, NatLessThanWellFounded, Zenon
<1>4. \A m \in FromEnd : ~ (m < n)
  BY <1>3, Zenon DEF OpToRel
<1>5. At(Len(b) - n)
  BY <1>3
<1>6. ASSUME NEW j \in 1 .. Len(b), b[j].src = s PROVE j <= Len(b) - n
  <2>1. Len(b) - j \in Nat /\ Len(b) - (Len(b) - j) = j
    BY <1>1
  <2>2. Len(b) - j \in FromEnd
    BY <1>6, <2>1
  <2>3. ~ (Len(b) - j < n)
    BY <1>4, <2>2
  <2> QED
    BY <1>1, <2>1, <2>3
<1> HIDE DEF FromEnd
<1>7. \E i \in 1 .. Len(b) : /\ b[i].src = s
                            /\ \A j \in 1 .. Len(b) : b[j].src = s => j <= i
  BY <1>5, <1>6
<1> QED
  BY <1>7 DEF State!LastOffset

-----------------------------------------------------------------------------
(* Type correctness.                                                       *)

\* The types of the components, over the sets of this module.
AgentTypes == /\ written \in [Source -> 0 .. MaxLines]
              /\ pos \in [Source -> Nat]
              /\ Channel(enrichIn, Container)
              /\ Channel(queueIn, Container)
              /\ items \in Batch
              /\ flushing \in BOOLEAN
              /\ Channel(gateIn, Batch)
              /\ Channel(stateIn, Batch)
              /\ busy \in BOOLEAN
              /\ batch \in Batch
              /\ settled \in SUBSET Event
              /\ spc \in {"receive", "read", "open", "write"}
              /\ sbatch \in Batch
              /\ staged \in [Source -> State!Entry]
              /\ disk \in [Source -> State!Entry]
              /\ intact \in BOOLEAN
              /\ clock \in Nat
              /\ unread \in SUBSET Source
              /\ blanks \in Nat
              /\ crashes \in Nat

LEMMA TypesFlat == TypeOK <=> AgentTypes
<1>1. Reader!Container = Container /\ Gate!Batch = Batch /\ State!Batch = Batch
  BY DEF Reader!Container, Gate!Batch, State!Batch, Batch, Container, Event,
         Gate!Container, State!Container, Reader!Event, Gate!Event, State!Event
<1>2. Gate!Event = Event
  BY DEF Gate!Event, Event
<1>3. ASSUME NEW ch, NEW V
      PROVE  /\ Reader!Channel(ch, V) <=> Channel(ch, V)
             /\ Batches!Channel(ch, V) <=> Channel(ch, V)
             /\ Gate!Channel(ch, V) <=> Channel(ch, V)
             /\ State!Channel(ch, V) <=> Channel(ch, V)
  BY DEF Channel, Reader!Channel, Batches!Channel, Gate!Channel, State!Channel
<1>4. Seq(Container) = Batch
  BY DEF Batch
<1> QED
  BY <1>1, <1>2, <1>3, <1>4
     DEF AgentTypes, TypeOK, Reader!TypeOK, Batches!TypeOK, Gate!TypeOK, State!TypeOK

\* The instances have their own names for the same lines and events.
LEMMA SameLines == ASSUME NEW s, NEW n
                   PROVE  /\ Reader!LinesUpTo(s, n) = LinesUpTo(s, n)
                          /\ Contract!LinesUpTo(s, n) = LinesUpTo(s, n)
                          /\ Gate!EventsOf(s) = EventsOf(s)
BY DEF Reader!LinesUpTo, Contract!LinesUpTo, LinesUpTo, Gate!EventsOf, EventsOf

\* What a crawl sends, with lines or without.
LEMMA SentContainer ==
    ASSUME AgentTypes, NEW s \in Source, Crawl(s)
    PROVE  \E n \in Nat, c \in Container :
             /\ c.src = s /\ c.offset = n
             /\ enrichIn = <<>> /\ enrichIn' = <<c>>
             /\ \/ /\ pos[s] < n /\ n <= written[s]
                   /\ c.events = LinesUpTo(s, n) \ LinesUpTo(s, pos[s])
                   /\ pos' = [pos EXCEPT ![s] = n]
                \/ /\ c.events = {}
                   /\ n \in {0, pos[s]}
                   /\ pos' = pos
             /\ written' = written
<1>1. pos[s] \in Nat /\ written[s] \in Nat
  BY DEF AgentTypes
<1>2. CASE Reader!Crawl(s)
  <2>1. PICK n \in (pos[s] + 1) .. written[s] : Reader!CrawlTo(s, n)
    BY <1>2 DEF Reader!Crawl
  <2> DEFINE c == [src |-> s, offset |-> n, events |-> LinesUpTo(s, n) \ LinesUpTo(s, pos[s])]
  <2>2. n \in Nat /\ pos[s] < n /\ n <= written[s]
    BY <1>1
  <2>3. c \in Container
    BY <2>2, LinesAreEvents DEF Container
  <2>4. enrichIn = <<>> /\ enrichIn' = <<c>> /\ written' = written
        /\ pos' = [pos EXCEPT ![s] = n]
    BY <2>1, SameLines DEF Reader!CrawlTo, Reader!SendContainer
  <2>5. c.src = s /\ c.offset = n /\ c.events = LinesUpTo(s, n) \ LinesUpTo(s, pos[s])
    OBVIOUS
  <2> HIDE DEF c
  <2> QED
    BY <2>2, <2>3, <2>4, <2>5
<1>3. CASE Reader!CrawlNothing(s)
  <2>1. PICK n \in {0, pos[s]} : Reader!SendContainer(s, n, {})
    BY <1>3 DEF Reader!CrawlNothing
  <2> DEFINE c == [src |-> s, offset |-> n, events |-> {}]
  <2>2. n \in Nat
    BY <1>1
  <2>3. c \in Container
    BY <2>2 DEF Container
  <2>4. enrichIn = <<>> /\ enrichIn' = <<c>> /\ UNCHANGED <<written, pos>>
    BY <1>3, <2>1 DEF Reader!CrawlNothing, Reader!SendContainer
  <2>5. c.src = s /\ c.offset = n /\ c.events = {}
    OBVIOUS
  <2> HIDE DEF c
  <2> QED
    BY <2>1, <2>2, <2>3, <2>4, <2>5
<1> QED
  BY <1>2, <1>3 DEF Crawl

\* What the state goroutine is about to write, source by source: the offset
\* of one of the batch's containers, the one on the disk, or 0.
LEMMA StagedEntry ==
    ASSUME AgentTypes, NEW s \in Source,
           NEW entries \in {State!Restored, State!NoEntries}
    PROVE  LET entry == State!Apply(sbatch, entries)[s]
           IN  /\ entry \in State!Entry
               /\ \/ \E i \in 1 .. Len(sbatch) : /\ sbatch[i].src = s
                                                /\ entry.offset = sbatch[i].offset
                  \/ entry.offset \in {0, disk[s].offset}
<1> DEFINE entry == State!Apply(sbatch, entries)[s]
<1>1. entry = IF State!Mentions(sbatch, s)
              THEN [offset |-> State!LastOffset(sbatch, s), t |-> clock]
              ELSE entries[s]
  BY DEF State!Apply
<1>2. CASE State!Mentions(sbatch, s)
  <2>1. PICK i \in 1 .. Len(sbatch) : /\ sbatch[i].src = s
                                      /\ State!LastOffset(sbatch, s) = sbatch[i].offset
    BY <1>2, LastMention DEF AgentTypes
  <2>2. sbatch[i] \in Container
    BY DEF AgentTypes, Batch
  <2>3. sbatch[i].offset \in Nat
    BY <2>2 DEF Container
  <2>4. entry = [offset |-> sbatch[i].offset, t |-> clock]
    BY <1>1, <1>2, <2>1
  <2>5. entry \in State!Entry /\ entry.offset = sbatch[i].offset
    BY <2>3, <2>4 DEF State!Entry, AgentTypes
  <2> QED
    BY <2>1, <2>5
<1>3. CASE ~State!Mentions(sbatch, s)
  <2>1. State!NoEntries[s] = [offset |-> 0, t |-> 0]
    BY DEF State!NoEntries
  <2>2. State!Restored[s] \in {disk[s], State!NoEntries[s]}
    BY DEF State!Restored
  <2>3. entry \in {disk[s], State!NoEntries[s]}
    BY <1>1, <1>3, <2>2
  <2>4. disk[s] \in State!Entry /\ State!NoEntries[s] \in State!Entry
    BY <2>1 DEF AgentTypes, State!Entry
  <2>5. State!NoEntries[s].offset = 0
    BY <2>1
  <2> QED
    BY <2>3, <2>4, <2>5
<1> QED
  BY <1>2, <1>3

LEMMA StagedType ==
    ASSUME AgentTypes, NEW entries \in {State!Restored, State!NoEntries}
    PROVE  State!Apply(sbatch, entries) \in [Source -> State!Entry]
<1>1. \A s \in Source : State!Apply(sbatch, entries)[s] \in State!Entry
  BY StagedEntry
<1> QED
  BY <1>1 DEF State!Apply

LEMMA StateTypes == AgentTypes /\ StateStep => AgentTypes'
<1> SUFFICES ASSUME AgentTypes, StateStep PROVE AgentTypes'
  OBVIOUS
<1> USE DEF AgentTypes, State!stateVars, readerVars, queueVars, gateVars
<1>1. Channel(<<>>, Batch)
  BY ChannelOf
<1>2. CASE State!ReceiveEmpty
  BY <1>1, <1>2 DEF StateStep, State!ReceiveEmpty
<1>3. CASE State!Receive
  <2>1. sbatch' \in Batch
    BY <1>3, ChannelValue DEF State!Receive
  <2> QED
    BY <1>1, <1>3, <2>1 DEF StateStep, State!Receive
<1>4. CASE State!ReadAndApply
  <2>1. staged' \in [Source -> State!Entry]
    BY <1>4, StagedType DEF State!ReadAndApply
  <2> QED
    BY <1>4, <2>1 DEF StateStep, State!ReadAndApply
<1>5. CASE State!Truncate
  BY <1>5 DEF StateStep, State!Truncate
<1>6. CASE State!WriteState
  <2>1. sbatch' \in Batch
    BY <1>6 DEF State!WriteState, Batch
  <2> QED
    BY <1>6, <2>1 DEF StateStep, State!WriteState
<1>7. CASE State!SaveFails
  <2>1. sbatch' \in Batch
    BY <1>7 DEF State!SaveFails, Batch
  <2> QED
    BY <1>7, <2>1 DEF StateStep, State!SaveFails
<1> QED
  BY <1>2, <1>3, <1>4, <1>5, <1>6, <1>7 DEF StateStep, State!StateNext

LEMMA CrashTypes == AgentTypes /\ Crash => AgentTypes'
<1> SUFFICES ASSUME AgentTypes, Crash PROVE AgentTypes'
  OBVIOUS
<1> USE DEF AgentTypes
<1>1. Channel(<<>>, Container) /\ Channel(<<>>, Batch) /\ <<>> \in Batch
  BY ChannelOf DEF Batch
<1>2. State!NoEntries \in [Source -> State!Entry]
  BY DEF State!NoEntries, State!Entry
<1>3. pos' \in [Source -> Nat] /\ unread' \in SUBSET Source
  <2>1. State!Restored \in [Source -> State!Entry]
    BY <1>2 DEF State!Restored
  <2>2. \A s \in Source : State!Restored[s].offset \in Nat
    BY <2>1 DEF State!Entry
  <2>3. State!ResumeFrom \in [Source -> Nat]
    BY <2>2 DEF State!ResumeFrom
  <2> QED
    BY <2>3 DEF Crash, State!RestoreResults
<1>4. /\ Channel(enrichIn', Container) /\ Channel(queueIn', Container)
      /\ Channel(gateIn', Batch) /\ Channel(stateIn', Batch)
      /\ items' \in Batch /\ batch' \in Batch /\ sbatch' \in Batch
  BY <1>1 DEF Crash, Gate!Crash, State!StateCrash
<1>5. /\ staged' \in [Source -> State!Entry] /\ disk' \in [Source -> State!Entry]
      /\ intact' \in BOOLEAN
  BY <1>2 DEF Crash, State!StateCrash
<1>6. spc' \in {"receive", "read", "open", "write"}
  BY DEF Crash, State!StateCrash
<1>7. flushing' \in BOOLEAN /\ busy' \in BOOLEAN
  BY DEF Crash, Gate!Crash
<1>8. /\ written' \in [Source -> 0 .. MaxLines] /\ settled' \in SUBSET Event
      /\ clock' \in Nat /\ blanks' \in Nat /\ crashes' \in Nat
  BY DEF Crash, Gate!Crash
<1> QED
  BY <1>3, <1>4, <1>5, <1>6, <1>7, <1>8

LEMMA QueueTypes == AgentTypes /\ QueueStep => AgentTypes'
<1> SUFFICES ASSUME AgentTypes, QueueStep PROVE AgentTypes'
  OBVIOUS
<1> USE DEF AgentTypes, readerVars, queueVars, gateVars, stateVars
<1>0. <<>> \in Batch
  BY DEF Batch
<1>1. Channel(<<>>, Container) /\ Channel(<<items>>, Batch)
  BY ChannelOf
<1>2. CASE Batches!Receive
  <2>1. queueIn[1] \in Container /\ queueIn' = <<>> /\ items' = Append(items, queueIn[1])
    BY <1>2, ChannelValue DEF Batches!Receive
  <2>2. items' \in Batch
    BY <2>1 DEF Batch
  <2>3. \/ gateIn' = <<items'>> /\ flushing' = TRUE
        \/ gateIn' = gateIn /\ flushing' = flushing
    BY <1>2 DEF Batches!Receive, Batches!StartFlush, Batches!KeepCollecting
  <2>4. Channel(gateIn', Batch) /\ flushing' \in BOOLEAN
    BY <2>2, <2>3, ChannelOf
  <2> QED
    BY <1>1, <2>1, <2>2, <2>4 DEF QueueStep
<1>3. CASE Batches!Poll
  BY <1>1, <1>3 DEF QueueStep, Batches!Poll, Batches!StartFlush
<1>4. CASE Batches!FinishFlush
  BY <1>0, <1>4 DEF QueueStep, Batches!FinishFlush
<1> QED
  BY <1>2, <1>3, <1>4 DEF QueueStep, Batches!Next

LEMMA GateTypes == AgentTypes /\ GateStep => AgentTypes'
<1> SUFFICES ASSUME AgentTypes, GateStep PROVE AgentTypes'
  OBVIOUS
<1> USE DEF AgentTypes, readerVars, queueVars, stateVars
<1>0. <<>> \in Batch
  BY DEF Batch
<1>1. Channel(<<>>, Batch) /\ Channel(<<batch>>, Batch)
  BY ChannelOf
<1>2. CASE Gate!TakeBatch
  <2>1. batch' \in Batch
    BY <1>2, ChannelValue DEF Gate!TakeBatch
  <2> QED
    BY <1>1, <1>2, <2>1 DEF GateStep, Gate!TakeBatch
<1>3. CASE Gate!Settle
  <2>1. settled' \in SUBSET Event
    BY <1>3, BatchEvents, SameLines DEF Gate!Settle
  <2> QED
    BY <1>0, <1>1, <1>3, <2>1 DEF GateStep, Gate!Settle
<1> QED
  BY <1>2, <1>3 DEF GateStep, Gate!GateNext

LEMMA ReaderTypes ==
    ASSUME AgentTypes, NEW s \in Source, WriteLine(s) \/ Crawl(s) PROVE AgentTypes'
<1> USE DEF AgentTypes, queueVars, gateVars, stateVars
<1>1. CASE WriteLine(s)
  <2>1. written' \in [Source -> 0 .. MaxLines]
    BY <1>1, AgentAssumption DEF WriteLine, Reader!WriteLine, AgentAssumption
  <2> QED
    BY <1>1, <2>1 DEF WriteLine, Reader!WriteLine
<1>2. CASE Crawl(s)
  <2>0. PICK n \in Nat, c \in Container :
             /\ enrichIn' = <<c>>
             /\ pos' = [pos EXCEPT ![s] = n] \/ pos' = pos
             /\ written' = written
    BY <1>2, SentContainer
  <2>1. /\ Channel(enrichIn', Container)
        /\ pos' \in [Source -> Nat]
        /\ written' = written
    BY <2>0, ChannelOf
  <2>2. blanks' \in Nat
    BY <1>2 DEF Crawl
  <2> QED
    BY <1>2, <2>1, <2>2 DEF Crawl
<1> QED
  BY <1>1, <1>2

LEMMA TypeStep == AgentTypes /\ [Next]_vars => AgentTypes'
<1> SUFFICES ASSUME AgentTypes, [Next]_vars PROVE AgentTypes'
  OBVIOUS
<1>1. CASE Enrich
  <2>1. Channel(<<>>, Container)
    BY ChannelOf
  <2> QED
    BY <1>1, <2>1 DEF Enrich, AgentTypes, readerVars, queueVars, gateVars, stateVars
<1>2. CASE NextSecond
  BY <1>2 DEF NextSecond, AgentTypes, readerVars, queueVars, gateVars, stateVars
<1>3. CASE UNCHANGED vars
  BY <1>3 DEF vars, AgentTypes, readerVars, queueVars, gateVars, stateVars
<1> QED
  BY <1>1, <1>2, <1>3, ReaderTypes, QueueTypes, GateTypes, StateTypes, CrashTypes DEF Next

LEMMA TypeInit == Init => AgentTypes
<1> SUFFICES ASSUME Init PROVE AgentTypes
  OBVIOUS
<1>1. Channel(<<>>, Container) /\ Channel(<<>>, Batch) /\ <<>> \in Batch
  BY ChannelOf DEF Batch
<1>2. State!NoEntries \in [Source -> State!Entry]
  BY DEF State!NoEntries, State!Entry
<1>3. written \in [Source -> 0 .. MaxLines] /\ pos \in [Source -> Nat]
  BY AgentAssumption DEF Init, Reader!Init, AgentAssumption
<1>4. /\ Channel(enrichIn, Container) /\ Channel(queueIn, Container)
      /\ Channel(gateIn, Batch) /\ Channel(stateIn, Batch)
      /\ items \in Batch /\ batch \in Batch /\ sbatch \in Batch
  BY <1>1 DEF Init, Reader!Init, Batches!Init, Gate!GateInit, State!StateInit
<1>5. /\ staged \in [Source -> State!Entry] /\ disk \in [Source -> State!Entry]
      /\ spc \in {"receive", "read", "open", "write"}
  BY <1>2 DEF Init, State!StateInit
<1>6. flushing \in BOOLEAN /\ busy \in BOOLEAN /\ intact \in BOOLEAN
  BY DEF Init, Batches!Init, Gate!GateInit, State!StateInit
<1>7. /\ settled \in SUBSET Event /\ unread \in SUBSET Source
      /\ clock \in Nat /\ blanks \in Nat /\ crashes \in Nat
  BY DEF Init, Gate!GateInit
<1> QED
  BY <1>3, <1>4, <1>5, <1>6, <1>7 DEF AgentTypes

\* Every variable of the composition always holds a value of its type.
THEOREM TypeCorrect == Spec => []TypeOK
BY TypeInit, TypeStep, TypesFlat, PTL DEF Spec

-----------------------------------------------------------------------------
(* No restart skips a line.  That the durable offsets are covered by what  *)
(* is settled does not follow from itself: an offset travels a long way    *)
(* before it becomes durable.  The invariant says of every stage that the  *)
(* lines up to the offsets there are settled or are at this stage or at a  *)
(* later one, and that a batch stays in the queue until the gateway has    *)
(* it.                                                                     *)

\* The events that are settled or at one of the stages, down from the gateway.
InGate == settled \cup EventsOf(batch)
InQueue == InGate \cup EventsOf(items)
InEnricher == InQueue \cup EventsOf(queueIn)
InCrawler == InEnricher \cup EventsOf(enrichIn)

\* The lines behind each container are settled, at a later stage, or with it.
Covered(its, S) ==
    \A i \in 1 .. Len(its) : LinesUpTo(its[i].src, its[i].offset) \subseteq S

EntriesCovered(entries) == \A s \in Source : LinesUpTo(s, entries[s].offset) \subseteq settled

AllWritten == UNION {LinesUpTo(s, written[s]) : s \in Source}

PipelineCovered == /\ InCrawler \subseteq AllWritten
                   /\ \A s \in Source : LinesUpTo(s, pos[s]) \subseteq InCrawler
                   /\ Covered(enrichIn, InCrawler)
                   /\ Covered(queueIn, InEnricher)
                   /\ Covered(items, InQueue)
                   /\ Covered(batch, InGate)

Handover == /\ gateIn # <<>> => flushing /\ gateIn = <<items>>
            /\ flushing /\ gateIn = <<>> => EventsOf(items) \subseteq InGate
            /\ ~busy => batch = <<>>

StateCovered == /\ stateIn # <<>> => Covered(stateIn[1], settled)
                /\ Covered(sbatch, settled)
                /\ EntriesCovered(staged)
                /\ EntriesCovered(disk)

CoverInv == PipelineCovered /\ Handover /\ StateCovered

LEMMA CoveredMono ==
    ASSUME NEW its, NEW S, NEW T, Covered(its, S), S \subseteq T PROVE Covered(its, T)
BY DEF Covered

LEMMA CoveredNone == ASSUME NEW S PROVE Covered(<<>>, S)
BY DEF Covered

LEMMA CoveredOne ==
    ASSUME NEW c \in Container, NEW S PROVE Covered(<<c>>, S) <=> LinesUpTo(c.src, c.offset) \subseteq S
BY DEF Covered

LEMMA CoveredAppend ==
    ASSUME NEW b \in Batch, NEW c \in Container, NEW S,
           Covered(b, S), LinesUpTo(c.src, c.offset) \subseteq S
    PROVE  Covered(Append(b, c), S)
<1>1. /\ Len(Append(b, c)) = Len(b) + 1
      /\ Len(b) \in Nat
      /\ Append(b, c)[Len(b) + 1] = c
      /\ \A i \in 1 .. Len(b) : Append(b, c)[i] = b[i]
  BY DEF Batch
<1>2. \A i : i \in 1 .. (Len(b) + 1) => i \in 1 .. Len(b) \/ i = Len(b) + 1
  BY <1>1
<1> QED
  BY <1>1, <1>2 DEF Covered

\* The crawler: what it has read is behind the offset, or in the container.
LEMMA CrawlCovers ==
    ASSUME AgentTypes, CoverInv, NEW s \in Source, Crawl(s) PROVE CoverInv'
<1>1. PICK n \in Nat, c \in Container :
             /\ c.src = s /\ c.offset = n
             /\ enrichIn = <<>> /\ enrichIn' = <<c>>
             /\ \/ /\ n <= written[s]
                   /\ c.events = LinesUpTo(s, n) \ LinesUpTo(s, pos[s])
                   /\ pos' = [pos EXCEPT ![s] = n]
                \/ /\ c.events = {}
                   /\ n \in {0, pos[s]}
                   /\ pos' = pos
             /\ written' = written
  BY SentContainer
<1>2. UNCHANGED <<queueIn, items, flushing, gateIn, busy, batch, settled,
                  stateIn, spc, sbatch, staged, disk>>
  BY DEF Crawl, queueVars, gateVars, stateVars
<1>3. /\ InGate' = InGate /\ InQueue' = InQueue /\ InEnricher' = InEnricher
      /\ InCrawler = InEnricher
      /\ InCrawler' = InEnricher \cup c.events
  BY <1>1, <1>2, NoEvents, EventsOfOne DEF InGate, InQueue, InEnricher, InCrawler
<1>4. \A r \in Source : LinesUpTo(r, pos[r]) \subseteq InEnricher
  BY <1>3 DEF CoverInv, PipelineCovered
<1>5. LinesUpTo(s, n) \subseteq InCrawler'
  BY <1>1, <1>3, <1>4, NoLines
<1>6. ASSUME NEW r \in Source PROVE LinesUpTo(r, pos'[r]) \subseteq InCrawler'
  <2>1. LinesUpTo(r, pos[r]) \subseteq InCrawler'
    BY <1>3, <1>4
  <2>2. pos'[r] = pos[r] \/ (r = s /\ pos'[r] = n)
    BY <1>1 DEF AgentTypes
  <2> QED
    BY <1>5, <2>1, <2>2
<1>7. Covered(enrichIn', InCrawler')
  BY <1>1, <1>5, CoveredOne
<1>8. InCrawler' \subseteq AllWritten'
  <2>1. c.events \subseteq LinesUpTo(s, written[s])
    BY <1>1 DEF LinesUpTo, AgentTypes
  <2>2. InEnricher \subseteq AllWritten
    BY <1>3 DEF CoverInv, PipelineCovered
  <2> QED
    BY <1>1, <1>3, <2>1, <2>2 DEF AllWritten
<1>9. PipelineCovered'
  BY <1>2, <1>3, <1>6, <1>7, <1>8 DEF CoverInv, PipelineCovered
<1> QED
  BY <1>2, <1>3, <1>9 DEF CoverInv, Handover, StateCovered, EntriesCovered

\* The enricher moves one container on.
LEMMA EnrichCovers == AgentTypes /\ CoverInv /\ Enrich => CoverInv'
<1> SUFFICES ASSUME AgentTypes, CoverInv, Enrich PROVE CoverInv'
  OBVIOUS
<1>1. /\ queueIn = <<>> /\ queueIn' = enrichIn /\ enrichIn' = <<>>
      /\ UNCHANGED <<written, pos, items, flushing, gateIn, busy, batch, settled,
                     stateIn, spc, sbatch, staged, disk>>
  BY DEF Enrich, readerVars, queueVars, gateVars, stateVars
<1>2. /\ InGate' = InGate /\ InQueue' = InQueue
      /\ InEnricher' = InCrawler /\ InCrawler' = InCrawler
  BY <1>1, NoEvents DEF InGate, InQueue, InEnricher, InCrawler
<1>3. PipelineCovered'
  BY <1>1, <1>2, CoveredNone DEF CoverInv, PipelineCovered, AllWritten
<1> QED
  BY <1>1, <1>2, <1>3 DEF CoverInv, Handover, StateCovered, EntriesCovered

\* The queue: a container joins the items, the items are offered, and they
\* are dropped when the gateway has them.
LEMMA QueueCovers == AgentTypes /\ CoverInv /\ QueueStep => CoverInv'
<1> SUFFICES ASSUME AgentTypes, CoverInv, QueueStep PROVE CoverInv'
  OBVIOUS
<1>1. UNCHANGED <<written, pos, enrichIn, busy, batch, settled, stateIn, spc, sbatch, staged, disk>>
  BY DEF QueueStep, readerVars, gateVars, stateVars
<1>2. InGate' = InGate
  BY <1>1 DEF InGate
<1>3. StateCovered'
  BY <1>1 DEF CoverInv, StateCovered, EntriesCovered
<1>4. CASE Batches!Receive
  <2> DEFINE c == queueIn[1]
  <2>1. c \in Container /\ queueIn = <<c>> /\ queueIn' = <<>> /\ items' = Append(items, c)
    BY <1>4, ChannelValue DEF Batches!Receive, AgentTypes
  <2>2. ~flushing /\ gateIn = <<>>
    BY <1>4 DEF Batches!Receive, CoverInv, Handover
  <2> HIDE DEF c
  <2>3. InQueue' = InEnricher /\ InEnricher' = InEnricher /\ InCrawler' = InCrawler
    BY <1>1, <1>2, <2>1, NoEvents, EventsOfOne, EventsOfAppend
       DEF InQueue, InEnricher, InCrawler, AgentTypes
  <2>4. Covered(items', InQueue')
    <3>1. Covered(items, InEnricher)
      BY CoveredMono DEF CoverInv, PipelineCovered, InEnricher
    <3>2. LinesUpTo(c.src, c.offset) \subseteq InEnricher
      BY <2>1, CoveredOne DEF CoverInv, PipelineCovered, AllWritten
    <3> QED
      BY <2>1, <2>3, <3>1, <3>2, CoveredAppend DEF AgentTypes
  <2>5. PipelineCovered'
    BY <1>1, <1>2, <2>1, <2>3, <2>4, CoveredNone DEF CoverInv, PipelineCovered, AllWritten
  <2>6. \/ gateIn' = <<items'>> /\ flushing' = TRUE
        \/ gateIn' = <<>> /\ flushing' = FALSE
    BY <1>4, <2>2 DEF Batches!Receive, Batches!StartFlush, Batches!KeepCollecting, AgentTypes
  <2>7. Handover'
    BY <1>1, <2>6 DEF CoverInv, Handover
  <2> QED
    BY <1>3, <2>5, <2>7 DEF CoverInv
<1>5. CASE Batches!Poll
  <2>1. gateIn' = <<items>> /\ flushing' /\ UNCHANGED <<queueIn, items>>
    BY <1>5 DEF Batches!Poll, Batches!StartFlush
  <2>2. PipelineCovered'
    BY <1>1, <1>2, <2>1 DEF CoverInv, PipelineCovered, AllWritten, InCrawler, InEnricher, InQueue
  <2>3. Handover'
    BY <1>1, <2>1 DEF CoverInv, Handover
  <2> QED
    BY <1>3, <2>2, <2>3 DEF CoverInv
<1>6. CASE Batches!FinishFlush
  <2>1. /\ flushing /\ gateIn = <<>> /\ gateIn' = <<>> /\ items' = <<>> /\ ~flushing'
        /\ queueIn' = queueIn
    BY <1>6 DEF Batches!FinishFlush
  <2>2. InQueue' = InQueue /\ InEnricher' = InEnricher /\ InCrawler' = InCrawler
    BY <1>1, <1>2, <2>1, NoEvents DEF CoverInv, Handover, InQueue, InEnricher, InCrawler
  <2>3. PipelineCovered'
    BY <1>1, <1>2, <2>1, <2>2, CoveredNone DEF CoverInv, PipelineCovered, AllWritten
  <2>4. Handover'
    BY <1>1, <2>1 DEF CoverInv, Handover
  <2> QED
    BY <1>3, <2>3, <2>4 DEF CoverInv
<1> QED
  BY <1>4, <1>5, <1>6 DEF QueueStep, Batches!Next

\* The gateway: the offered items become its batch, and the batch is settled
\* before it is passed on.
LEMMA GateCovers == AgentTypes /\ CoverInv /\ GateStep => CoverInv'
<1> SUFFICES ASSUME AgentTypes, CoverInv, GateStep PROVE CoverInv'
  OBVIOUS
<1>1. UNCHANGED <<written, pos, enrichIn, queueIn, items, flushing, spc, sbatch, staged, disk>>
  BY DEF GateStep, readerVars, queueVars, stateVars
<1>2. CASE Gate!TakeBatch
  <2>1. /\ ~busy /\ busy' /\ gateIn # <<>> /\ gateIn' = <<>> /\ batch' = gateIn[1]
        /\ UNCHANGED <<stateIn, settled>>
    BY <1>2 DEF Gate!TakeBatch
  <2>2. batch = <<>> /\ batch' = items
    BY <2>1 DEF CoverInv, Handover
  <2>3. InGate' = InQueue /\ InQueue' = InQueue
    BY <1>1, <2>1, <2>2, NoEvents DEF InGate, InQueue
  <2>4. InEnricher' = InEnricher /\ InCrawler' = InCrawler
    BY <1>1, <2>3 DEF InEnricher, InCrawler
  <2>5. PipelineCovered'
    BY <1>1, <2>2, <2>3, <2>4 DEF CoverInv, PipelineCovered, AllWritten
  <2>6. Handover'
    BY <1>1, <2>1, <2>3 DEF Handover, InQueue
  <2>7. StateCovered'
    BY <1>1, <2>1 DEF CoverInv, StateCovered, EntriesCovered
  <2> QED
    BY <2>5, <2>6, <2>7 DEF CoverInv
<1>3. CASE Gate!Settle
  <2>1. /\ settled' = InGate /\ stateIn' = <<batch>> /\ batch' = <<>>
        /\ UNCHANGED gateIn
    BY <1>3, SameLines DEF Gate!Settle, InGate
  <2>2. InGate' = InGate /\ InQueue' = InQueue
    BY <1>1, <2>1, NoEvents DEF InGate, InQueue
  <2>3. InEnricher' = InEnricher /\ InCrawler' = InCrawler
    BY <1>1, <2>2 DEF InEnricher, InCrawler
  <2>4. PipelineCovered'
    BY <1>1, <2>1, <2>2, <2>3, CoveredNone DEF CoverInv, PipelineCovered, AllWritten
  <2>5. Handover'
    BY <1>1, <2>1, <2>2 DEF CoverInv, Handover
  <2>6. settled \subseteq settled'
    BY <2>1 DEF InGate
  <2>7. Covered(sbatch, settled') /\ Covered(batch, settled')
    BY <2>1, <2>6, CoveredMono DEF CoverInv, PipelineCovered, StateCovered
  <2>8. StateCovered'
    BY <1>1, <2>1, <2>6, <2>7 DEF CoverInv, StateCovered, EntriesCovered
  <2> QED
    BY <2>4, <2>5, <2>8 DEF CoverInv
<1> QED
  BY <1>2, <1>3 DEF GateStep, Gate!GateNext

\* The system state: the offsets it stages are those of its batch, those on
\* the disk, or 0.
LEMMA StateCovers == AgentTypes /\ CoverInv /\ StateStep => CoverInv'
<1> SUFFICES ASSUME AgentTypes, CoverInv, StateStep PROVE CoverInv'
  OBVIOUS
<1>1. UNCHANGED <<written, pos, enrichIn, queueIn, items, flushing, gateIn, busy, batch, settled>>
  BY DEF StateStep, readerVars, queueVars, gateVars
<1>2. PipelineCovered' /\ Handover'
  BY <1>1 DEF CoverInv, PipelineCovered, Handover, AllWritten, InCrawler, InEnricher, InQueue,
              InGate
<1>3. CASE State!ReceiveEmpty
  BY <1>1, <1>2, <1>3 DEF State!ReceiveEmpty, State!stateVars, CoverInv, StateCovered, EntriesCovered
<1>4. CASE State!Receive
  BY <1>1, <1>2, <1>4 DEF State!Receive, CoverInv, StateCovered, EntriesCovered
<1>5. CASE State!ReadAndApply
  <2>1. PICK entries \in {State!Restored, State!NoEntries} :
            staged' = State!Apply(sbatch, entries)
    BY <1>5 DEF State!ReadAndApply
  <2>2. ASSUME NEW s \in Source PROVE LinesUpTo(s, staged'[s].offset) \subseteq settled
    <3>1. \/ \E i \in 1 .. Len(sbatch) : /\ sbatch[i].src = s
                                        /\ staged'[s].offset = sbatch[i].offset
          \/ staged'[s].offset \in {0, disk[s].offset}
      BY <2>1, StagedEntry
    <3>2. Covered(sbatch, settled) /\ EntriesCovered(disk)
      BY DEF CoverInv, StateCovered
    <3> QED
      BY <3>1, <3>2, NoLines DEF Covered, EntriesCovered
  <2>3. UNCHANGED <<stateIn, sbatch, disk>>
    BY <1>5 DEF State!ReadAndApply
  <2>4. StateCovered'
    BY <1>1, <2>2, <2>3 DEF CoverInv, StateCovered, EntriesCovered
  <2> QED
    BY <1>2, <2>4 DEF CoverInv
<1>6. CASE State!Truncate
  BY <1>1, <1>2, <1>6 DEF State!Truncate, CoverInv, StateCovered, EntriesCovered
<1>7. CASE State!WriteState
  BY <1>1, <1>2, <1>7, CoveredNone DEF State!WriteState, CoverInv, StateCovered, EntriesCovered
<1>8. CASE State!SaveFails
  BY <1>1, <1>2, <1>8, CoveredNone DEF State!SaveFails, CoverInv, StateCovered, EntriesCovered
<1> QED
  BY <1>3, <1>4, <1>5, <1>6, <1>7, <1>8 DEF StateStep, State!StateNext

\* What a restart resumes from is on the disk, or 0.
LEMMA ResumeCovered ==
    ASSUME AgentTypes, CoverInv, NEW s \in Source
    PROVE  LinesUpTo(s, State!ResumeFrom[s]) \subseteq settled
<1>1. State!NoEntries[s].offset = 0
  BY DEF State!NoEntries
<1>2. State!Restored[s] \in {disk[s], State!NoEntries[s]}
  BY DEF State!Restored
<1>3. State!ResumeFrom[s] \in {0, disk[s].offset}
  BY <1>1, <1>2 DEF State!ResumeFrom
<1> QED
  BY <1>3, NoLines DEF CoverInv, StateCovered, EntriesCovered

LEMMA CrashCovers == AgentTypes /\ CoverInv /\ Crash => CoverInv'
<1> SUFFICES ASSUME AgentTypes, CoverInv, Crash PROVE CoverInv'
  OBVIOUS
<1>1. /\ enrichIn' = <<>> /\ queueIn' = <<>> /\ items' = <<>> /\ ~flushing'
      /\ gateIn' = <<>> /\ stateIn' = <<>> /\ batch' = <<>> /\ sbatch' = <<>>
      /\ \A s \in Source : pos'[s] \in {State!ResumeFrom[s], 0}
      /\ staged' = State!NoEntries
      /\ UNCHANGED <<written, settled, disk>>
  BY DEF Crash, Gate!Crash, State!StateCrash, State!RestoreResults
<1>2. InGate' = settled /\ InCrawler' = settled
  BY <1>1, NoEvents DEF InGate, InQueue, InEnricher, InCrawler
<1>3. \A s \in Source : LinesUpTo(s, staged'[s].offset) \subseteq settled
  BY <1>1, NoLines DEF State!NoEntries
<1>4. PipelineCovered'
  BY <1>1, <1>2, ResumeCovered, NoLines, CoveredNone
     DEF CoverInv, PipelineCovered, AllWritten, InCrawler, InEnricher, InQueue, InGate
<1>5. Handover'
  BY <1>1 DEF Handover
<1>6. StateCovered'
  BY <1>1, <1>3, CoveredNone DEF CoverInv, StateCovered, EntriesCovered
<1> QED
  BY <1>4, <1>5, <1>6 DEF CoverInv

LEMMA CoverStep == AgentTypes /\ CoverInv /\ [Next]_vars => CoverInv'
<1> SUFFICES ASSUME AgentTypes, CoverInv, [Next]_vars PROVE CoverInv'
  OBVIOUS
<1>1. CASE UNCHANGED <<written, pos, enrichIn, queueIn, items, flushing, gateIn, busy, batch,
                       settled, stateIn, spc, sbatch, staged, disk>>
  BY <1>1 DEF CoverInv, PipelineCovered, Handover, StateCovered, EntriesCovered,
              AllWritten, InCrawler, InEnricher, InQueue, InGate
<1>2. ASSUME NEW s \in Source, WriteLine(s) PROVE CoverInv'
  <2>1. /\ written' = [written EXCEPT ![s] = @ + 1]
        /\ UNCHANGED <<pos, enrichIn, queueIn, items, flushing, gateIn, busy, batch,
                       settled, stateIn, spc, sbatch, staged, disk>>
    BY <1>2 DEF WriteLine, Reader!WriteLine, queueVars, gateVars, stateVars
  <2>2. \A r \in Source : LinesUpTo(r, written[r]) \subseteq LinesUpTo(r, written'[r])
    BY <2>1 DEF LinesUpTo, AgentTypes
  <2>3. AllWritten \subseteq AllWritten'
    BY <2>2 DEF AllWritten
  <2> QED
    BY <2>1, <2>3 DEF CoverInv, PipelineCovered, Handover, StateCovered, EntriesCovered,
                      InCrawler, InEnricher, InQueue, InGate
<1>3. CASE NextSecond \/ UNCHANGED vars
  BY <1>1, <1>3 DEF NextSecond, vars, readerVars, queueVars, gateVars, stateVars
<1> QED
  BY <1>2, <1>3, CrawlCovers, EnrichCovers, QueueCovers, GateCovers, StateCovers, CrashCovers
     DEF Next

LEMMA CoverInit == Init => CoverInv
<1> SUFFICES ASSUME Init PROVE CoverInv
  OBVIOUS
<1>1. /\ pos = [s \in Source |-> 0] /\ enrichIn = <<>> /\ queueIn = <<>> /\ items = <<>>
      /\ ~flushing /\ gateIn = <<>> /\ batch = <<>> /\ stateIn = <<>> /\ sbatch = <<>>
      /\ staged = State!NoEntries /\ disk = State!NoEntries /\ settled = {}
  BY DEF Init, Reader!Init, Batches!Init, Gate!GateInit, State!StateInit
<1>2. \A s \in Source : State!NoEntries[s].offset = 0
  BY DEF State!NoEntries
<1>3. PipelineCovered
  <2>1. InCrawler = {}
    BY <1>1, NoEvents DEF InGate, InQueue, InEnricher, InCrawler
  <2> QED
    BY <1>1, <2>1, NoLines, CoveredNone DEF PipelineCovered
<1>4. StateCovered
  BY <1>1, <1>2, NoLines, CoveredNone DEF StateCovered, EntriesCovered
<1> QED
  BY <1>1, <1>3, <1>4 DEF CoverInv, Handover

-----------------------------------------------------------------------------
(* The contract.  A step that settles a batch changes no durable offset, a *)
(* step that changes a durable offset settles nothing.                     *)

LEMMA ResumeType == AgentTypes => State!ResumeFrom \in [Source -> Nat]
<1> SUFFICES ASSUME AgentTypes PROVE State!ResumeFrom \in [Source -> Nat]
  OBVIOUS
<1>1. State!NoEntries \in [Source -> State!Entry]
  BY DEF State!NoEntries, State!Entry
<1>2. State!Restored \in [Source -> State!Entry]
  BY <1>1 DEF State!Restored, AgentTypes
<1>3. \A s \in Source : State!Restored[s].offset \in Nat
  BY <1>2 DEF State!Entry
<1> QED
  BY <1>3 DEF State!ResumeFrom

LEMMA ResumeUnchanged ==
    UNCHANGED <<spc, disk, intact, clock>> => UNCHANGED State!ResumeFrom
BY DEF State!ResumeFrom, State!Restored, State!Expired

LEMMA DurableCoverage == AgentTypes /\ CoverInv => DurableCovered
BY ResumeCovered DEF DurableCovered

ResumeTyped == State!ResumeFrom \in [Source -> Nat]

LEMMA ContractStep ==
    ASSUME AgentTypes, CoverInv, CoverInv', DurableCovered', ResumeTyped', [Next]_vars
    PROVE  [Contract!Next]_(Contract!vars)
<1> SUFFICES Contract!Next \/ UNCHANGED Contract!vars
  OBVIOUS
<1>1. CASE UNCHANGED <<written, settled>>
  \* Whatever such a step does, it commits to offsets that are covered.
  <2>1. State!ResumeFrom' \in [Source -> Nat]
    BY DEF ResumeTyped
  <2>2. \A s \in Source : LinesUpTo(s, State!ResumeFrom'[s]) \subseteq settled
    BY <1>1 DEF DurableCovered
  <2>3. Contract!Commit
    BY <1>1, <2>1, <2>2, SameLines DEF Contract!Commit
  <2> QED
    BY <2>3 DEF Contract!Next
<1>2. ASSUME NEW s \in Source, WriteLine(s) PROVE Contract!Next
  <2>1. UNCHANGED <<spc, disk, intact, clock>>
    BY <1>2 DEF WriteLine, stateVars
  <2>2. Contract!Write(s)
    BY <1>2, <2>1, ResumeUnchanged
       DEF WriteLine, Reader!WriteLine, gateVars, Contract!Write
  <2> QED
    BY <2>2 DEF Contract!Next
<1>3. CASE GateStep
  <2>1. UNCHANGED <<written, spc, disk, intact, clock>>
    BY <1>3 DEF GateStep, readerVars, stateVars
  <2>2. settled \subseteq settled'
    BY <1>3 DEF GateStep, Gate!GateNext, Gate!TakeBatch, Gate!Settle
  <2>3. settled' \subseteq AllWritten
    BY <2>1 DEF CoverInv, PipelineCovered, InCrawler, InEnricher, InQueue, InGate, AllWritten
  <2>4. Contract!Settle
    BY <2>1, <2>2, <2>3, ResumeUnchanged, SameLines DEF Contract!Settle, AllWritten
  <2> QED
    BY <2>4 DEF Contract!Next
<1>4. ASSUME NEW s \in Source, Crawl(s) PROVE UNCHANGED <<written, settled>>
  <2>1. written' = written
    BY <1>4, SentContainer
  <2> QED
    BY <1>4, <2>1 DEF Crawl, gateVars
<1>5. CASE Enrich \/ QueueStep \/ StateStep \/ NextSecond \/ Crash \/ UNCHANGED vars
  <2>1. UNCHANGED <<written, settled>>
    BY <1>5 DEF Enrich, QueueStep, StateStep, NextSecond, Crash, Gate!Crash, vars,
                readerVars, gateVars
  <2> QED
    BY <1>1, <2>1
<1> QED
  BY <1>1, <1>2, <1>3, <1>4, <1>5 DEF Next

LEMMA ContractInit == Init => Contract!Init
<1> SUFFICES ASSUME Init PROVE Contract!Init
  OBVIOUS
<1>1. disk = State!NoEntries /\ spc = "receive" /\ written = [s \in Source |-> 0] /\ settled = {}
  BY DEF Init, Reader!Init, Gate!GateInit, State!StateInit
<1>2. \A s \in Source : State!Restored[s].offset = 0
  BY <1>1 DEF State!Restored, State!NoEntries
<1>3. State!ResumeFrom = [s \in Source |-> 0]
  BY <1>2 DEF State!ResumeFrom
<1> QED
  BY <1>1, <1>3 DEF Contract!Init

-----------------------------------------------------------------------------

LEMMA Invariance == Spec => [](AgentTypes /\ CoverInv)
<1>1. Init => AgentTypes /\ CoverInv
  BY TypeInit, CoverInit
<1>2. AgentTypes /\ CoverInv /\ [Next]_vars => (AgentTypes /\ CoverInv)'
  BY TypeStep, CoverStep
<1> QED
  BY <1>1, <1>2, PTL DEF Spec

\* A restart at any moment, also between the truncation and the writing of
\* the state file, skips no line whose event has not been dealt with
\* (queue.go:31-39, http_gateway.go:112-118, system_state.go:17-52).
THEOREM DurableCoveredHolds == Spec => []DurableCovered
BY Invariance, DurableCoverage, PTL

\* The agent implements its contract of delivery: it settles only what has
\* been written, and commits only to what is settled or to the beginning.
THEOREM DeliveryHolds == Spec => ImplementsDelivery
<1>1. AgentTypes => ResumeTyped
  BY ResumeType DEF ResumeTyped
<1>2. /\ AgentTypes /\ CoverInv /\ DurableCovered /\ ResumeTyped
      /\ (AgentTypes /\ CoverInv /\ DurableCovered /\ ResumeTyped)'
      /\ [Next]_vars
      => [Contract!Next]_(Contract!vars)
  BY ContractStep
<1> QED
  BY <1>1, <1>2, Invariance, DurableCoverage, ContractInit, PTL
     DEF Spec, ImplementsDelivery, Contract!Spec

-----------------------------------------------------------------------------
(* No event goes through the gateway twice without a restart.  What is     *)
(* settled is disjoint from what comes after it only because every stage   *)
(* is disjoint from all that are further down, and because the crawler     *)
(* sends nothing from behind its position.                                 *)

\* What the gateway has not taken yet: the items stay in the queue until its
\* send has returned.
Queued == IF flushing /\ gateIn = <<>> THEN <<>> ELSE items

AllRead == UNION {LinesUpTo(s, pos[s]) : s \in Source}

Fresh == /\ settled \cap EventsOf(batch) = {}
         /\ InGate \cap EventsOf(Queued) = {}
         /\ InQueue \cap EventsOf(queueIn) = {}
         /\ InEnricher \cap EventsOf(enrichIn) = {}
         /\ InCrawler \subseteq AllRead

FreshInv == crashes = 0 => Fresh

LEMMA FreshInit == Init => FreshInv
<1> SUFFICES ASSUME Init PROVE Fresh
  BY DEF FreshInv
<1>1. /\ enrichIn = <<>> /\ queueIn = <<>> /\ items = <<>> /\ batch = <<>> /\ settled = {}
  BY DEF Init, Reader!Init, Batches!Init, Gate!GateInit
<1> QED
  BY <1>1, NoEvents DEF Fresh, Queued, InGate, InQueue, InEnricher, InCrawler

LEMMA CrawlFresh ==
    ASSUME AgentTypes, Fresh, NEW s \in Source, Crawl(s) PROVE Fresh'
<1>1. PICK n \in Nat, c \in Container :
             /\ c.src = s /\ c.offset = n
             /\ enrichIn = <<>> /\ enrichIn' = <<c>>
             /\ \/ /\ pos[s] < n /\ n <= written[s]
                   /\ c.events = LinesUpTo(s, n) \ LinesUpTo(s, pos[s])
                   /\ pos' = [pos EXCEPT ![s] = n]
                \/ /\ c.events = {}
                   /\ n \in {0, pos[s]}
                   /\ pos' = pos
             /\ written' = written
  BY SentContainer
<1>2. UNCHANGED <<queueIn, items, flushing, gateIn, batch, settled>>
  BY DEF Crawl, queueVars, gateVars
<1>3. /\ InGate' = InGate /\ InQueue' = InQueue /\ InEnricher' = InEnricher
      /\ InCrawler = InEnricher
      /\ InCrawler' = InEnricher \cup c.events
  BY <1>1, <1>2, NoEvents, EventsOfOne DEF InGate, InQueue, InEnricher, InCrawler
\* The lines of the container are behind the position up to which all was read.
<1>4. InEnricher \cap c.events = {}
  <2>1. InEnricher \subseteq AllRead
    BY <1>3 DEF Fresh
  <2>2. \A r \in Source : r # s => LinesUpTo(r, pos[r]) \cap LinesUpTo(s, n) = {}
    BY DEF LinesUpTo
  <2>3. AllRead \cap c.events = {}
    BY <1>1, <2>2 DEF AllRead
  <2> QED
    BY <2>1, <2>3
\* A crawl that sends lines moves its position forward.
<1>5. AllRead \subseteq AllRead' /\ c.events \subseteq AllRead'
  <2>1. CASE pos' = pos /\ c.events = {}
    BY <2>1 DEF AllRead
  <2>2. CASE pos' = [pos EXCEPT ![s] = n] /\ pos[s] < n
             /\ c.events = LinesUpTo(s, n) \ LinesUpTo(s, pos[s])
    <3>1. pos'[s] = n /\ \A r \in Source : r # s => pos'[r] = pos[r]
      BY <2>2 DEF AgentTypes
    <3>2. LinesUpTo(s, pos[s]) \subseteq LinesUpTo(s, n)
      BY <2>2 DEF LinesUpTo, AgentTypes
    <3>3. \A r \in Source : LinesUpTo(r, pos[r]) \subseteq LinesUpTo(r, pos'[r])
      BY <3>1, <3>2
    <3>4. LinesUpTo(s, n) \subseteq AllRead'
      BY <3>1 DEF AllRead
    <3> QED
      BY <2>2, <3>3, <3>4 DEF AllRead
  <2> QED
    BY <1>1, <2>1, <2>2
<1>6. EventsOf(enrichIn') = c.events /\ Queued' = Queued
  BY <1>1, <1>2, EventsOfOne DEF Queued
<1> QED
  BY <1>2, <1>3, <1>4, <1>5, <1>6 DEF Fresh

LEMMA QueueFresh ==
    ASSUME AgentTypes, CoverInv, Fresh, QueueStep PROVE Fresh'
<1>1. UNCHANGED <<pos, enrichIn, batch, settled>>
  BY DEF QueueStep, readerVars, gateVars
<1>2. InGate' = InGate /\ AllRead' = AllRead
  BY <1>1 DEF InGate, AllRead
<1>3. CASE Batches!Receive
  <2> DEFINE c == queueIn[1]
  <2>1. c \in Container /\ queueIn = <<c>> /\ queueIn' = <<>> /\ items' = Append(items, c)
    BY <1>3, ChannelValue DEF Batches!Receive, AgentTypes
  <2>2. ~flushing /\ gateIn = <<>>
    BY <1>3 DEF Batches!Receive, CoverInv, Handover
  <2> HIDE DEF c
  <2>3. \/ gateIn' = <<items'>> /\ flushing' = TRUE
        \/ gateIn' = <<>> /\ flushing' = FALSE
    BY <1>3, <2>2 DEF Batches!Receive, Batches!StartFlush, Batches!KeepCollecting, AgentTypes
  <2>4. Queued = items /\ Queued' = items'
    BY <2>2, <2>3 DEF Queued
  <2>5. EventsOf(items') = EventsOf(items) \cup EventsOf(queueIn) /\ EventsOf(queueIn') = {}
    BY <2>1, NoEvents, EventsOfOne, EventsOfAppend DEF AgentTypes
  <2>6. InQueue' = InEnricher /\ InEnricher' = InEnricher /\ InCrawler' = InCrawler
    BY <1>1, <1>2, <2>5 DEF InQueue, InEnricher, InCrawler
  <2>7. InGate \cap EventsOf(queueIn) = {}
    BY DEF Fresh, InQueue
  <2> QED
    BY <1>1, <1>2, <2>4, <2>5, <2>6, <2>7 DEF Fresh
<1>4. CASE Batches!Poll
  <2>1. gateIn' = <<items>> /\ UNCHANGED <<queueIn, items>> /\ ~flushing
    BY <1>4 DEF Batches!Poll, Batches!StartFlush
  <2>2. Queued = items /\ Queued' = items
    BY <2>1 DEF Queued
  <2> QED
    BY <1>1, <1>2, <2>1, <2>2 DEF Fresh, InQueue, InEnricher, InCrawler
<1>5. CASE Batches!FinishFlush
  <2>1. /\ flushing /\ gateIn = <<>> /\ gateIn' = <<>> /\ items' = <<>> /\ queueIn' = queueIn
    BY <1>5 DEF Batches!FinishFlush
  <2>2. InQueue' = InQueue /\ InEnricher' = InEnricher /\ InCrawler' = InCrawler
    BY <1>1, <1>2, <2>1, NoEvents DEF CoverInv, Handover, InQueue, InEnricher, InCrawler
  <2>3. EventsOf(Queued') = {}
    BY <2>1, NoEvents DEF Queued
  <2> QED
    BY <1>1, <1>2, <2>1, <2>2, <2>3 DEF Fresh
<1> QED
  BY <1>3, <1>4, <1>5 DEF QueueStep, Batches!Next

LEMMA GateFresh ==
    ASSUME AgentTypes, CoverInv, Fresh, GateStep PROVE Fresh'
<1>1. UNCHANGED <<pos, enrichIn, queueIn, items, flushing>>
  BY DEF GateStep, readerVars, queueVars
<1>2. AllRead' = AllRead
  BY <1>1 DEF AllRead
<1>3. CASE Gate!TakeBatch
  <2>1. /\ ~busy /\ gateIn # <<>> /\ gateIn' = <<>> /\ batch' = gateIn[1] /\ settled' = settled
    BY <1>3 DEF Gate!TakeBatch
  <2>2. batch = <<>> /\ batch' = items /\ flushing
    BY <2>1 DEF CoverInv, Handover
  <2>3. Queued = items /\ Queued' = <<>>
    BY <1>1, <2>1, <2>2 DEF Queued
  <2>4. InGate = settled /\ InGate' = InQueue /\ InQueue' = InQueue
    BY <1>1, <2>1, <2>2, NoEvents DEF InGate, InQueue
  <2>5. InEnricher' = InEnricher /\ InCrawler' = InCrawler
    BY <1>1, <2>4 DEF InEnricher, InCrawler
  <2> QED
    BY <1>1, <1>2, <2>1, <2>2, <2>3, <2>4, <2>5, NoEvents DEF Fresh
<1>4. CASE Gate!Settle
  <2>1. settled' = InGate /\ batch' = <<>> /\ UNCHANGED gateIn
    BY <1>4, SameLines DEF Gate!Settle, InGate
  <2>2. InGate' = InGate /\ InQueue' = InQueue
    BY <1>1, <2>1, NoEvents DEF InGate, InQueue
  <2>3. InEnricher' = InEnricher /\ InCrawler' = InCrawler
    BY <1>1, <2>2 DEF InEnricher, InCrawler
  <2>4. Queued' = Queued
    BY <1>1, <2>1 DEF Queued
  <2> QED
    BY <1>1, <1>2, <2>1, <2>2, <2>3, <2>4, NoEvents DEF Fresh
<1> QED
  BY <1>3, <1>4 DEF GateStep, Gate!GateNext

LEMMA FreshStep ==
    ASSUME AgentTypes, CoverInv, FreshInv, [Next]_vars PROVE FreshInv'
<1>1. CASE UNCHANGED <<pos, enrichIn, queueIn, items, flushing, gateIn, batch, settled, crashes>>
  BY <1>1 DEF FreshInv, Fresh, Queued, AllRead, InCrawler, InEnricher, InQueue, InGate
<1>2. ASSUME NEW s \in Source, WriteLine(s) PROVE FreshInv'
  BY <1>1, <1>2 DEF WriteLine, Reader!WriteLine, queueVars, gateVars
<1>3. ASSUME NEW s \in Source, Crawl(s) PROVE FreshInv'
  <2>1. crashes' = crashes
    BY <1>3 DEF Crawl
  <2> QED
    BY <1>3, <2>1, CrawlFresh DEF FreshInv
<1>4. CASE Enrich
  <2>1. /\ queueIn = <<>> /\ queueIn' = enrichIn /\ enrichIn' = <<>>
        /\ UNCHANGED <<pos, items, flushing, gateIn, batch, settled, crashes>>
    BY <1>4 DEF Enrich, readerVars, queueVars, gateVars
  <2>2. /\ InGate' = InGate /\ InQueue' = InQueue /\ InEnricher = InQueue
        /\ InEnricher' = InCrawler /\ InCrawler' = InCrawler
    BY <2>1, NoEvents DEF InGate, InQueue, InEnricher, InCrawler
  <2> QED
    BY <2>1, <2>2, NoEvents DEF FreshInv, Fresh, Queued, AllRead
<1>5. CASE QueueStep
  <2>1. crashes' = crashes
    BY <1>5 DEF QueueStep
  <2> QED
    BY <1>5, <2>1, QueueFresh DEF FreshInv
<1>6. CASE GateStep
  <2>1. crashes' = crashes
    BY <1>6 DEF GateStep
  <2> QED
    BY <1>6, <2>1, GateFresh DEF FreshInv
<1>7. CASE StateStep \/ NextSecond \/ UNCHANGED vars
  BY <1>1, <1>7 DEF StateStep, NextSecond, vars, readerVars, queueVars, gateVars
<1>8. CASE Crash
  BY <1>8 DEF Crash, FreshInv, AgentTypes
<1> QED
  BY <1>2, <1>3, <1>4, <1>5, <1>6, <1>7, <1>8 DEF Next

LEMMA FreshMeansOnce == FreshInv => OnceUnlessRestarted
<1> SUFFICES ASSUME FreshInv, crashes = 0
             PROVE  settled \cap (EventsOf(enrichIn) \cup EventsOf(queueIn) \cup EventsOf(batch)
                                     \cup IF flushing THEN {} ELSE EventsOf(items)) = {}
  BY DEF OnceUnlessRestarted
<1>1. Fresh /\ (~flushing => Queued = items)
  BY DEF FreshInv, Queued
<1>2. settled \subseteq InGate /\ InGate \subseteq InQueue /\ InQueue \subseteq InEnricher
  BY DEF InGate, InQueue, InEnricher
<1> QED
  BY <1>1, <1>2 DEF Fresh

\* Without a restart the gateway deals with no event twice: what it is done with
\* does not come down the pipeline again (queue.go:31-39, http_gateway.go:112).
THEOREM OnceHolds == Spec => []OnceUnlessRestarted
BY Invariance, FreshInit, FreshStep, FreshMeansOnce, PTL DEF Spec

-----------------------------------------------------------------------------
(* The durable offset of a source falls to an older one only when it was   *)
(* not read.  Every offset has to be in order with all those further down  *)
(* the pipeline, for each of them may be the durable one when it arrives;  *)
(* 0 is always in order, and no offset is beyond the position of the       *)
(* crawler.                                                                *)

Offsets(b, s) == {b[i].offset : i \in {j \in 1 .. Len(b) : b[j].src = s}}

\* The batch that the gateway is handing over to the state goroutine.
Offered == IF stateIn = <<>> THEN <<>> ELSE stateIn[1]

\* The offsets of s that are durable or at one of the stages, down from the
\* goroutine that stores them.  A durable offset that Restore() could not read
\* is in order with nothing.
Stored(s) == IF s \in unread THEN {} ELSE {State!Restored[s].offset}
ToState(s) == Stored(s) \cup Offsets(sbatch, s)
ToGate(s) == ToState(s) \cup Offsets(Offered, s)
ToQueue(s) == ToGate(s) \cup Offsets(batch, s)
ToEnricher(s) == ToQueue(s) \cup Offsets(Queued, s)
ToCrawler(s) == ToEnricher(s) \cup Offsets(queueIn, s)
OnTheWay(s) == ToCrawler(s) \cup Offsets(enrichIn, s)

InOrder(A, B) == \A a \in A, b \in B : a <= b \/ b = 0

SourceInOrder(s) == /\ InOrder(Stored(s), Offsets(sbatch, s))
                    /\ InOrder(ToState(s), Offsets(Offered, s))
                    /\ InOrder(ToGate(s), Offsets(batch, s))
                    /\ InOrder(ToQueue(s), Offsets(Queued, s))
                    /\ InOrder(ToEnricher(s), Offsets(queueIn, s))
                    /\ InOrder(ToCrawler(s), Offsets(enrichIn, s))
                    /\ \A a \in OnTheWay(s) : a <= pos[s]

\* What is staged is what the file has, what the batch brings, or nothing.
StagedFrom(s) == \/ staged[s].offset = 0
                 \/ staged[s].offset \in Offsets(sbatch, s)
                 \/ staged[s] = disk[s] /\ intact

OrderInv == /\ \A s \in Source : SourceInOrder(s)
            /\ spc \in {"open", "write"} => \A s \in Source : StagedFrom(s)

LEMMA NoOffsets == ASSUME NEW s PROVE Offsets(<<>>, s) = {}
BY DEF Offsets

LEMMA OffsetsOfOne ==
    ASSUME NEW c \in Container, NEW s
    PROVE  Offsets(<<c>>, s) = IF c.src = s THEN {c.offset} ELSE {}
BY DEF Offsets

LEMMA OffsetsOfAppend ==
    ASSUME NEW b \in Batch, NEW c \in Container, NEW s
    PROVE  Offsets(Append(b, c), s) = Offsets(b, s) \cup Offsets(<<c>>, s)
<1>1. /\ Len(Append(b, c)) = Len(b) + 1
      /\ Len(b) \in Nat
      /\ Append(b, c)[Len(b) + 1] = c
      /\ \A i \in 1 .. Len(b) : Append(b, c)[i] = b[i]
  BY DEF Batch
<1>2. \A i : i \in 1 .. (Len(b) + 1) <=> i \in 1 .. Len(b) \/ i = Len(b) + 1
  BY <1>1
<1>3. ASSUME NEW o
      PROVE  o \in Offsets(Append(b, c), s) <=> o \in Offsets(b, s) \/ (c.src = s /\ o = c.offset)
  BY <1>1, <1>2 DEF Offsets
<1> QED
  BY <1>3, OffsetsOfOne

LEMMA OffsetsAreNat == ASSUME NEW b \in Batch, NEW s PROVE Offsets(b, s) \subseteq Nat
<1>1. \A i \in 1 .. Len(b) : b[i] \in Container
  BY DEF Batch
<1> QED
  BY <1>1 DEF Offsets, Container

LEMMA LastOffsetIsOne ==
    ASSUME NEW b \in Batch, NEW s, State!Mentions(b, s)
    PROVE  State!LastOffset(b, s) \in Offsets(b, s)
BY LastMention DEF Offsets

LEMMA RestoredOffsets ==
    ASSUME AgentTypes, NEW s \in Source
    PROVE  /\ State!Restored[s].offset \in Nat
           /\ State!NoEntries[s].offset = 0
           /\ State!Restored[s] \in {disk[s], State!NoEntries[s]}
<1>1. State!Restored[s] \in {disk[s], State!NoEntries[s]}
  BY DEF State!Restored
<1>2. State!NoEntries[s] = [offset |-> 0, t |-> 0]
  BY DEF State!NoEntries
<1>3. disk[s] \in State!Entry
  BY DEF AgentTypes
<1> QED
  BY <1>1, <1>2, <1>3 DEF State!Entry

\* All offsets on the way are numbers, so that they can be compared.
LEMMA OnTheWayNat == ASSUME AgentTypes, NEW s \in Source PROVE OnTheWay(s) \subseteq Nat
<1>1. /\ Offsets(sbatch, s) \subseteq Nat /\ Offsets(batch, s) \subseteq Nat
      /\ Offsets(items, s) \subseteq Nat /\ Offsets(<<>>, s) \subseteq Nat
  BY OffsetsAreNat, NoOffsets DEF AgentTypes
<1>2. Offsets(Offered, s) \subseteq Nat /\ Offsets(Queued, s) \subseteq Nat
  <2>1. CASE stateIn # <<>>
    BY <1>1, <2>1, ChannelValue, OffsetsAreNat DEF Offered, Queued, AgentTypes
  <2> QED
    BY <1>1, <2>1 DEF Offered, Queued
<1>3. Offsets(queueIn, s) \subseteq Nat /\ Offsets(enrichIn, s) \subseteq Nat
  <2>1. queueIn \in Batch /\ enrichIn \in Batch
    BY DEF AgentTypes, Channel, Batch
  <2> QED
    BY <2>1, OffsetsAreNat
<1> QED
  BY <1>1, <1>2, <1>3, RestoredOffsets
     DEF OnTheWay, ToCrawler, ToEnricher, ToQueue, ToGate, ToState, Stored

LEMMA OrderInit == Init => OrderInv
<1> SUFFICES ASSUME Init PROVE OrderInv
  OBVIOUS
<1>1. /\ pos = [s \in Source |-> 0] /\ enrichIn = <<>> /\ queueIn = <<>> /\ items = <<>>
      /\ batch = <<>> /\ stateIn = <<>> /\ sbatch = <<>> /\ spc = "receive"
      /\ disk = State!NoEntries /\ unread = {}
  BY DEF Init, Reader!Init, Batches!Init, Gate!GateInit, State!StateInit
<1>2. Offered = <<>> /\ Queued = <<>>
  BY <1>1 DEF Offered, Queued
<1>3. ASSUME NEW s \in Source PROVE SourceInOrder(s)
  <2>1. Stored(s) = {0}
    BY <1>1 DEF Stored, State!Restored, State!NoEntries
  <2> QED
    BY <1>1, <1>2, <2>1, NoOffsets
       DEF SourceInOrder, InOrder, OnTheWay, ToCrawler, ToEnricher, ToQueue, ToGate, ToState
<1> QED
  BY <1>1, <1>3 DEF OrderInv

\* A step of the goroutines above the state goroutine leaves what is below.
LEMMA StateUntouched ==
    ASSUME UNCHANGED <<spc, sbatch, staged, disk, intact, clock, unread>>, OrderInv
    PROVE  /\ \A s \in Source : Stored(s)' = Stored(s) /\ ToState(s)' = ToState(s)
           /\ (spc \in {"open", "write"} => \A s \in Source : StagedFrom(s))'
<1>1. UNCHANGED State!Restored
  BY DEF State!Restored, State!Expired
<1> QED
  BY <1>1 DEF Stored, ToState, OrderInv, StagedFrom

LEMMA CrawlOrder ==
    ASSUME AgentTypes, OrderInv, NEW s \in Source, Crawl(s) PROVE OrderInv'
<1>1. PICK n \in Nat, c \in Container :
             /\ c.src = s /\ c.offset = n
             /\ enrichIn = <<>> /\ enrichIn' = <<c>>
             /\ \/ /\ pos[s] < n /\ n <= written[s]
                   /\ c.events = LinesUpTo(s, n) \ LinesUpTo(s, pos[s])
                   /\ pos' = [pos EXCEPT ![s] = n]
                \/ /\ c.events = {}
                   /\ n \in {0, pos[s]}
                   /\ pos' = pos
             /\ written' = written
  BY SentContainer
<1>2. UNCHANGED <<queueIn, items, flushing, gateIn, batch, stateIn, spc, sbatch, staged, disk,
                  intact, clock, unread>>
  BY DEF Crawl, queueVars, gateVars, stateVars
<1>3. Offered' = Offered /\ Queued' = Queued
  BY <1>2 DEF Offered, Queued
<1>4. ASSUME NEW r \in Source PROVE SourceInOrder(r)'
  <2>1. ToCrawler(r)' = ToCrawler(r) /\ OnTheWay(r) = ToCrawler(r)
    BY <1>1, <1>2, <1>3, StateUntouched, NoOffsets
       DEF ToCrawler, ToEnricher, ToQueue, ToGate, ToState, OnTheWay
  <2>2. /\ InOrder(Stored(r), Offsets(sbatch, r))'
        /\ InOrder(ToState(r), Offsets(Offered, r))'
        /\ InOrder(ToGate(r), Offsets(batch, r))'
        /\ InOrder(ToQueue(r), Offsets(Queued, r))'
        /\ InOrder(ToEnricher(r), Offsets(queueIn, r))'
    BY <1>2, <1>3, StateUntouched
       DEF OrderInv, SourceInOrder, ToEnricher, ToQueue, ToGate, ToState
  <2>3. \A a \in ToCrawler(r) : a \in Nat /\ a <= pos[r]
    BY <2>1, OnTheWayNat DEF OrderInv, SourceInOrder
  <2>4. /\ pos[r] \in Nat /\ pos[r] <= pos'[r] /\ pos'[r] \in Nat
        /\ r = s => n = 0 \/ (pos[r] <= n /\ n <= pos'[r])
    BY <1>1 DEF AgentTypes
  <2>5. Offsets(enrichIn', r) = IF r = s THEN {n} ELSE {}
    BY <1>1, OffsetsOfOne
  <2>6. InOrder(ToCrawler(r)', Offsets(enrichIn', r))
    BY <2>1, <2>3, <2>4, <2>5 DEF InOrder
  <2>7. \A a \in OnTheWay(r)' : a <= pos'[r]
    BY <2>1, <2>3, <2>4, <2>5 DEF OnTheWay
  <2> QED
    BY <2>2, <2>6, <2>7 DEF SourceInOrder
<1> QED
  BY <1>2, <1>4, StateUntouched DEF OrderInv

LEMMA EnrichOrder == ASSUME AgentTypes, OrderInv, Enrich PROVE OrderInv'
<1>1. /\ queueIn = <<>> /\ queueIn' = enrichIn /\ enrichIn' = <<>>
      /\ UNCHANGED <<pos, items, flushing, gateIn, batch, stateIn, spc, sbatch, staged, disk,
                     intact, clock, unread>>
  BY DEF Enrich, readerVars, queueVars, gateVars, stateVars
<1>2. Offered' = Offered /\ Queued' = Queued
  BY <1>1 DEF Offered, Queued
<1>3. ASSUME NEW s \in Source PROVE SourceInOrder(s)'
  BY <1>1, <1>2, StateUntouched, NoOffsets
     DEF OrderInv, SourceInOrder, OnTheWay, ToCrawler, ToEnricher, ToQueue, ToGate, InOrder
<1> QED
  BY <1>1, <1>3, StateUntouched DEF OrderInv

LEMMA QueueOrder == ASSUME AgentTypes, CoverInv, OrderInv, QueueStep PROVE OrderInv'
<1>1. UNCHANGED <<pos, enrichIn, batch, stateIn, spc, sbatch, staged, disk, intact, clock, unread>>
  BY DEF QueueStep, readerVars, gateVars, stateVars
<1>2. Offered' = Offered
  BY <1>1 DEF Offered
\* The items lose or keep their containers, or get the one that comes.
<1>3. \/ UNCHANGED <<Queued, queueIn>>
      \/ Queued' = <<>> /\ UNCHANGED queueIn
      \/ \E c \in Container : /\ queueIn = <<c>> /\ queueIn' = <<>>
                              /\ Queued = items /\ Queued' = Append(items, c)
  <2>1. CASE Batches!Receive
    <3>1. queueIn[1] \in Container /\ queueIn = <<queueIn[1]>> /\ queueIn' = <<>>
          /\ items' = Append(items, queueIn[1])
      BY <2>1, ChannelValue DEF Batches!Receive, AgentTypes
    <3>2. ~flushing /\ gateIn = <<>>
      BY <2>1 DEF Batches!Receive, CoverInv, Handover
    <3>3. gateIn' = <<items'>> \/ flushing' = FALSE
      BY <2>1, <3>2 DEF Batches!Receive, Batches!StartFlush, Batches!KeepCollecting, AgentTypes
    <3>4. Queued = items /\ Queued' = items'
      BY <3>2, <3>3 DEF Queued
    <3> QED
      BY <3>1, <3>4
  <2>2. CASE Batches!Poll
    BY <2>2 DEF Batches!Poll, Batches!StartFlush, Queued
  <2>3. CASE Batches!FinishFlush
    BY <2>3 DEF Batches!FinishFlush, Queued
  <2> QED
    BY <2>1, <2>2, <2>3 DEF QueueStep, Batches!Next
<1>4. ASSUME NEW s \in Source PROVE SourceInOrder(s)'
  <2>1. \/ UNCHANGED <<Queued, queueIn>>
        \/ Offsets(Queued', s) = {} /\ UNCHANGED queueIn
        \/ /\ Offsets(Queued', s) = Offsets(Queued, s) \cup Offsets(queueIn, s)
           /\ Offsets(queueIn', s) = {}
    <3>1. CASE UNCHANGED <<Queued, queueIn>>
      BY <3>1
    <3>2. CASE Queued' = <<>> /\ UNCHANGED queueIn
      BY <3>2, NoOffsets
    <3>3. ASSUME NEW c \in Container, queueIn = <<c>>, queueIn' = <<>>,
                 Queued = items, Queued' = Append(items, c)
          PROVE  /\ Offsets(Queued', s) = Offsets(Queued, s) \cup Offsets(queueIn, s)
                 /\ Offsets(queueIn', s) = {}
      <4>1. items \in Batch
        BY DEF AgentTypes
      <4>2. Offsets(Append(items, c), s) = Offsets(items, s) \cup Offsets(<<c>>, s)
        BY <4>1, OffsetsOfAppend
      <4> QED
        BY <3>3, <4>2, NoOffsets
    <3> QED
      BY <1>3, <3>1, <3>2, <3>3
  <2> QED
    BY <1>1, <1>2, <2>1, StateUntouched
       DEF OrderInv, SourceInOrder, OnTheWay, ToCrawler, ToEnricher, ToQueue, ToGate, InOrder
<1> QED
  BY <1>1, <1>4, StateUntouched DEF OrderInv

LEMMA GateOrder == ASSUME AgentTypes, CoverInv, OrderInv, GateStep PROVE OrderInv'
<1>1. UNCHANGED <<pos, enrichIn, queueIn, items, flushing, spc, sbatch, staged, disk, intact, clock,
                  unread>>
  BY DEF GateStep, readerVars, queueVars, stateVars
<1>2. \/ batch' = Queued /\ Queued' = <<>> /\ Offered' = Offered
      \/ Offered' = batch /\ batch' = <<>> /\ Queued' = Queued
  <2>1. CASE Gate!TakeBatch
    <3>1. /\ gateIn # <<>> /\ gateIn' = <<>> /\ batch' = gateIn[1] /\ stateIn' = stateIn
      BY <2>1 DEF Gate!TakeBatch
    <3>2. batch' = items /\ flushing
      BY <3>1 DEF CoverInv, Handover
    <3> QED
      BY <1>1, <3>1, <3>2 DEF Queued, Offered
  <2>2. CASE Gate!Settle
    <3>1. stateIn' = <<batch>> /\ batch' = <<>> /\ gateIn' = gateIn
      BY <2>2 DEF Gate!Settle
    <3> QED
      BY <1>1, <3>1 DEF Queued, Offered
  <2> QED
    BY <2>1, <2>2 DEF GateStep, Gate!GateNext
<1>3. ASSUME NEW s \in Source PROVE SourceInOrder(s)'
  BY <1>1, <1>2, StateUntouched, NoOffsets
     DEF OrderInv, SourceInOrder, OnTheWay, ToCrawler, ToEnricher, ToQueue, ToGate, InOrder
<1> QED
  BY <1>1, <1>3, StateUntouched DEF OrderInv

\* When the state goroutine is at rest, or forgets its batch, nothing is staged
\* and what is durable has stayed or fallen to 0.
LEMMA StoredKept ==
    ASSUME AgentTypes, OrderInv,
           \A s \in Source : State!Restored[s].offset' \in {State!Restored[s].offset, 0},
           UNCHANGED <<pos, enrichIn, queueIn, items, flushing, gateIn, batch, stateIn, unread>>,
           sbatch' \in {sbatch, <<>>},
           (spc \in {"open", "write"} => \A s \in Source : StagedFrom(s))'
    PROVE  OrderInv'
<1>1. Offered' = Offered /\ Queued' = Queued
  BY DEF Offered, Queued
<1>2. ASSUME NEW s \in Source PROVE SourceInOrder(s)'
  <2>1. State!Restored[s].offset' \in {State!Restored[s].offset, 0}
    OBVIOUS
  <2>2. /\ Stored(s)' \subseteq Stored(s) \cup {0}
        /\ Offsets(sbatch, s)' \subseteq Offsets(sbatch, s)
    BY <2>1, NoOffsets DEF Stored
  <2>3. OnTheWay(s) \subseteq Nat /\ pos[s] \in Nat
    BY OnTheWayNat DEF AgentTypes
  <2>4. /\ Offsets(sbatch, s) \subseteq OnTheWay(s) /\ Offsets(Offered, s) \subseteq OnTheWay(s)
        /\ Offsets(batch, s) \subseteq OnTheWay(s) /\ Offsets(Queued, s) \subseteq OnTheWay(s)
        /\ Offsets(queueIn, s) \subseteq OnTheWay(s) /\ Offsets(enrichIn, s) \subseteq OnTheWay(s)
    BY DEF OnTheWay, ToCrawler, ToEnricher, ToQueue, ToGate, ToState
  <2>5. \A b \in OnTheWay(s) : 0 <= b
    BY <2>3
  <2> QED
    BY <1>1, <2>2, <2>3, <2>4, <2>5
       DEF OrderInv, SourceInOrder, OnTheWay, ToCrawler, ToEnricher, ToQueue, ToGate, ToState,
           InOrder
<1> QED
  BY <1>2 DEF OrderInv

LEMMA ApplyStages ==
    ASSUME AgentTypes, OrderInv, State!ReadAndApply PROVE \A s \in Source : StagedFrom(s)'
<1>1. PICK entries \in {State!Restored, State!NoEntries} : staged' = State!Apply(sbatch, entries)
  BY DEF State!ReadAndApply
<1>2. UNCHANGED <<sbatch, disk, intact>>
  BY DEF State!ReadAndApply
<1> SUFFICES ASSUME NEW s \in Source PROVE StagedFrom(s)'
  OBVIOUS
<1>3. CASE State!Mentions(sbatch, s)
  <2>1. staged'[s].offset = State!LastOffset(sbatch, s)
    BY <1>1, <1>3 DEF State!Apply
  <2> QED
    BY <1>2, <1>3, <2>1, LastOffsetIsOne DEF StagedFrom, AgentTypes
<1>4. CASE ~State!Mentions(sbatch, s)
  <2>1. staged'[s] = entries[s]
    BY <1>1, <1>4 DEF State!Apply
  <2>2. entries[s] = State!NoEntries[s] \/ (entries[s] = disk[s] /\ intact)
    BY <1>1 DEF State!Restored
  <2> QED
    BY <1>2, <2>1, <2>2, RestoredOffsets DEF StagedFrom
<1> QED
  BY <1>3, <1>4

\* A completed write makes an offset of the batch durable, drops one, or keeps it.
LEMMA WrittenIs ==
    ASSUME AgentTypes, OrderInv, State!WriteState, NEW s \in Source
    PROVE  /\ \/ State!Restored'[s].offset \in Offsets(sbatch, s) \cup {0}
              \/ /\ disk'[s] = disk[s]
                 /\ State!Restored'[s].offset = State!Restored[s].offset
           /\ disk'[s] = disk[s] => State!Restored[s].offset \in {State!Restored'[s].offset, 0}
           /\ State!Restored'[s].offset \in Nat
<1>1. /\ disk' = staged /\ intact' = TRUE /\ clock' = clock /\ StagedFrom(s)
  BY DEF State!WriteState, OrderInv
<1>2. staged[s] \in State!Entry /\ State!NoEntries[s].offset = 0 /\ State!NoEntries' = State!NoEntries
  BY RestoredOffsets DEF AgentTypes, State!NoEntries
<1>3. State!Restored'[s] = IF ~State!Expired(staged[s]) THEN staged[s] ELSE State!NoEntries[s]
  BY <1>1, <1>2 DEF State!Restored, State!Expired
<1>4. disk'[s] = disk[s] => State!Restored[s].offset \in {State!Restored'[s].offset, 0}
  BY <1>1, <1>2, <1>3 DEF State!Restored
<1>5. CASE staged[s] = disk[s] /\ intact
  <2>1. State!Restored[s] = IF ~State!Expired(staged[s]) THEN staged[s] ELSE State!NoEntries[s]
    BY <1>5 DEF State!Restored
  <2> QED
    BY <1>1, <1>2, <1>3, <1>4, <1>5, <2>1 DEF State!Entry
<1>6. CASE staged[s].offset \in Offsets(sbatch, s) \cup {0}
  BY <1>2, <1>3, <1>4, <1>6 DEF State!Entry
<1> QED
  BY <1>1, <1>5, <1>6 DEF StagedFrom

LEMMA StateOrder == ASSUME AgentTypes, OrderInv, StateStep PROVE OrderInv'
<1>1. /\ UNCHANGED <<pos, enrichIn, queueIn, items, flushing, gateIn, batch>>
      /\ unread' = {s \in unread : disk'[s] = disk[s]}
  BY DEF StateStep, queueVars, gateVars
<1>2. Queued' = Queued /\ (disk' = disk => unread' = unread)
  BY <1>1 DEF Queued
<1>3. CASE State!ReceiveEmpty
  <2>1. /\ stateIn = << <<>> >> /\ stateIn' = <<>>
        /\ UNCHANGED <<spc, sbatch, staged, disk, intact, clock>>
    BY <1>3 DEF State!ReceiveEmpty, State!stateVars
  <2>2. Offered = <<>> /\ Offered' = <<>> /\ unread' = unread
    BY <1>2, <2>1 DEF Offered
  <2>3. ASSUME NEW s \in Source PROVE SourceInOrder(s)'
    BY <1>1, <1>2, <2>1, <2>2, StateUntouched
       DEF OrderInv, SourceInOrder, OnTheWay, ToCrawler, ToEnricher, ToQueue, ToGate
  <2> QED
    BY <2>1, <2>2, <2>3, StateUntouched DEF OrderInv
<1>4. CASE State!Receive
  <2>1. /\ stateIn # <<>> /\ sbatch' = stateIn[1] /\ stateIn' = <<>> /\ spc' = "read"
        /\ UNCHANGED <<staged, disk, intact, clock>>
    BY <1>4 DEF State!Receive
  <2>2. sbatch' = Offered /\ Offered' = <<>> /\ UNCHANGED <<State!Restored, unread>>
    BY <1>2, <2>1 DEF Offered, State!Restored, State!Expired
  <2>3. ASSUME NEW s \in Source PROVE SourceInOrder(s)'
    <3>1. /\ Stored(s)' = Stored(s) /\ Offsets(Offered', s) = {}
          /\ Offsets(sbatch', s) = Offsets(Offered, s)
          /\ ToState(s)' \subseteq ToGate(s)
      BY <2>2, NoOffsets DEF Stored, ToState, ToGate
    <3>2. ToGate(s)' \subseteq ToGate(s)
      BY <3>1 DEF ToGate
    <3>3. ToQueue(s)' \subseteq ToQueue(s) /\ ToEnricher(s)' \subseteq ToEnricher(s)
          /\ ToCrawler(s)' \subseteq ToCrawler(s) /\ OnTheWay(s)' \subseteq OnTheWay(s)
      BY <1>1, <1>2, <3>2 DEF ToQueue, ToEnricher, ToCrawler, OnTheWay
    <3>4. Stored(s) \subseteq ToState(s)
      BY DEF ToState
    <3> QED
      BY <1>1, <1>2, <3>1, <3>2, <3>3, <3>4 DEF OrderInv, SourceInOrder, InOrder
  <2> QED
    BY <2>1, <2>3 DEF OrderInv
<1>5. CASE State!ReadAndApply \/ State!Truncate
  <2>1. UNCHANGED <<stateIn, sbatch, disk, intact, clock>>
    BY <1>5 DEF State!ReadAndApply, State!Truncate
  <2>2. \A s \in Source : StagedFrom(s)'
    BY <1>5, ApplyStages DEF State!Truncate, OrderInv, StagedFrom
  <2>3. UNCHANGED <<State!Restored, unread>>
    BY <1>2, <2>1 DEF State!Restored, State!Expired
  <2> QED
    BY <1>1, <2>1, <2>2, <2>3, StoredKept
<1>6. CASE State!WriteState
  <2>1. sbatch' = <<>> /\ stateIn' = stateIn /\ spc' = "receive"
    BY <1>6 DEF State!WriteState
  <2>2. Offered' = Offered
    BY <2>1 DEF Offered
  <2>3. ASSUME NEW s \in Source PROVE SourceInOrder(s)'
    <3>1. Stored(s)' \subseteq ToState(s) \cup {0}
      BY <1>1, <1>6, WrittenIs DEF Stored, ToState
    <3>2. OnTheWay(s) \subseteq Nat /\ pos[s] \in Nat
      BY OnTheWayNat DEF AgentTypes
    <3>3. /\ Offsets(Offered, s) \subseteq OnTheWay(s) /\ Offsets(batch, s) \subseteq OnTheWay(s)
          /\ Offsets(Queued, s) \subseteq OnTheWay(s) /\ Offsets(queueIn, s) \subseteq OnTheWay(s)
          /\ Offsets(enrichIn, s) \subseteq OnTheWay(s)
      BY DEF OnTheWay, ToCrawler, ToEnricher, ToQueue, ToGate
    <3>4. (\A b \in OnTheWay(s) : 0 <= b) /\ 0 <= pos[s]
      BY <3>2
    <3> QED
      BY <1>1, <1>2, <2>1, <2>2, <3>1, <3>3, <3>4, NoOffsets
         DEF OrderInv, SourceInOrder, OnTheWay, ToCrawler, ToEnricher, ToQueue, ToGate, ToState,
             InOrder
  <2> QED
    BY <2>1, <2>3 DEF OrderInv
<1>7. CASE State!SaveFails
  <2>1. /\ sbatch' = <<>> /\ spc' = "receive" /\ intact' = (intact /\ spc = "open")
        /\ UNCHANGED <<stateIn, disk, clock>>
    BY <1>7 DEF State!SaveFails
  <2>2. ASSUME NEW s \in Source
        PROVE  State!Restored[s].offset' \in {State!Restored[s].offset, 0}
    <3>1. State!NoEntries' = State!NoEntries
      BY DEF State!NoEntries
    <3> QED
      BY <2>1, <3>1, RestoredOffsets DEF State!Restored, State!Expired
  <2> QED
    BY <1>1, <1>2, <2>1, <2>2, StoredKept
<1> QED
  BY <1>3, <1>4, <1>5, <1>6, <1>7 DEF StateStep, State!StateNext

LEMMA SecondOrder == ASSUME AgentTypes, OrderInv, NextSecond PROVE OrderInv'
<1>1. /\ UNCHANGED <<pos, enrichIn, queueIn, items, flushing, gateIn, batch, stateIn, unread>>
      /\ UNCHANGED <<spc, sbatch, staged, disk, intact>>
      /\ clock' = clock + 1
  BY DEF NextSecond, readerVars, queueVars, gateVars, stateVars
<1>2. ASSUME NEW s \in Source
      PROVE  State!Restored[s].offset' \in {State!Restored[s].offset, 0}
  <2>1. disk[s].t \in Nat /\ clock \in Nat /\ Expiry \in Nat
    BY AgentAssumption DEF AgentTypes, State!Entry
  <2>2. State!Expired(disk[s]) => State!Expired(disk[s])'
    BY <1>1, <2>1 DEF State!Expired
  <2>3. State!NoEntries' = State!NoEntries
    BY DEF State!NoEntries
  <2> QED
    BY <1>1, <2>2, <2>3, RestoredOffsets DEF State!Restored
<1>3. (spc \in {"open", "write"} => \A s \in Source : StagedFrom(s))'
  BY <1>1 DEF OrderInv, StagedFrom
<1> QED
  BY <1>1, <1>2, <1>3, StoredKept

\* After a restart the crawler is where the durable offset is, or the offset is
\* one that was not read.
LEMMA CrashOrder == ASSUME AgentTypes, OrderInv, Crash PROVE OrderInv'
<1>1. /\ unread' = {s \in Source : pos'[s] # State!ResumeFrom[s]}
      /\ enrichIn' = <<>> /\ queueIn' = <<>> /\ items' = <<>>
      /\ batch' = <<>> /\ stateIn' = <<>> /\ sbatch' = <<>> /\ spc' = "receive"
      /\ intact' = (intact /\ spc # "write") /\ UNCHANGED <<disk, clock>>
  BY DEF Crash, Gate!Crash, State!StateCrash
<1>2. Offered' = <<>> /\ Queued' = <<>>
  BY <1>1 DEF Offered, Queued
<1>3. ASSUME NEW s \in Source PROVE SourceInOrder(s)'
  <2>1. State!NoEntries' = State!NoEntries
    BY DEF State!NoEntries
  <2>2. s \notin unread' => State!Restored[s].offset' = pos'[s]
    BY <1>1, <2>1, RestoredOffsets DEF State!Restored, State!Expired, State!ResumeFrom
  <2>3. pos'[s] \in Nat
    BY CrashTypes DEF AgentTypes
  <2> QED
    BY <1>1, <1>2, <2>2, <2>3, NoOffsets
       DEF SourceInOrder, OnTheWay, ToCrawler, ToEnricher, ToQueue, ToGate, ToState, Stored,
           InOrder
<1> QED
  BY <1>1, <1>3 DEF OrderInv

LEMMA OrderStep == ASSUME AgentTypes, CoverInv, OrderInv, [Next]_vars PROVE OrderInv'
<1>1. ASSUME UNCHANGED <<pos, enrichIn, queueIn, items, flushing, gateIn, batch, stateIn, unread>>,
             UNCHANGED <<spc, sbatch, staged, disk, intact, clock>>
      PROVE  OrderInv'
  <2>1. UNCHANGED State!Restored
    BY <1>1 DEF State!Restored, State!Expired
  <2> QED
    BY <1>1, <2>1, StateUntouched, StoredKept
<1>2. ASSUME NEW s \in Source, WriteLine(s) PROVE OrderInv'
  BY <1>1, <1>2 DEF WriteLine, Reader!WriteLine, queueVars, gateVars, stateVars
<1>3. CASE UNCHANGED vars
  BY <1>1, <1>3 DEF vars, readerVars, queueVars, gateVars, stateVars
<1> QED
  BY <1>2, <1>3, CrawlOrder, EnrichOrder, QueueOrder, GateOrder, StateOrder, SecondOrder,
     CrashOrder
     DEF Next

DurableGrows == \A s \in Source : \/ State!Restored[s].offset <= State!Restored[s].offset'
                                  \/ State!Restored[s].offset' = 0
                                  \/ s \in unread /\ s \notin unread'

LEMMA StepGrows == ASSUME AgentTypes, OrderInv, [Next]_vars PROVE DurableGrows
<1> SUFFICES ASSUME NEW s \in Source
             PROVE  \/ State!Restored[s].offset <= State!Restored[s].offset'
                    \/ State!Restored[s].offset' = 0
                    \/ s \in unread /\ s \notin unread'
  BY DEF DurableGrows
<1>1. State!NoEntries' = State!NoEntries /\ State!Restored[s].offset \in Nat
  BY RestoredOffsets DEF State!NoEntries
\* Without a write the file stays, is cut short, or grows old.
<1>2. ASSUME disk' = disk, intact' => intact, clock' \in {clock, clock + 1}
      PROVE  State!Restored[s].offset' \in {State!Restored[s].offset, 0}
  <2>1. disk[s].t \in Nat /\ clock \in Nat /\ Expiry \in Nat
    BY AgentAssumption DEF AgentTypes, State!Entry
  <2>2. State!Expired(disk[s]) => State!Expired(disk[s])'
    BY <1>2, <2>1 DEF State!Expired
  <2> QED
    BY <1>1, <1>2, <2>2, RestoredOffsets DEF State!Restored
\* A write of what was not read ends that.
<1>3. ASSUME State!WriteState, unread' = {r \in unread : disk'[r] = disk[r]}
      PROVE  \/ State!Restored[s].offset <= State!Restored[s].offset'
             \/ State!Restored[s].offset' = 0
             \/ s \in unread /\ s \notin unread'
  <2>1. /\ \/ State!Restored'[s].offset \in Offsets(sbatch, s) \cup {0}
           \/ /\ disk'[s] = disk[s]
              /\ State!Restored'[s].offset = State!Restored[s].offset
        /\ disk'[s] = disk[s] => State!Restored[s].offset \in {State!Restored'[s].offset, 0}
        /\ State!Restored'[s].offset \in Nat
    BY <1>3, WrittenIs
  <2>2. CASE disk'[s] = disk[s]
    BY <1>1, <2>1, <2>2
  <2>3. CASE disk'[s] # disk[s] /\ s \in unread
    BY <1>3, <2>3
  <2>4. CASE disk'[s] # disk[s] /\ s \notin unread
    BY <1>1, <2>1, <2>4 DEF OrderInv, SourceInOrder, InOrder, Stored
  <2> QED
    BY <2>2, <2>3, <2>4
<1>4. \/ State!WriteState /\ unread' = {r \in unread : disk'[r] = disk[r]}
      \/ disk' = disk /\ (intact' => intact) /\ clock' \in {clock, clock + 1}
  <2>1. CASE StateStep
    BY <2>1 DEF StateStep, State!StateNext, State!ReceiveEmpty, State!Receive, State!ReadAndApply,
                State!Truncate, State!SaveFails, State!stateVars, AgentTypes
  <2>2. CASE Crash
    BY <2>2 DEF Crash, State!StateCrash
  <2> QED
    BY <2>1, <2>2 DEF Next, vars, WriteLine, Crawl, Enrich, QueueStep, GateStep, NextSecond,
                      stateVars
<1> QED
  BY <1>1, <1>2, <1>3, <1>4

\* The durable offset of a source falls to an older offset only when a process
\* whose Restore() could not read it stores its own, and once for each such
\* process, however the batches, the failures of the disk, the expiry of
\* entries and the restarts interleave (system_state.go:17-91, program.go:76).
THEOREM DurableOffsetsGrowHolds == Spec => DurableOffsetsGrow
<1>1. AgentTypes /\ CoverInv /\ OrderInv /\ [Next]_vars => OrderInv'
  BY OrderStep
<1>2. AgentTypes /\ OrderInv /\ [Next]_vars => [DurableGrows]_vars
  BY StepGrows
<1>3. Spec => [][DurableGrows]_vars
  BY <1>1, <1>2, Invariance, OrderInit, PTL DEF Spec
<1> QED
  BY <1>3 DEF DurableOffsetsGrow, DurableGrows
=============================================================================
