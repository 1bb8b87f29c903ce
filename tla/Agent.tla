------------------------------- MODULE Agent --------------------------------
(***************************************************************************)
(* The agent as program.go wires it: crawler, enricher, queue, gateway and *)
(* system state, each a goroutine, connected by unbuffered channels.       *)
(*                                                                         *)
(* The components are instances of their modules over the shared variables *)
(* of this one.  Three of them are the abstract specifications: LogReader  *)
(* for the crawler, BatchQueue for the queue, which Queue.tla implements,  *)
(* and Gateway for the gateway, which HttpGateway.tla implements.  The     *)
(* system state is the detailed module, for its steps are where a crash    *)
(* hurts.                                                                  *)
(***************************************************************************)
EXTENDS Pipeline

CONSTANTS MaxLines,    \* bound on the lines of a source
          MaxItems,    \* Queue._maxItems
          Expiry,      \* lifetime of an entry of the state file
          MaxClock,    \* bound on the clock
          MaxBlanks,   \* bound on the containers without a line
          MaxCrashes   \* bound on the restarts

ASSUME AgentAssumption == /\ MaxLines \in Nat
                          /\ MaxItems \in Nat \ {0}
                          /\ Expiry \in Nat \ {0}
                          /\ MaxClock \in Nat
                          /\ MaxBlanks \in Nat
                          /\ MaxCrashes \in Nat

(* An operator whose name has an underscore is the one it is named after    *)
(* with a plausible bug: the properties must notice it.                    *)

VARIABLES written, pos, enrichIn,                        \* crawler
          unread,        \* history: the sources whose durable offset Restore
                         \* could not read, until it is stored anew
          queueIn, items, flushing,                      \* queue
          gateIn, busy, batch, settled,                  \* gateway
          stateIn, spc, sbatch, staged, disk, intact,    \* system state
          clock,
          blanks, crashes                                \* for the bounds

readerVars == <<written, pos, unread>>
queueVars == <<items, flushing>>
gateVars == <<busy, batch, settled>>
stateVars == <<spc, sbatch, staged, disk, intact>>
vars == <<readerVars, enrichIn, queueIn, queueVars, gateIn, gateVars,
          stateIn, stateVars, clock, blanks, crashes>>

Reader == INSTANCE LogReader
Batches == INSTANCE BatchQueue
Gate == INSTANCE Gateway
State == INSTANCE SystemState WITH OfferedBatches <- {}

\* Type correctness of the composition.
TypeOK == /\ Reader!TypeOK
          /\ Batches!TypeOK
          /\ Gate!TypeOK
          /\ State!TypeOK
          /\ unread \in SUBSET Source
          /\ blanks \in Nat
          /\ crashes \in Nat

Init == /\ Reader!Init
        /\ Batches!Init
        /\ Gate!GateInit
        /\ State!StateInit
        /\ stateIn = <<>>
        /\ clock = 0
        /\ unread = {}
        /\ blanks = 0
        /\ crashes = 0

-----------------------------------------------------------------------------

WriteLine(s) == /\ Reader!WriteLine(s)
                /\ UNCHANGED <<unread, queueIn, queueVars, gateIn, gateVars,
                               stateIn, stateVars, clock, blanks, crashes>>

Crawl(s) == /\ \/ /\ Reader!Crawl(s)
                  /\ UNCHANGED blanks
               \/ /\ Reader!CrawlNothing(s)
                  /\ blanks < MaxBlanks
                  /\ blanks' = blanks + 1
            /\ UNCHANGED <<unread, queueIn, queueVars, gateIn, gateVars,
                           stateIn, stateVars, clock, crashes>>

Enrich_DoesNotWait ==
    /\ enrichIn # <<>>
    /\ queueIn' = queueIn \o enrichIn
    /\ enrichIn' = <<>>
    /\ UNCHANGED <<readerVars, queueVars, gateIn, gateVars,
                   stateIn, stateVars, clock, blanks, crashes>>

\* The enricher passes a container on when its previous send has returned.
Enrich == /\ enrichIn # <<>>
          /\ queueIn = <<>>
          /\ queueIn' = enrichIn
          /\ enrichIn' = <<>>
          /\ UNCHANGED <<readerVars, queueVars, gateIn, gateVars,
                         stateIn, stateVars, clock, blanks, crashes>>

QueueStep == /\ Batches!Next
             /\ UNCHANGED <<readerVars, enrichIn, gateVars,
                            stateIn, stateVars, clock, blanks, crashes>>

GateStep == /\ Gate!GateNext
            /\ UNCHANGED <<readerVars, enrichIn, queueIn, queueVars,
                           stateVars, clock, blanks, crashes>>

StateStep == /\ State!StateNext
             /\ unread' = {s \in unread : disk'[s] = disk[s]}
             /\ UNCHANGED <<written, pos, enrichIn, queueIn, queueVars,
                            gateIn, gateVars, blanks, crashes>>

NextSecond == /\ clock < MaxClock
              /\ clock' = clock + 1
              /\ UNCHANGED <<readerVars, enrichIn, queueIn, queueVars, gateIn, gateVars,
                             stateIn, stateVars, blanks, crashes>>

\* The crawlers have looked their sources up before Restore() reads the file.
Crash_RestoresTooLate ==
    /\ crashes < MaxCrashes
    /\ crashes' = crashes + 1
    /\ pos' = [s \in Source |-> 0]
    /\ unread' = {}
    /\ enrichIn' = <<>>
    /\ queueIn' = <<>>
    /\ items' = <<>>
    /\ flushing' = FALSE
    /\ Gate!Crash
    /\ State!StateCrash
    /\ UNCHANGED <<written, clock, blanks>>

\* The process ends and is started again: everything in memory is gone, and
\* the crawler resumes from what Restore() reads, or from the beginning when
\* the file cannot be read, which leaves the file as it is.  Stop() does not
\* drain the channels, so a clean stop is no different.
Crash == /\ crashes < MaxCrashes
         /\ crashes' = crashes + 1
         /\ pos' \in State!RestoreResults
         /\ unread' = {s \in Source : pos'[s] # State!ResumeFrom[s]}
         /\ enrichIn' = <<>>
         /\ queueIn' = <<>>
         /\ items' = <<>>
         /\ flushing' = FALSE
         /\ Gate!Crash
         /\ State!StateCrash
         /\ UNCHANGED <<written, clock, blanks>>

Next == \/ \E s \in Source : WriteLine(s) \/ Crawl(s)
        \/ Enrich \/ QueueStep \/ GateStep \/ StateStep
        \/ NextSecond
        \/ Crash

\* Every goroutine runs, every file gets its turn in the crawl, the queue is
\* polled by its ticker, and file operations on the state end.
Fairness == /\ \A s \in Source : SF_vars(Crawl(s) /\ Reader!CrawlTo(s, written[s]))
            /\ WF_vars(Enrich)
            /\ SF_vars(QueueStep /\ Batches!Receive)
            /\ WF_vars(QueueStep /\ Batches!Poll)
            /\ WF_vars(QueueStep /\ Batches!FinishFlush)
            /\ WF_vars(GateStep)
            /\ WF_vars(StateStep)

Spec == Init /\ [][Next]_vars /\ Fairness

-----------------------------------------------------------------------------
(* Properties.                                                             *)

\* An offset becomes durable only after the events up to it have been dealt
\* with: a restart at any moment, also between the truncation and the writing
\* of the state file, skips no line.  With Conservation of HttpGateway: each
\* line behind which a restart resumes is at the server, in a temporary file,
\* or lost in one of the ways named there.
DurableCovered ==
    \A s \in Source : LinesUpTo(s, State!ResumeFrom[s]) \subseteq settled

\* Without a restart every event goes through the gateway once: what it has
\* dealt with does not come down the pipeline again.
OnceUnlessRestarted ==
    crashes = 0 =>
        settled \cap (EventsOf(enrichIn) \cup EventsOf(queueIn) \cup EventsOf(batch)
                          \cup IF flushing THEN {} ELSE EventsOf(items)) = {}

\* The durable offset of a source grows, or falls to 0 when the state is lost
\* or a container came with no offset.  It falls to an older offset in one case
\* only: Restore() could not read a file that is intact, so the source is read
\* from its beginning, and what it has reached then is stored over the offset
\* that is there.  That happens once for a failed Restore(): the source is not
\* in unread any more.
DurableOffsetsGrow ==
    [][\A s \in Source : \/ State!Restored[s].offset <= State!Restored[s].offset'
                         \/ State!Restored[s].offset' = 0
                         \/ s \in unread /\ s \notin unread']_vars

\* Every line that is written is dealt with in the end, whatever the answers
\* of the server, the failures of the disk and the restarts.
EveryLineSettled ==
    \A s \in Source : \A n \in 1 .. MaxLines :
        (written[s] >= n) ~> (<<s, n>> \in settled)

\* The agent implements its contract.
Contract == INSTANCE Delivery WITH committed <- State!ResumeFrom
ImplementsDelivery == Contract!Spec
=============================================================================
