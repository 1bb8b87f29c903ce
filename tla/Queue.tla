------------------------------- MODULE Queue --------------------------------
(***************************************************************************)
(* The queue goroutine with its two timers (queue.go).  It receives        *)
(* containers from the enricher and nil from a ticker goroutine and from a *)
(* one-shot AfterFunc; after every message it decides, from the time since *)
(* the last flush and from what it holds, whether to flush.                *)
(*                                                                         *)
(* Time is counted in units of the greatest common divisor of the three    *)
(* durations.  A goroutine that can run does so before the next unit       *)
(* begins; only the gateway may take as long as it likes.                  *)
(***************************************************************************)
EXTENDS Naturals, Sequences, SequencesExt

CONSTANTS Container,               \* the containers the crawlers may send
          EventCount,              \* the number of events of a container
          HasCritical,             \* whether one of them is critical
          MaxItems,                \* Queue._maxItems
          MaxSecurityEvents,       \* Queue._maxSecurityEvents
          IdleTimeout,             \* Queue._idleTimeout, in units
          IdleTimeoutForCritical,  \* Queue._idleTimeoutForCritical, in units
          StartDelay,              \* delay of the AfterFunc, in units
          AgeCap                   \* where the model stops counting age

ASSUME QueueAssumption ==
    /\ EventCount \in [Container -> Nat]
    /\ HasCritical \in [Container -> BOOLEAN]
    /\ MaxItems \in Nat \ {0}
    /\ MaxSecurityEvents \in Nat \ {0}
    /\ IdleTimeout \in Nat \ {0}          \* NewTicker panics on 0
    /\ IdleTimeoutForCritical \in Nat
    /\ StartDelay \in Nat
    /\ AgeCap \in Nat
    /\ AgeCap > 2 * IdleTimeout
    /\ AgeCap > IdleTimeout + IdleTimeoutForCritical
    /\ AgeCap > StartDelay

(* An operator whose name has an underscore is the one it is named after    *)
(* with a plausible bug: the properties below must notice it.              *)

VARIABLES queueIn,         \* channel Queue.Input: the enricher's container
          items,           \* Queue._items
          containsCritical,\* Queue._containsCriticalEvent
          firstRun,        \* Queue._firstRun
          age,             \* time since Queue._lastRun
          flushing,        \* the queue is blocked in the send of Flush()
          gateIn,          \* channel Queue.NextChannel = HttpGateway.Input
          tickerClock,     \* time since the ticker last fired
          tickerC,         \* a tick waits in ticker.C (capacity 1)
          tickerPush,      \* the ticker goroutine is blocked pushing nil
          startTimer,      \* time since the AfterFunc was armed
          startPush        \* "waiting", "pushing" its nil, or "done"

queueVars == <<items, containsCritical, firstRun, age, flushing>>
tickerVars == <<tickerClock, tickerC, tickerPush>>
startVars == <<startTimer, startPush>>
vars == <<queueIn, gateIn, queueVars, tickerVars, startVars>>

\* An unbuffered channel: empty, or the value of the one blocked sender.
Channel(ch, Value) == ch \in Seq(Value) /\ Len(ch) <= 1

TotalEvents(its) == FoldLeft(LAMBDA n, c : n + EventCount[c], 0, its)

\* Type correctness: every variable holds a value of its Go type.
TypeOK == /\ Channel(queueIn, Container)
          /\ items \in Seq(Container)
          /\ containsCritical \in BOOLEAN
          /\ firstRun \in BOOLEAN
          /\ age \in 0 .. AgeCap
          /\ flushing \in BOOLEAN
          /\ Channel(gateIn, Seq(Container))
          /\ tickerClock \in 0 .. IdleTimeout
          /\ tickerC \in BOOLEAN
          /\ tickerPush \in BOOLEAN
          /\ startTimer \in 0 .. StartDelay
          /\ startPush \in {"waiting", "pushing", "done"}

Init == /\ queueIn = <<>>
        /\ items = <<>>
        /\ containsCritical = FALSE
        /\ firstRun = TRUE
        /\ age = 0
        /\ flushing = FALSE
        /\ gateIn = <<>>
        /\ tickerClock = 0
        /\ tickerC = FALSE
        /\ tickerPush = FALSE
        /\ startTimer = 0
        /\ startPush = "waiting"

-----------------------------------------------------------------------------
(* The queue goroutine.                                                    *)

FlushDue_WithoutAge(its, critical) ==
    \/ Len(its) >= MaxItems
    \/ critical /\ age > IdleTimeoutForCritical
    \/ firstRun
    \/ TotalEvents(its) >= MaxSecurityEvents

FlushDue_EventsOffByOne(its, critical) ==
    \/ age > IdleTimeout
    \/ Len(its) >= MaxItems
    \/ critical /\ age > IdleTimeoutForCritical
    \/ firstRun
    \/ TotalEvents(its) > MaxSecurityEvents

FlushDue(its, critical) ==
    \/ age > IdleTimeout
    \/ Len(its) >= MaxItems
    \/ critical /\ age > IdleTimeoutForCritical
    \/ firstRun
    \/ TotalEvents(its) >= MaxSecurityEvents

\* The second half of the loop body, after the message has been looked at.
FlushIfDue(its, critical) ==
    /\ items' = its
    /\ containsCritical' = critical
    /\ \/ /\ FlushDue(its, critical)
          /\ gateIn' = <<its>>
          /\ flushing' = TRUE
       \/ /\ ~FlushDue(its, critical)
          /\ UNCHANGED <<gateIn, flushing>>
    /\ UNCHANGED <<firstRun, age>>

ReceiveContainer_LastFlagWins ==
    /\ ~flushing
    /\ queueIn # <<>>
    /\ queueIn' = <<>>
    /\ FlushIfDue(Append(items, queueIn[1]), HasCritical[queueIn[1]])
    /\ UNCHANGED <<tickerVars, startVars>>

ReceiveContainer ==
    /\ ~flushing
    /\ queueIn # <<>>
    /\ queueIn' = <<>>
    /\ FlushIfDue(Append(items, queueIn[1]),
                  containsCritical \/ HasCritical[queueIn[1]])
    /\ UNCHANGED <<tickerVars, startVars>>

ReceiveTick_NilSkipped ==
    /\ ~flushing
    /\ tickerPush
    /\ tickerPush' = FALSE
    /\ UNCHANGED <<queueIn, gateIn, queueVars, tickerClock, tickerC, startVars>>

ReceiveTick == /\ ~flushing
               /\ tickerPush
               /\ tickerPush' = FALSE
               /\ FlushIfDue(items, containsCritical)
               /\ UNCHANGED <<queueIn, tickerClock, tickerC, startVars>>

ReceiveStart == /\ ~flushing
                /\ startPush = "pushing"
                /\ startPush' = "done"
                /\ FlushIfDue(items, containsCritical)
                /\ UNCHANGED <<queueIn, tickerVars, startTimer>>

FinishFlush_KeepsItems ==
    /\ flushing
    /\ gateIn = <<>>
    /\ containsCritical' = FALSE
    /\ age' = 0
    /\ firstRun' = FALSE
    /\ flushing' = FALSE
    /\ UNCHANGED <<queueIn, gateIn, items, tickerVars, startVars>>

\* The send in Flush() returns: only now are the items dropped and is the
\* time of the flush taken.
FinishFlush == /\ flushing
               /\ gateIn = <<>>
               /\ items' = <<>>
               /\ containsCritical' = FALSE
               /\ age' = 0
               /\ firstRun' = FALSE
               /\ flushing' = FALSE
               /\ UNCHANGED <<queueIn, gateIn, tickerVars, startVars>>

-----------------------------------------------------------------------------
(* The timers and their goroutines.                                        *)

\* The runtime delivers a tick; one that finds ticker.C full is dropped.
TickerFires == /\ tickerClock = IdleTimeout
               /\ tickerClock' = 0
               /\ tickerC' = TRUE
               /\ UNCHANGED <<queueIn, gateIn, queueVars, tickerPush, startVars>>

TickerPushes == /\ tickerC
                /\ ~tickerPush
                /\ tickerC' = FALSE
                /\ tickerPush' = TRUE
                /\ UNCHANGED <<queueIn, gateIn, queueVars, tickerClock, startVars>>

StartFires_NoPush ==
    /\ startTimer = StartDelay
    /\ startPush = "waiting"
    /\ startPush' = "done"
    /\ UNCHANGED <<queueIn, gateIn, queueVars, tickerVars, startTimer>>

StartFires == /\ startTimer = StartDelay
              /\ startPush = "waiting"
              /\ startPush' = "pushing"
              /\ UNCHANGED <<queueIn, gateIn, queueVars, tickerVars, startTimer>>

-----------------------------------------------------------------------------
(* The goroutines at the two ends.                                         *)

Arrive_Buffered(c) ==
    /\ Len(queueIn) < 2
    /\ queueIn' = Append(queueIn, c)
    /\ UNCHANGED <<gateIn, queueVars, tickerVars, startVars>>

Arrive(c) == /\ queueIn = <<>>
             /\ queueIn' = <<c>>
             /\ UNCHANGED <<gateIn, queueVars, tickerVars, startVars>>

TakeBatch == /\ gateIn # <<>>
             /\ gateIn' = <<>>
             /\ UNCHANGED <<queueIn, queueVars, tickerVars, startVars>>

-----------------------------------------------------------------------------
(* Time.                                                                   *)

MessageWaiting == queueIn # <<>> \/ tickerPush \/ startPush = "pushing"

Runnable == \/ ~flushing /\ MessageWaiting
            \/ flushing /\ gateIn = <<>>
            \/ tickerClock = IdleTimeout
            \/ tickerC /\ ~tickerPush
            \/ startTimer = StartDelay /\ startPush = "waiting"

Tick == /\ ~Runnable
        /\ age' = IF age < AgeCap THEN age + 1 ELSE age
        /\ tickerClock' = tickerClock + 1
        /\ startTimer' = IF startTimer < StartDelay THEN startTimer + 1
                                                    ELSE startTimer
        /\ UNCHANGED <<queueIn, gateIn, items, containsCritical, firstRun,
                       flushing, tickerC, tickerPush, startPush>>

-----------------------------------------------------------------------------
Next == \/ ReceiveContainer \/ ReceiveTick \/ ReceiveStart \/ FinishFlush
        \/ TickerFires \/ TickerPushes \/ StartFires
        \/ \E c \in Container : Arrive(c)
        \/ TakeBatch
        \/ Tick

\* The goroutines are scheduled, time passes and the gateway, whose requests
\* time out, comes back for the next batch.  The three messages race for one
\* channel whose senders Go serves first come, first served.
Fairness == /\ SF_vars(ReceiveContainer)
            /\ SF_vars(ReceiveTick)
            /\ SF_vars(ReceiveStart)
            /\ WF_vars(FinishFlush)
            /\ WF_vars(TickerFires)
            /\ WF_vars(TickerPushes)
            /\ WF_vars(StartFires)
            /\ WF_vars(TakeBatch)
            /\ WF_vars(Tick)

Spec == Init /\ [][Next]_vars /\ Fairness

-----------------------------------------------------------------------------
(* Properties.                                                             *)

\* A container that the queue holds and is not handing over waits less than
\* twice the idle timeout: the ticker comes by in every period and the check
\* lets at most one of its visits pass (lines 44-50 and 78).
OrdinaryLatency ==
    ~flushing /\ ~Runnable /\ items # <<>> =>
        age <= tickerClock + IdleTimeout

\* A critical event is handed over "faster as usual" (line 64): when the
\* ticker comes by it has waited for at most IdleTimeoutForCritical.
CriticalLatency ==
    (~flushing /\ ~Runnable /\ \E i \in 1 .. Len(items) : HasCritical[items[i]]) =>
        age <= tickerClock + IdleTimeoutForCritical

\* The backlog the queue decides to keep reaches neither of its limits, on
\* every path through the chain of conditions (lines 78-99).
BoundedBacklog ==
    ~flushing => /\ ~ (Len(items) >= MaxItems)
                 /\ items # <<>> => ~ (TotalEvents(items) >= MaxSecurityEvents)

\* After a start nothing is held back: the first message, be it a container
\* or the nil of the AfterFunc, is passed on and at the latest after
\* StartDelay (lines 52-56 and 87).
FirstMessageAtOnce ==
    firstRun /\ ~flushing => /\ items = <<>>
                             /\ ~Runnable => age <= StartDelay

\* Whatever waits in the queue is handed over in the end, however the timers,
\* the dropped ticks and a slow gateway interleave.
ItemsLeave == (items # <<>>) ~> (items = <<>>)

\* The queue with its timers implements the abstract queue.
Abstract == INSTANCE BatchQueue
RefinesBatchQueue == Abstract!Spec

=============================================================================
