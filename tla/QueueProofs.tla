---------------------------- MODULE QueueProofs -----------------------------
(***************************************************************************)
(* Proofs about the queue: its type correctness, its bounds on waiting and *)
(* on the backlog, and that each of its steps is one of the abstract queue *)
(* or changes nothing that the abstract queue has.                         *)
(***************************************************************************)
EXTENDS Queue, TLAPS

\* A channel is empty or holds the value of one sender.
LEMMA ChannelValue == ASSUME NEW S
                      PROVE  Channel(<<>>, S) /\ \A x \in S : Channel(<<x>>, S)
<1>1. Channel(<<>>, S)
  BY DEF Channel
<1>2. ASSUME NEW x \in S PROVE Channel(<<x>>, S)
  BY DEF Channel
<1> QED
  BY <1>1, <1>2

\* The heart of a received message: whatever the decision, the result is a
\* well-typed queue, and the items are either being flushed or not due.
LEMMA FlushIfDueType ==
    ASSUME TypeOK, ~flushing, NEW its \in Seq(Container), NEW critical \in BOOLEAN,
           FlushIfDue(its, critical)
    PROVE  /\ items' \in Seq(Container)
           /\ containsCritical' \in BOOLEAN
           /\ flushing' \in BOOLEAN
           /\ Channel(gateIn', Seq(Container))
           /\ firstRun' = firstRun
           /\ age' = age
<1>1. Channel(<<its>>, Seq(Container))
  BY ChannelValue
<1> QED
  BY <1>1 DEF FlushIfDue, TypeOK

\* Every variable always holds a value of its type.
LEMMA TypeStep == TypeOK /\ [Next]_vars => TypeOK'
<1> SUFFICES ASSUME TypeOK, [Next]_vars PROVE TypeOK'
  OBVIOUS
<1>1. CASE ReceiveContainer
  <2>1. /\ queueIn[1] \in Container
        /\ Append(items, queueIn[1]) \in Seq(Container)
        /\ HasCritical[queueIn[1]] \in BOOLEAN
    BY <1>1, QueueAssumption DEF ReceiveContainer, TypeOK, Channel, QueueAssumption
  <2>2. (containsCritical \/ HasCritical[queueIn[1]]) \in BOOLEAN
    OBVIOUS
  <2>3. FlushIfDue(Append(items, queueIn[1]), containsCritical \/ HasCritical[queueIn[1]])
    BY <1>1 DEF ReceiveContainer
  <2>4. /\ items' \in Seq(Container)
        /\ containsCritical' \in BOOLEAN
        /\ flushing' \in BOOLEAN
        /\ Channel(gateIn', Seq(Container))
        /\ firstRun' = firstRun
        /\ age' = age
    BY <1>1, <2>1, <2>2, <2>3, FlushIfDueType DEF ReceiveContainer
  <2> QED
    BY <1>1, <2>4, ChannelValue DEF ReceiveContainer, TypeOK, tickerVars, startVars
<1>2. CASE ReceiveTick
  <2>1. FlushIfDue(items, containsCritical)
    BY <1>2 DEF ReceiveTick
  <2> QED
    BY <1>2, <2>1, FlushIfDueType DEF ReceiveTick, TypeOK, Channel, startVars
<1>3. CASE ReceiveStart
  <2>1. FlushIfDue(items, containsCritical)
    BY <1>3 DEF ReceiveStart
  <2> QED
    BY <1>3, <2>1, FlushIfDueType DEF ReceiveStart, TypeOK, Channel, tickerVars
<1>4. CASE FinishFlush
  <2>1. items' \in Seq(Container)
    BY <1>4 DEF FinishFlush
  <2>2. Channel(gateIn', Seq(Container)) /\ Channel(queueIn', Container)
    BY <1>4 DEF FinishFlush, TypeOK
  <2>3. age' \in 0 .. AgeCap
    BY <1>4, QueueAssumption DEF FinishFlush, QueueAssumption
  <2> QED
    BY <1>4, <2>1, <2>2, <2>3 DEF FinishFlush, TypeOK, tickerVars, startVars
<1>5. CASE TickerFires
  BY <1>5, QueueAssumption
     DEF TickerFires, TypeOK, Channel, queueVars, startVars, QueueAssumption
<1>6. CASE TickerPushes
  BY <1>6 DEF TickerPushes, TypeOK, Channel, queueVars, startVars
<1>7. CASE StartFires
  BY <1>7 DEF StartFires, TypeOK, Channel, queueVars, tickerVars
<1>8. ASSUME NEW c \in Container, Arrive(c) PROVE TypeOK'
  BY <1>8 DEF Arrive, TypeOK, Channel, queueVars, tickerVars, startVars
<1>9. CASE TakeBatch
  BY <1>9 DEF TakeBatch, TypeOK, Channel, queueVars, tickerVars, startVars
<1>10. CASE Tick
  BY <1>10, QueueAssumption DEF Tick, Runnable, TypeOK, Channel, QueueAssumption
<1>11. CASE UNCHANGED vars
  BY <1>11 DEF vars, TypeOK, Channel, queueVars, tickerVars, startVars
<1> QED
  BY <1>1, <1>2, <1>3, <1>4, <1>5, <1>6, <1>7, <1>8, <1>9, <1>10, <1>11 DEF Next

LEMMA TypeInit == Init => TypeOK
<1> SUFFICES ASSUME Init PROVE TypeOK
  OBVIOUS
<1>1. Channel(queueIn, Container) /\ Channel(gateIn, Seq(Container))
  BY ChannelValue DEF Init
<1>2. items \in Seq(Container)
  BY DEF Init
<1>3. age \in 0 .. AgeCap /\ tickerClock \in 0 .. IdleTimeout /\ startTimer \in 0 .. StartDelay
  BY QueueAssumption DEF Init, QueueAssumption
<1> QED
  BY <1>1, <1>2, <1>3 DEF Init, TypeOK

\* The variables of the queue and its timers keep their types.
THEOREM TypeCorrect == Spec => []TypeOK
BY TypeInit, TypeStep, PTL DEF Spec

-----------------------------------------------------------------------------
(* The bounds.  The ticker's visit may be under way: its tick in ticker.C, *)
(* or its nil in the send.  In that state time stands still unless the     *)
(* queue is flushing, so the bounds below count it as a full period; this  *)
(* is what makes them inductive.                                           *)

SinceVisit == IF tickerC \/ tickerPush THEN IdleTimeout ELSE tickerClock

HoldsCritical == \E i \in 1 .. Len(items) : HasCritical[items[i]]

OrdinaryBound == ~flushing /\ items # <<>> => age <= SinceVisit + IdleTimeout

CriticalBound ==
    ~flushing => /\ containsCritical => age <= SinceVisit + IdleTimeoutForCritical
                 /\ HoldsCritical => containsCritical

FirstBound == ~flushing /\ firstRun => /\ items = <<>>
                                      /\ age <= startTimer
                                      /\ startPush # "done"

BoundsInv == OrdinaryBound /\ CriticalBound /\ FirstBound /\ BoundedBacklog

\* The period of the ticker bounds SinceVisit.
LEMMA SinceVisitType == TypeOK => SinceVisit \in Nat /\ SinceVisit <= IdleTimeout
BY QueueAssumption DEF TypeOK, SinceVisit, QueueAssumption

\* After a message either a flush has begun or none of the reasons for one
\* holds, and then the bounds are met with room to spare.
LEMMA ReceivedBounds ==
    ASSUME TypeOK, TypeOK', NEW its \in Seq(Container), NEW critical \in BOOLEAN,
           FlushIfDue(its, critical), ~flushing',
           (\E i \in 1 .. Len(its) : HasCritical[its[i]]) => critical
    PROVE  BoundsInv'
<1>1. ~FlushDue(its, critical)
  BY DEF FlushIfDue
<1>2. items' = its /\ firstRun' = firstRun
  BY DEF FlushIfDue
<1>3. containsCritical' = critical
  BY DEF FlushIfDue
<1>4. age' = age
  BY DEF FlushIfDue
<1>5. SinceVisit' \in Nat
  BY QueueAssumption DEF TypeOK, SinceVisit, QueueAssumption
<1>6. age \in Nat /\ IdleTimeout \in Nat /\ IdleTimeoutForCritical \in Nat
  BY QueueAssumption DEF TypeOK, QueueAssumption
<1>7. OrdinaryBound'
  <2>1. age <= IdleTimeout
    BY <1>1, <1>6 DEF FlushDue
  <2>2. age' <= SinceVisit' + IdleTimeout
    BY <1>4, <1>5, <1>6, <2>1
  <2> QED
    BY <2>2 DEF OrdinaryBound
<1>8. CriticalBound'
  <2>1. critical => age <= IdleTimeoutForCritical
    BY <1>1, <1>6 DEF FlushDue
  <2>2. critical => age' <= SinceVisit' + IdleTimeoutForCritical
    BY <1>4, <1>5, <1>6, <2>1
  <2>3. HoldsCritical' <=> \E i \in 1 .. Len(its) : HasCritical[its[i]]
    BY <1>2 DEF HoldsCritical
  <2> QED
    BY <1>3, <2>2, <2>3, Zenon DEF CriticalBound
<1>9. FirstBound'
  BY <1>1, <1>2 DEF FirstBound, FlushDue
<1>10. BoundedBacklog'
  BY <1>1, <1>2 DEF BoundedBacklog, FlushDue
<1> QED
  BY <1>7, <1>8, <1>9, <1>10 DEF BoundsInv

LEMMA BoundsInit == Init => BoundsInv
<1> SUFFICES ASSUME Init PROVE BoundsInv
  OBVIOUS
<1>1. ~HoldsCritical
  BY DEF Init, HoldsCritical
<1>2. startTimer = 0 /\ age = 0 /\ startPush = "waiting" /\ items = <<>>
  BY DEF Init
<1>3. BoundedBacklog
  BY <1>2, QueueAssumption DEF BoundedBacklog, QueueAssumption
<1> QED
  BY <1>1, <1>2, <1>3 DEF Init, BoundsInv, OrdinaryBound, CriticalBound, FirstBound

LEMMA BoundsStep == TypeOK /\ TypeOK' /\ BoundsInv /\ [Next]_vars => BoundsInv'
<1> SUFFICES ASSUME TypeOK, TypeOK', BoundsInv, [Next]_vars PROVE BoundsInv'
  OBVIOUS
<1>0. /\ age \in Nat /\ startTimer \in Nat /\ SinceVisit \in Nat
      /\ IdleTimeout \in Nat /\ IdleTimeoutForCritical \in Nat
  BY QueueAssumption DEF TypeOK, SinceVisit, QueueAssumption
<1>1. CASE flushing'
  BY <1>1 DEF BoundsInv, OrdinaryBound, CriticalBound, FirstBound, BoundedBacklog
<1>2. CASE ReceiveContainer /\ ~flushing'
  <2> DEFINE its == Append(items, queueIn[1])
             critical == containsCritical \/ HasCritical[queueIn[1]]
  <2>1. /\ ~flushing
        /\ FlushIfDue(its, critical)
    BY <1>2 DEF ReceiveContainer
  <2>2. queueIn[1] \in Container /\ its \in Seq(Container) /\ Len(its) = Len(items) + 1
    BY <1>2 DEF ReceiveContainer, TypeOK, Channel
  <2>3. ASSUME NEW i \in 1 .. Len(its), HasCritical[its[i]] PROVE critical
    <3>1. CASE i \in 1 .. Len(items)
      <4>1. its[i] = items[i]
        BY <3>1 DEF TypeOK
      <4>2. HoldsCritical
        BY <2>3, <3>1, <4>1 DEF HoldsCritical
      <4> QED
        BY <2>1, <4>2, Zenon DEF BoundsInv, CriticalBound
    <3>2. CASE i = Len(items) + 1
      <4>1. its[i] = queueIn[1]
        BY <3>2 DEF TypeOK
      <4> QED
        BY <2>3, <4>1
    <3> QED
      BY <2>2, <3>1, <3>2 DEF TypeOK
  <2> HIDE DEF its, critical
  <2>4. critical \in BOOLEAN
    BY DEF critical
  <2> QED
    BY <1>2, <2>1, <2>2, <2>3, <2>4, ReceivedBounds
<1>3. CASE (ReceiveTick \/ ReceiveStart) /\ ~flushing'
  <2>1. ~flushing /\ FlushIfDue(items, containsCritical)
    BY <1>3 DEF ReceiveTick, ReceiveStart
  <2>2. HoldsCritical => containsCritical
    BY <2>1 DEF BoundsInv, CriticalBound
  <2> QED
    BY <1>3, <2>1, <2>2, ReceivedBounds DEF TypeOK, HoldsCritical
<1>4. CASE FinishFlush
  <2>1. items' = <<>> /\ ~containsCritical' /\ ~firstRun'
    BY <1>4 DEF FinishFlush
  <2>2. ~HoldsCritical'
    BY <2>1 DEF HoldsCritical
  <2>3. BoundedBacklog'
    BY <2>1, QueueAssumption DEF BoundedBacklog, QueueAssumption
  <2> QED
    BY <2>1, <2>2, <2>3 DEF BoundsInv, OrdinaryBound, CriticalBound, FirstBound
<1>5. CASE UNCHANGED <<items, containsCritical, firstRun, age, flushing, startTimer>>
           /\ SinceVisit' = SinceVisit /\ (startPush' # "done" \/ startPush' = startPush)
  <2>1. HoldsCritical' = HoldsCritical
    BY <1>5 DEF HoldsCritical
  <2>2. BoundedBacklog' = BoundedBacklog
    BY <1>5 DEF BoundedBacklog
  <2> QED
    BY <1>5, <2>1, <2>2 DEF BoundsInv, OrdinaryBound, CriticalBound, FirstBound
<1>6. CASE TickerFires
  BY <1>5, <1>6 DEF TickerFires, SinceVisit, queueVars, startVars
<1>7. CASE TickerPushes
  BY <1>5, <1>7 DEF TickerPushes, SinceVisit, queueVars, startVars
<1>8. CASE StartFires
  BY <1>5, <1>8 DEF StartFires, SinceVisit, queueVars, tickerVars
<1>9. CASE (\E c \in Container : Arrive(c)) \/ TakeBatch
  BY <1>5, <1>9 DEF Arrive, TakeBatch, SinceVisit, queueVars, tickerVars, startVars
<1>10. CASE Tick /\ ~flushing'
  <2>1. /\ ~flushing /\ ~tickerC /\ ~tickerPush
        /\ startPush # "pushing"
        /\ ~ (startTimer = StartDelay /\ startPush = "waiting")
    BY <1>10 DEF Tick, Runnable, MessageWaiting
  <2>2. SinceVisit' = SinceVisit + 1
    BY <1>10, <2>1 DEF Tick, SinceVisit
  <2>3. age' <= age + 1 /\ age' \in Nat
    BY <1>0, <1>10 DEF Tick, TypeOK
  <2>4. items' = items /\ HoldsCritical' = HoldsCritical /\ BoundedBacklog' = BoundedBacklog
    BY <1>10 DEF Tick, HoldsCritical, BoundedBacklog
  <2>5. OrdinaryBound'
    BY <1>0, <1>10, <2>1, <2>2, <2>3 DEF BoundsInv, OrdinaryBound, Tick
  <2>6. CriticalBound'
    BY <1>0, <1>10, <2>1, <2>2, <2>3, <2>4 DEF BoundsInv, CriticalBound, Tick
  <2>7. FirstBound'
    <3>1. SUFFICES ASSUME firstRun' PROVE FirstBound'
      BY DEF FirstBound
    <3>2. items = <<>> /\ age <= startTimer /\ startPush = "waiting"
      BY <1>10, <2>1, <3>1 DEF BoundsInv, FirstBound, Tick, TypeOK
    <3>3. startTimer' = startTimer + 1
      BY <1>10, <2>1, <3>2, QueueAssumption DEF Tick, TypeOK, QueueAssumption
    <3> QED
      BY <1>0, <1>10, <2>3, <3>2, <3>3 DEF FirstBound, Tick
  <2> QED
    BY <2>1, <2>4, <2>5, <2>6, <2>7 DEF BoundsInv
<1>11. CASE UNCHANGED vars
  BY <1>5, <1>11 DEF vars, SinceVisit, queueVars, tickerVars, startVars
<1> QED
  BY <1>1, <1>2, <1>3, <1>4, <1>6, <1>7, <1>8, <1>9, <1>10, <1>11 DEF Next

LEMMA BoundsAlways == Spec => [](TypeOK /\ BoundsInv)
<1>1. Init => TypeOK /\ BoundsInv
  BY TypeInit, BoundsInit
<1>2. (TypeOK /\ BoundsInv) /\ [Next]_vars => (TypeOK /\ BoundsInv)'
  BY TypeStep, BoundsStep
<1> QED
  BY <1>1, <1>2, PTL DEF Spec

\* Nothing is pending when no goroutine can run, so the bound counts only
\* the time since the last tick.
LEMMA QuietTicker == TypeOK /\ ~flushing /\ ~Runnable => SinceVisit = tickerClock
BY DEF Runnable, MessageWaiting, SinceVisit

\* A container that is not being handed over waits for less than two idle
\* timeouts, for any durations (queue.go:44-50 and 78).
THEOREM OrdinaryLatencyHolds == Spec => []OrdinaryLatency
<1>1. TypeOK /\ BoundsInv => OrdinaryLatency
  BY QuietTicker DEF BoundsInv, OrdinaryBound, OrdinaryLatency
<1> QED
  BY <1>1, BoundsAlways, PTL

\* A critical event does not wait for longer than the critical timeout and
\* the next visit of the ticker (queue.go:64-73 and 84).
THEOREM CriticalLatencyHolds == Spec => []CriticalLatency
<1>1. TypeOK /\ BoundsInv => CriticalLatency
  <2> SUFFICES ASSUME TypeOK, BoundsInv, ~flushing, ~Runnable,
                      \E i \in 1 .. Len(items) : HasCritical[items[i]]
               PROVE  age <= tickerClock + IdleTimeoutForCritical
    BY DEF CriticalLatency
  <2>1. HoldsCritical
    BY DEF HoldsCritical
  <2>2. age <= SinceVisit + IdleTimeoutForCritical
    BY <2>1 DEF BoundsInv, CriticalBound
  <2> QED
    BY <2>2, QuietTicker
<1> QED
  BY <1>1, BoundsAlways, PTL

\* Whatever the queue keeps is below both of its limits (queue.go:78-99).
THEOREM BacklogBounded == Spec => []BoundedBacklog
<1>1. TypeOK /\ BoundsInv => BoundedBacklog
  BY DEF BoundsInv
<1> QED
  BY <1>1, BoundsAlways, PTL

\* After a start the first message is passed on at once, and there is one
\* at the latest after StartDelay (queue.go:52-56 and 87).
THEOREM FirstMessageHolds == Spec => []FirstMessageAtOnce
<1>1. TypeOK /\ BoundsInv => FirstMessageAtOnce
  <2> SUFFICES ASSUME TypeOK, BoundsInv, firstRun, ~flushing
               PROVE  items = <<>> /\ age <= StartDelay
    BY DEF FirstMessageAtOnce
  <2>1. items = <<>> /\ age <= startTimer
    BY DEF BoundsInv, FirstBound
  <2>2. age \in Nat /\ startTimer \in Nat /\ startTimer <= StartDelay /\ StartDelay \in Nat
    BY QueueAssumption DEF TypeOK, QueueAssumption
  <2> QED
    BY <2>1, <2>2
<1> QED
  BY <1>1, BoundsAlways, PTL

-----------------------------------------------------------------------------
(* The refinement of BatchQueue, without its fairness.                     *)

\* A message is a Receive or a Poll of the abstract queue, or a nil that
\* changes nothing.
LEMMA AbstractStep == TypeOK /\ [Next]_vars => [Abstract!NextWithPeers]_(Abstract!vars)
<1> SUFFICES ASSUME TypeOK, [Next]_vars
             PROVE  Abstract!NextWithPeers \/ UNCHANGED Abstract!vars
  OBVIOUS
<1>1. CASE ReceiveContainer
  <2> DEFINE its == Append(items, queueIn[1])
  <2>1. its \in Seq(Container)
    BY <1>1 DEF ReceiveContainer, TypeOK, Channel
  <2>2. Len(its) \in Nat /\ MaxItems \in Nat
    BY <2>1, QueueAssumption DEF QueueAssumption
  <2>3. items' = its
    BY <1>1 DEF ReceiveContainer, FlushIfDue
  <2>4. \/ gateIn' = <<its>> /\ flushing' = TRUE
        \/ ~ (Len(its) >= MaxItems) /\ UNCHANGED <<flushing, gateIn>>
    BY <1>1 DEF ReceiveContainer, FlushIfDue, FlushDue
  <2>5. Abstract!StartFlush(items') \/ Abstract!KeepCollecting(items')
    BY <2>2, <2>3, <2>4 DEF Abstract!StartFlush, Abstract!KeepCollecting
  <2>6. Abstract!Receive
    BY <1>1, <2>3, <2>5 DEF ReceiveContainer, Abstract!Receive
  <2> QED
    BY <2>6 DEF Abstract!Next, Abstract!NextWithPeers
<1>2. CASE ReceiveTick \/ ReceiveStart
  <2>1. /\ ~flushing
        /\ UNCHANGED <<queueIn, items>>
        /\ \/ gateIn' = <<items>> /\ flushing' = TRUE
           \/ UNCHANGED <<gateIn, flushing>>
    BY <1>2 DEF ReceiveTick, ReceiveStart, FlushIfDue
  <2>2. Abstract!Poll \/ UNCHANGED Abstract!vars
    BY <2>1 DEF Abstract!Poll, Abstract!StartFlush, Abstract!vars
  <2> QED
    BY <2>2 DEF Abstract!Next, Abstract!NextWithPeers
<1>3. CASE FinishFlush
  BY <1>3 DEF FinishFlush, Abstract!FinishFlush, Abstract!Next, Abstract!NextWithPeers
<1>4. CASE TickerFires \/ TickerPushes \/ StartFires \/ Tick
  BY <1>4 DEF TickerFires, TickerPushes, StartFires, Tick, queueVars, Abstract!vars
<1>5. ASSUME NEW c \in Container, Arrive(c) PROVE Abstract!NextWithPeers
  BY <1>5 DEF Arrive, queueVars, Abstract!Arrive, Abstract!NextWithPeers
<1>6. CASE TakeBatch
  BY <1>6 DEF TakeBatch, queueVars, Abstract!TakeBatch, Abstract!NextWithPeers
<1>7. CASE UNCHANGED vars
  BY <1>7 DEF vars, queueVars, Abstract!vars
<1> QED
  BY <1>1, <1>2, <1>3, <1>4, <1>5, <1>6, <1>7 DEF Next

\* The steps of the queue with its clocks are those of the abstract queue,
\* which the composition in Agent.tla uses in its place.
THEOREM QueueImplementsBatchQueue ==
    Spec => Abstract!Init /\ [][Abstract!NextWithPeers]_(Abstract!vars)
<1>1. Init => Abstract!Init
  BY DEF Init, Abstract!Init
<1> QED
  BY <1>1, AbstractStep, TypeCorrect, PTL DEF Spec
=============================================================================
