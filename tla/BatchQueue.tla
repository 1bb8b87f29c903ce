----------------------------- MODULE BatchQueue -----------------------------
(***************************************************************************)
(* What the queue of the agent promises, without its clocks: containers    *)
(* are collected in their order and handed to the gateway in batches, a    *)
(* batch leaves at the latest when it holds MaxItems containers, and what  *)
(* is being handed over stays in the queue until the gateway has taken it. *)
(* Queue.tla is the detailed specification that implements this one.       *)
(***************************************************************************)
EXTENDS Naturals, Sequences

CONSTANTS Container,   \* the containers the crawlers may send
          MaxItems     \* a batch is flushed as soon as it has this many

(* An operator whose name has an underscore is the one it is named after    *)
(* with a plausible bug: the properties must notice it.                    *)

VARIABLES queueIn,     \* channel Queue.Input, without the nil pushes
          items,       \* Queue._items
          flushing,    \* the queue is blocked in the send of Flush()
          gateIn       \* channel Queue.NextChannel = HttpGateway.Input

queueVars == <<items, flushing>>
vars == <<queueIn, items, flushing, gateIn>>

\* An unbuffered channel: empty, or the value of the one blocked sender.
Channel(ch, Value) == ch \in Seq(Value) /\ Len(ch) <= 1

TypeOK == /\ Channel(queueIn, Container)
          /\ items \in Seq(Container)
          /\ flushing \in BOOLEAN
          /\ Channel(gateIn, Seq(Container))

Init == /\ queueIn = <<>>
        /\ items = <<>>
        /\ flushing = FALSE
        /\ gateIn = <<>>

StartFlush(batch) == /\ gateIn' = <<batch>>
                     /\ flushing' = TRUE

KeepCollecting(batch) == /\ Len(batch) < MaxItems
                         /\ UNCHANGED <<flushing, gateIn>>

\* A container arrives; time or size may make it the last of its batch.
Receive == /\ ~flushing
           /\ queueIn # <<>>
           /\ items' = Append(items, queueIn[1])
           /\ queueIn' = <<>>
           /\ StartFlush(items') \/ KeepCollecting(items')

\* A timer wakes the queue up and it flushes what it has, be it nothing.
Poll == /\ ~flushing
        /\ StartFlush(items)
        /\ UNCHANGED <<queueIn, items>>

FinishFlush_KeepsItems ==
    /\ flushing
    /\ gateIn = <<>>
    /\ flushing' = FALSE
    /\ UNCHANGED <<queueIn, items, gateIn>>

\* The gateway has received the batch, so the send returns.
FinishFlush == /\ flushing
               /\ gateIn = <<>>
               /\ items' = <<>>
               /\ flushing' = FALSE
               /\ UNCHANGED <<queueIn, gateIn>>

Next == Receive \/ Poll \/ FinishFlush

-----------------------------------------------------------------------------
(* The goroutines at the two ends.                                         *)

Arrive(c) == /\ queueIn = <<>>
             /\ queueIn' = <<c>>
             /\ UNCHANGED <<items, flushing, gateIn>>

TakeBatch == /\ gateIn # <<>>
             /\ gateIn' = <<>>
             /\ UNCHANGED <<queueIn, items, flushing>>

NextWithPeers == Next \/ TakeBatch \/ \E c \in Container : Arrive(c)

Fairness == /\ SF_vars(Receive)
            /\ WF_vars(Poll)
            /\ WF_vars(FinishFlush)
            /\ WF_vars(TakeBatch)

Spec == Init /\ [][NextWithPeers]_vars /\ Fairness
=============================================================================
