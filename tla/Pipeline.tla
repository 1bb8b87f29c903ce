------------------------------ MODULE Pipeline ------------------------------
(***************************************************************************)
(* What travels through the agent.  A crawler reads lines of a source,     *)
(* turns them into security events and sends them downstream as a          *)
(* container together with the offset up to which it has read; the queue   *)
(* groups containers into batches.                                         *)
(*                                                                         *)
(* Abstraction: a line that matches a rule is identified by its source and *)
(* its number, so a security event is <<source, line>> and an offset is a  *)
(* number of lines.                                                        *)
(***************************************************************************)
EXTENDS Naturals, Sequences

CONSTANT Source        \* identities of the observed files and event logs

Event == Source \X (Nat \ {0})

Container == [src : Source, offset : Nat, events : SUBSET Event]

Batch == Seq(Container)

LinesUpTo(s, n) == {s} \X (1 .. n)

EventsOf(batch) == UNION {batch[i].events : i \in 1 .. Len(batch)}

(***************************************************************************)
(* The goroutines are connected by unbuffered channels.  A channel holds   *)
(* at most the one value whose sender is blocked in the send.              *)
(***************************************************************************)
Channel(ch, Value) == ch \in Seq(Value) /\ Len(ch) <= 1
=============================================================================
