------------------------- MODULE HttpGatewayProofs --------------------------
(***************************************************************************)
(* Proofs about the gateway: its type correctness, that it loses no event  *)
(* but in the ways the code has, and that it implements Gateway, for all   *)
(* batches, answers, failures and restarts.                                *)
(***************************************************************************)
EXTENDS HttpGateway, TLAPS

\* A channel is empty or holds the value of one sender.
LEMMA ChannelValue ==
    ASSUME NEW Value
    PROVE  /\ Channel(<<>>, Value)
           /\ \A v \in Value : Channel(<<v>>, Value)
           /\ \A ch : Channel(ch, Value) /\ ch # <<>> => ch[1] \in Value
<1>1. Channel(<<>>, Value)
  BY DEF Channel
<1>2. ASSUME NEW v \in Value PROVE Channel(<<v>>, Value)
  BY DEF Channel
<1>3. ASSUME NEW ch, Channel(ch, Value), ch # <<>> PROVE ch[1] \in Value
  BY <1>3 DEF Channel
<1> QED
  BY <1>1, <1>2, <1>3

LEMMA BatchEvents == ASSUME NEW b \in Batch PROVE EventsOf(b) \in SUBSET Event
<1>1. ASSUME NEW i \in 1 .. Len(b) PROVE b[i].events \subseteq Event
  <2>1. b[i] \in Container
    BY DEF Batch
  <2> QED
    BY <2>1 DEF Container
<1> QED
  BY <1>1 DEF EventsOf

LEMMA EmptyBatch == <<>> \in Batch /\ EventsOf(<<>>) = {}
BY DEF Batch, EventsOf

-----------------------------------------------------------------------------
(* The invariant.                                                          *)

\* A file that is being written has been opened, and holds nothing yet.
FileIsOpen == gpc = "write" => tmp \in DOMAIN netFiles /\ netFiles[tmp] = {}

\* What is still to be resent is there: only the gateway removes files.
ResendIsThere == resend \subseteq DOMAIN netFiles

Shape == TypeOK /\ FileIsOpen /\ ResendIsThere

\* The disk after a step that changes at most one file.
LEMMA RemovedFile ==
    ASSUME NEW f \in DOMAIN netFiles, netFiles' = Without(f)
    PROVE  OnDisk \subseteq OnDisk' \cup netFiles[f]
<1>1. ASSUME NEW g \in DOMAIN netFiles, g # f PROVE netFiles[g] \subseteq OnDisk'
  BY <1>1 DEF Without, OnDisk
<1> QED
  BY <1>1 DEF OnDisk

LEMMA OpenedFile ==
    ASSUME netFiles' = [f \in DOMAIN netFiles \cup {clock} |->
                          IF f = clock THEN {} ELSE netFiles[f]]
    PROVE  OnDisk \subseteq OnDisk' \cup (IF clock \in DOMAIN netFiles THEN netFiles[clock] ELSE {})
<1>1. ASSUME NEW g \in DOMAIN netFiles, g # clock PROVE netFiles[g] \subseteq OnDisk'
  BY <1>1 DEF OnDisk
<1> QED
  BY <1>1 DEF OnDisk

LEMMA WrittenFile ==
    ASSUME NEW events, tmp \in DOMAIN netFiles, netFiles[tmp] = {},
           netFiles' = [netFiles EXCEPT ![tmp] = events]
    PROVE  OnDisk \cup events \subseteq OnDisk'
<1>1. ASSUME NEW g \in DOMAIN netFiles PROVE netFiles[g] \subseteq OnDisk'
  BY <1>1 DEF OnDisk
<1>2. events \subseteq OnDisk'
  BY DEF OnDisk
<1> QED
  BY <1>1, <1>2 DEF OnDisk

\* What a step may do to the ledger: what leaves the disk has gone to the
\* server or is lost in one of the known ways, and so has, or is on the disk,
\* what is settled.
Booked == accepted \cup givenUp \cup discarded \cup overwritten
Kept == /\ Booked \subseteq Booked'
        /\ OnDisk \subseteq OnDisk' \cup Booked'
        /\ settled' \subseteq settled \cup OnDisk' \cup Booked'

LEMMA KeptConserves == ASSUME Conservation, Kept PROVE Conservation'
BY DEF Conservation, Kept, Booked

-----------------------------------------------------------------------------
(* The steps of the gateway.                                               *)

LEMMA TakeBatchStep ==
    ASSUME Shape, TakeBatch PROVE Shape' /\ Kept
<1> USE DEF TakeBatch, ledger, outside
<1>1. batch' \in Batch
  BY ChannelValue DEF Shape, TypeOK
<1>2. TypeOK'
  BY <1>1, ChannelValue DEF Shape, TypeOK, Channel
<1>3. FileIsOpen' /\ ResendIsThere'
  BY DEF FileIsOpen, ResendIsThere
<1>4. Kept
  BY DEF Kept, Booked, OnDisk
<1> QED
  BY <1>2, <1>3, <1>4 DEF Shape

LEMMA SkipStep ==
    ASSUME Shape, NEW f \in resend, SkipUnreadable(f) PROVE Shape' /\ Kept
<1> USE DEF SkipUnreadable, OldestFirst, ledger, outside
<1>1. TypeOK'
  BY DEF Shape, TypeOK, Channel
<1>2. FileIsOpen' /\ ResendIsThere'
  BY DEF Shape, FileIsOpen, ResendIsThere
<1>3. Kept
  BY DEF Kept, Booked, OnDisk
<1> QED
  BY <1>1, <1>2, <1>3 DEF Shape

LEMMA ResendStep ==
    ASSUME Shape, NEW f \in resend, NEW answer \in Answer, NEW removed \in BOOLEAN,
           ResendFile(f, answer, removed)
    PROVE  Shape' /\ Kept
<1> USE DEF ResendFile, OldestFirst, outside
<1>1. f \in DOMAIN netFiles /\ netFiles[f] \subseteq Event
  BY DEF Shape, TypeOK, ResendIsThere
<1>2. accepted' \in SUBSET Event /\ accepted \subseteq accepted'
  BY <1>1 DEF Post, Shape, TypeOK
<1>3. /\ DOMAIN netFiles' \subseteq DOMAIN netFiles
      /\ \A g \in DOMAIN netFiles' : netFiles'[g] = netFiles[g]
  BY DEF Without
<1>4. TypeOK'
  <2>1. givenUp' \in SUBSET Event /\ discarded' \in SUBSET Event
    BY <1>1 DEF Shape, TypeOK
  <2> QED
    BY <1>2, <1>3, <2>1 DEF Shape, TypeOK, Channel
<1>5. FileIsOpen' /\ ResendIsThere'
  BY DEF Shape, FileIsOpen, ResendIsThere, Without
<1>6. Kept
  <2>1. Booked \subseteq Booked'
    BY <1>2 DEF Booked
  <2>2. CASE ~removed
    BY <2>1, <2>2 DEF Kept, OnDisk
  <2>3. CASE removed
    <3>1. netFiles[f] \subseteq Booked'
      BY <2>3 DEF Status200, Post, Booked
    <3>2. OnDisk \subseteq OnDisk' \cup netFiles[f]
      BY <1>1, <2>3, RemovedFile
    <3> QED
      BY <2>1, <3>1, <3>2 DEF Kept
  <2> QED
    BY <2>2, <2>3
<1> QED
  BY <1>4, <1>5, <1>6 DEF Shape

LEMMA SendStep ==
    ASSUME Shape, NEW answer \in Answer, SendBatch(answer) PROVE Shape' /\ Kept
<1> USE DEF SendBatch, outside
<1>1. EventsOf(batch) \in SUBSET Event
  BY BatchEvents DEF Shape, TypeOK
<1>2. accepted' \in SUBSET Event /\ accepted \subseteq accepted' /\ givenUp \subseteq givenUp'
  BY <1>1 DEF Post, Shape, TypeOK
<1>3. TypeOK'
  <2>1. givenUp' \in SUBSET Event /\ settled' \in SUBSET Event
    BY <1>1 DEF Finish, Shape, TypeOK
  <2>2. Channel(stateIn', Batch) /\ batch' \in Batch
    <3>1. batch \in Batch /\ Channel(stateIn, Batch) /\ Channel(<<batch>>, Batch)
      BY ChannelValue DEF Shape, TypeOK
    <3>2. Finish \/ UNCHANGED <<stateIn, batch>>
      OBVIOUS
    <3> QED
      BY <3>1, <3>2, EmptyBatch DEF Finish
  <2>3. gpc' \in {"receive", "resend", "save", "write"}
    BY DEF Finish
  <2> QED
    BY <1>2, <2>1, <2>2, <2>3 DEF Shape, TypeOK, Channel
<1>4. FileIsOpen' /\ ResendIsThere'
  BY DEF Shape, FileIsOpen, ResendIsThere, Finish
<1>5. Kept
  <2>1. Booked \subseteq Booked' /\ OnDisk' = OnDisk
    BY <1>2 DEF Booked, OnDisk
  <2>2. CASE Failed(answer) /\ EventsOf(batch) # {}
    BY <2>1, <2>2 DEF Kept, Finish
  <2>3. CASE ~(Failed(answer) /\ EventsOf(batch) # {})
    <3>1. settled' = settled \cup EventsOf(batch)
      BY <2>3 DEF Finish
    <3>2. EventsOf(batch) \subseteq Booked'
      BY <2>3 DEF Failed, Answer, Post, Booked
    <3> QED
      BY <2>1, <3>1, <3>2 DEF Kept
  <2> QED
    BY <2>2, <2>3
<1> QED
  BY <1>3, <1>4, <1>5 DEF Shape

LEMMA OpenStep == ASSUME Shape, OpenTmpFile PROVE Shape' /\ Kept
<1> USE DEF OpenTmpFile, outside
<1>1. overwritten' \in SUBSET Event
  BY DEF Shape, TypeOK
<1>2. TypeOK'
  <2>1. DOMAIN netFiles' \in SUBSET Nat /\ tmp' \in Nat
    BY DEF Shape, TypeOK
  <2>2. \A f \in DOMAIN netFiles' : netFiles'[f] \in SUBSET Event
    BY DEF Shape, TypeOK
  <2> QED
    BY <1>1, <2>1, <2>2 DEF Shape, TypeOK, Channel
<1>3. FileIsOpen' /\ ResendIsThere'
  BY DEF Shape, FileIsOpen, ResendIsThere
<1>4. Kept
  BY OpenedFile DEF Kept, Booked
<1> QED
  BY <1>2, <1>3, <1>4 DEF Shape

LEMMA WriteStep == ASSUME Shape, WriteTmpFile PROVE Shape' /\ Kept
<1> USE DEF WriteTmpFile, Finish, outside
<1>1. EventsOf(batch) \in SUBSET Event
  BY BatchEvents DEF Shape, TypeOK
<1>2. tmp \in DOMAIN netFiles /\ netFiles[tmp] = {}
  BY DEF Shape, FileIsOpen
<1>3. TypeOK'
  <2>1. Channel(stateIn', Batch) /\ batch' \in Batch
    BY ChannelValue, EmptyBatch DEF Shape, TypeOK
  <2>2. /\ DOMAIN netFiles' = DOMAIN netFiles
        /\ \A f \in DOMAIN netFiles' : netFiles'[f] \in SUBSET Event
    BY <1>1 DEF Shape, TypeOK
  <2>3. settled' \in SUBSET Event
    BY <1>1 DEF Shape, TypeOK
  <2> QED
    BY <2>1, <2>2, <2>3 DEF Shape, TypeOK, Channel
<1>4. FileIsOpen' /\ ResendIsThere'
  BY DEF Shape, FileIsOpen, ResendIsThere
<1>5. Kept
  <2>1. OnDisk \cup EventsOf(batch) \subseteq OnDisk'
    BY <1>2, WrittenFile
  <2> QED
    BY <2>1 DEF Kept, Booked
<1> QED
  BY <1>3, <1>4, <1>5 DEF Shape

LEMMA SaveFailsStep == ASSUME Shape, SaveFails PROVE Shape' /\ Kept
<1> USE DEF SaveFails, Finish, outside
<1>1. EventsOf(batch) \in SUBSET Event
  BY BatchEvents DEF Shape, TypeOK
<1>2. TypeOK'
  BY <1>1, ChannelValue, EmptyBatch DEF Shape, TypeOK, Channel
<1>3. FileIsOpen' /\ ResendIsThere'
  BY DEF Shape, FileIsOpen, ResendIsThere
<1>4. Kept
  BY DEF Kept, Booked, OnDisk
<1> QED
  BY <1>2, <1>3, <1>4 DEF Shape

\* The steps of the others leave the files and the ledger alone.
LEMMA PeerStep ==
    ASSUME Shape,
           \/ \E b \in OfferedBatches : OfferBatch(b)
           \/ StoreOffsets \/ NextSecond \/ Crash \/ UNCHANGED vars
    PROVE  Shape' /\ Kept
<1>1. UNCHANGED <<tmp, netFiles, ledger>>
  BY DEF OfferBatch, StoreOffsets, NextSecond, Crash, vars, gateVars
<1>2. Channel(gateIn', Batch) /\ Channel(stateIn', Batch)
  BY ChannelValue, HttpGatewayAssumption
     DEF HttpGatewayAssumption, OfferBatch, StoreOffsets, NextSecond, Crash, vars, Shape,
         TypeOK, gateVars
<1>3. \/ UNCHANGED <<gpc, batch, resend>>
      \/ gpc' = "receive" /\ batch' = <<>> /\ resend' = {}
  BY DEF OfferBatch, StoreOffsets, NextSecond, Crash, vars, gateVars
<1>4. clock' \in Nat /\ crashes' \in Nat
  BY DEF OfferBatch, StoreOffsets, NextSecond, Crash, vars, outside, Shape, TypeOK
<1>5. offered' \in SUBSET Event
  <2>1. ASSUME NEW b \in OfferedBatches, OfferBatch(b) PROVE offered' \in SUBSET Event
    <3>1. EventsOf(b) \subseteq Event
      BY BatchEvents, HttpGatewayAssumption DEF HttpGatewayAssumption
    <3> QED
      BY <2>1, <3>1 DEF OfferBatch, Shape, TypeOK
  <2> QED
    BY <2>1 DEF StoreOffsets, NextSecond, Crash, vars, outside, Shape, TypeOK
<1>6. TypeOK'
  BY <1>1, <1>2, <1>3, <1>4, <1>5, EmptyBatch DEF Shape, TypeOK, ledger
<1>7. FileIsOpen' /\ ResendIsThere'
  BY <1>1, <1>3 DEF Shape, FileIsOpen, ResendIsThere
<1>8. Kept
  BY <1>1 DEF Kept, Booked, OnDisk, ledger
<1> QED
  BY <1>6, <1>7, <1>8 DEF Shape

LEMMA EveryStep == ASSUME Shape, [Next]_vars PROVE Shape' /\ Kept
<1>1. CASE TakeBatch
  BY <1>1, TakeBatchStep
<1>2. CASE ResendSome
  BY <1>2, SkipStep, ResendStep DEF ResendSome
<1>3. CASE Send
  BY <1>3, SendStep DEF Send
<1>4. CASE OpenTmpFile
  BY <1>4, OpenStep
<1>5. CASE WriteTmpFile
  BY <1>5, WriteStep
<1>6. CASE SaveFails
  BY <1>6, SaveFailsStep
<1>7. CASE \/ \E b \in OfferedBatches : OfferBatch(b)
           \/ StoreOffsets \/ NextSecond \/ Crash \/ UNCHANGED vars
  BY <1>7, PeerStep
<1> QED
  BY <1>1, <1>2, <1>3, <1>4, <1>5, <1>6, <1>7 DEF Next, GateNext

LEMMA InitShape == ASSUME Init PROVE Shape /\ Conservation
<1>1. TypeOK
  BY EmptyBatch, ChannelValue DEF Init, GateInit, TypeOK
<1>2. FileIsOpen /\ ResendIsThere /\ Conservation
  BY DEF Init, GateInit, FileIsOpen, ResendIsThere, Conservation
<1> QED
  BY <1>1, <1>2 DEF Shape

LEMMA ShapeInvariant == Spec => []Shape
<1>1. Init => Shape
  BY InitShape
<1>2. Shape /\ [Next]_vars => Shape'
  BY EveryStep
<1> QED
  BY <1>1, <1>2, PTL DEF Spec

-----------------------------------------------------------------------------
(* The theorems.                                                           *)

\* Every variable always holds a value of its type.
THEOREM TypeCorrect == Spec => []TypeOK
<1>1. Shape => TypeOK
  BY DEF Shape
<1> QED
  BY <1>1, ShapeInvariant, PTL

\* No event that the gateway is done with is lost but in the three ways of the
\* code, whatever is posted, answered, saved, removed, and whenever it restarts.
THEOREM ConservationHolds == Spec => []Conservation
<1>1. Init => Conservation
  BY InitShape
<1>2. Shape /\ Conservation /\ [Next]_vars => Conservation'
  BY EveryStep, KeptConserves
<1> QED
  BY <1>1, <1>2, ShapeInvariant, PTL DEF Spec

\* No event leaves the disk but for the server or in one of those ways.
THEOREM DiskHolds == Spec => OnlyDeliveredLeavesDisk
<1> DEFINE Leaves == OnDisk \subseteq OnDisk' \cup accepted' \cup givenUp' \cup discarded' \cup overwritten'
<1>1. Shape /\ [Next]_vars => Leaves
  BY EveryStep DEF Kept, Booked
<1> HIDE DEF Leaves
<1>2. Spec => [][Leaves]_vars
  BY <1>1, ShapeInvariant, PTL DEF Spec
<1> QED
  BY <1>2 DEF Leaves, OnlyDeliveredLeavesDisk

\* The gateway takes one batch at a time and passes it on when it is done with
\* its events: initial states and steps are those of Gateway.
LEMMA GatewayNames ==
    /\ Abstract!Batch = Batch
    /\ \A b : Abstract!EventsOf(b) = EventsOf(b)
    /\ \A ch, V : Abstract!Channel(ch, V) <=> Channel(ch, V)
<1>1. Abstract!Batch = Batch
  BY DEF Abstract!Batch, Batch, Abstract!Container, Container, Abstract!Event, Event
<1>2. \A b : Abstract!EventsOf(b) = EventsOf(b)
  BY DEF Abstract!EventsOf, EventsOf
<1>3. \A ch, V : Abstract!Channel(ch, V) <=> Channel(ch, V)
  BY DEF Abstract!Channel, Channel
<1> QED
  BY <1>1, <1>2, <1>3

LEMMA StepRefines == ASSUME Shape, [Next]_vars PROVE [Abstract!Next]_(Abstract!vars)
<1> USE DEF Abstract!vars, Abstract!gateVars
<1>1. CASE TakeBatch
  <2>1. Abstract!TakeBatch
    BY <1>1 DEF TakeBatch, Abstract!TakeBatch, ledger
  <2> QED
    BY <2>1 DEF Abstract!Next, Abstract!GateNext
<1>2. CASE ResendSome
  BY <1>2 DEF ResendSome, SkipUnreadable, ResendFile, OldestFirst, ledger
<1>3. CASE Send
  <2>1. PICK answer \in Answer : SendBatch(answer)
    BY <1>3 DEF Send
  <2>2. CASE Finish
    <3>1. Abstract!Settle
      BY <2>1, <2>2, GatewayNames DEF SendBatch, Finish, Abstract!Settle
    <3> QED
      BY <3>1 DEF Abstract!Next, Abstract!GateNext
  <2>3. CASE gpc' = "save" /\ UNCHANGED <<stateIn, settled, batch>>
    BY <2>1, <2>3 DEF SendBatch
  <2> QED
    BY <2>1, <2>2, <2>3 DEF SendBatch
<1>4. CASE OpenTmpFile
  BY <1>4 DEF OpenTmpFile
<1>5. CASE WriteTmpFile \/ SaveFails
  <2>1. Abstract!Settle
    BY <1>5, GatewayNames DEF WriteTmpFile, SaveFails, Finish, Abstract!Settle
  <2> QED
    BY <2>1 DEF Abstract!Next, Abstract!GateNext
<1>6. ASSUME NEW b \in OfferedBatches, OfferBatch(b) PROVE Abstract!OfferBatch
  <2>1. Channel(<<b>>, Batch) /\ <<b>> # <<>>
    BY ChannelValue, HttpGatewayAssumption DEF HttpGatewayAssumption
  <2> QED
    BY <1>6, <2>1, GatewayNames DEF OfferBatch, Abstract!OfferBatch, gateVars, ledger
<1>7. CASE StoreOffsets
  BY <1>7 DEF StoreOffsets, Abstract!StoreOffsets, Abstract!Next, gateVars, ledger
<1>8. CASE Crash
  <2>1. Abstract!Crash
    BY <1>8 DEF Crash, Abstract!Crash, ledger
  <2> QED
    BY <2>1 DEF Abstract!Next
<1>9. CASE NextSecond \/ UNCHANGED vars
  BY <1>9 DEF NextSecond, vars, gateVars, ledger
<1> QED
  BY <1>1, <1>2, <1>3, <1>4, <1>5, <1>6, <1>7, <1>8, <1>9
     DEF Next, GateNext, Abstract!Next

THEOREM GatewayImplemented == Spec => Abstract!Init /\ [][Abstract!Next]_(Abstract!vars)
<1>1. Init => Abstract!Init
  BY DEF Init, GateInit, Abstract!Init, Abstract!GateInit
<1>2. Shape /\ [Next]_vars => [Abstract!Next]_(Abstract!vars)
  BY StepRefines
<1> QED
  BY <1>1, <1>2, ShapeInvariant, PTL DEF Spec
=============================================================================
