------------------------- MODULE SystemStateProofs -------------------------
(***************************************************************************)
(* Proofs about the state goroutine: its type correctness, and that the    *)
(* state file with its truncations, failures, expiry and restarts is an    *)
(* atomic store that may forget, for all sources and batches.              *)
(***************************************************************************)
EXTENDS SystemState, SequenceTheorems, WellFoundedInduction, TLAPS

-----------------------------------------------------------------------------
(* Batches and channels.                                                   *)

LEMMA ChannelValue ==
    ASSUME NEW ch, Channel(ch, Batch), ch # <<>>
    PROVE  ch[1] \in Batch
<1>1. ch \in Seq(Batch) /\ Len(ch) \in Nat \ {0}
  BY EmptySeq DEF Channel
<1> QED
  BY <1>1

LEMMA ChannelOf ==
    Channel(<<>>, Batch) /\ \A b \in Batch : Channel(<<b>>, Batch)
BY DEF Channel

LastAt(b, s, i) == /\ i \in 1 .. Len(b) /\ b[i].src = s
                   /\ \A j \in 1 .. Len(b) : b[j].src = s => j <= i

\* A source that a batch mentions has a last container in it: the one that is
\* nearest to the end.
LEMMA LastExists ==
    ASSUME NEW b \in Batch, NEW s, Mentions(b, s)
    PROVE  \E i : LastAt(b, s, i)
<1> DEFINE FromEnd == {n \in Nat : Len(b) - n \in 1 .. Len(b) /\ b[Len(b) - n].src = s}
<1>1. Len(b) \in Nat
  BY DEF Batch
<1>2. ASSUME NEW j \in 1 .. Len(b), b[j].src = s
      PROVE  Len(b) - j \in FromEnd
  BY <1>1, <1>2
<1>3. FromEnd # {}
  BY <1>2 DEF Mentions
<1>4. FromEnd \subseteq Nat
  OBVIOUS
<1> HIDE DEF FromEnd
<1>5. PICK n \in FromEnd : \A m \in FromEnd : <<m, n>> \notin OpToRel(<, Nat)
  BY <1>3, <1>4, WFMin, NatLessThanWellFounded, Zenon
<1>6. \A m \in FromEnd : ~ (m < n)
  BY <1>4, <1>5, Zenon DEF OpToRel
<1>7. ASSUME NEW j \in 1 .. Len(b), b[j].src = s PROVE j <= Len(b) - n
  BY <1>1, <1>2, <1>4, <1>6, <1>7
<1>8. Len(b) - n \in 1 .. Len(b) /\ b[Len(b) - n].src = s
  BY DEF FromEnd
<1> QED
  BY <1>7, <1>8 DEF LastAt

\* The code, which applies the containers in their order, and the store agree
\* on the offset that counts.
LEMMA LastOffsetIs ==
    ASSUME NEW b \in Batch, NEW s, Mentions(b, s)
    PROVE  /\ LastOffset(b, s) \in Nat
           /\ Store!LastOffset(b, s) = LastOffset(b, s)
<1>1. PICK i : LastAt(b, s, i)
  BY LastExists
<1>2. i \in 1 .. Len(b) /\ b[i].src = s /\ Len(b) \in Nat
  BY <1>1 DEF LastAt, Batch
<1>3. LastOffset(b, s) = b[i].offset
  <2>1. \A k \in 1 .. Len(b) : /\ b[k].src = s
                               /\ \A j \in 1 .. Len(b) : b[j].src = s => j <= k
                               <=> k = i
    BY <1>1, <1>2 DEF LastAt
  <2> QED
    BY <1>2, <2>1 DEF LastOffset
<1>4. Store!LastOffset(b, s) = b[i].offset
  <2>1. \A k \in 1 .. Len(b) : /\ b[k].src = s
                               /\ \A j \in (k + 1) .. Len(b) : b[j].src # s
                               <=> k = i
    BY <1>1, <1>2 DEF LastAt
  <2> QED
    BY <1>2, <2>1 DEF Store!LastOffset
<1>5. b[i] \in Container
  BY <1>2 DEF Batch
<1> QED
  BY <1>3, <1>4, <1>5 DEF Container

-----------------------------------------------------------------------------
(* Type correctness.                                                       *)

LEMMA NoEntryType == NoEntries \in [Source -> Entry] /\ \A s \in Source : NoEntries[s].offset = 0
BY DEF NoEntries, Entry

LEMMA RestoredType == TypeOK => Restored \in [Source -> Entry]
BY NoEntryType DEF TypeOK, Restored

LEMMA ApplyType ==
    ASSUME TypeOK, NEW entries \in [Source -> Entry]
    PROVE  Apply(sbatch, entries) \in [Source -> Entry]
<1>1. \A s \in Source : Mentions(sbatch, s) => LastOffset(sbatch, s) \in Nat
  BY LastOffsetIs DEF TypeOK
<1> QED
  BY <1>1 DEF Apply, Entry, TypeOK

LEMMA TypeInit == Init => TypeOK
BY NoEntryType, ChannelOf DEF Init, StateInit, TypeOK, Batch

LEMMA TypeStep == TypeOK /\ [Next]_vars => TypeOK'
<1> SUFFICES ASSUME TypeOK, [Next]_vars PROVE TypeOK'
  OBVIOUS
<1> USE DEF TypeOK, vars, stateVars
<1>1. <<>> \in Batch /\ Channel(<<>>, Batch)
  BY ChannelOf DEF Batch
<1>2. CASE ReceiveEmpty
  BY <1>1, <1>2 DEF ReceiveEmpty
<1>3. CASE Receive
  BY <1>1, <1>3, ChannelValue DEF Receive
<1>4. CASE ReadAndApply
  <2>1. PICK entries \in {Restored, NoEntries} : staged' = Apply(sbatch, entries)
    BY <1>4 DEF ReadAndApply
  <2>2. staged' \in [Source -> Entry]
    BY <2>1, RestoredType, NoEntryType, ApplyType
  <2> QED
    BY <1>4, <2>2 DEF ReadAndApply
<1>5. CASE Truncate
  BY <1>5 DEF Truncate
<1>6. CASE WriteState
  BY <1>1, <1>6 DEF WriteState
<1>7. CASE SaveFails
  BY <1>1, <1>7 DEF SaveFails
<1>8. ASSUME NEW b \in OfferedBatches, Offer(b) PROVE TypeOK'
  BY <1>8, ChannelOf, SystemStateAssumption DEF Offer
<1>9. CASE ClockTick
  BY <1>9 DEF ClockTick
<1>10. CASE Crash
  BY <1>1, <1>10, NoEntryType DEF Crash, StateCrash
<1>11. CASE UNCHANGED vars
  BY <1>11
<1> QED
  BY <1>2, <1>3, <1>4, <1>5, <1>6, <1>7, <1>8, <1>9, <1>10, <1>11 DEF Next, StateNext

-----------------------------------------------------------------------------
(* The atomic store.  What is staged for the file is what an atomic save    *)
(* of the batch may store; it stays so until it is written, because the    *)
(* file and the clock do not change under the goroutine.                   *)

\* The goroutine has a batch exactly when it works on one.
BatchInHand == (spc = "receive") <=> (sbatch = <<>>)

StagedIsSave ==
    spc \in {"open", "write"} =>
        \A s \in Source :
            IF Mentions(sbatch, s)
            THEN staged[s] = [offset |-> LastOffset(sbatch, s), t |-> clock]
            ELSE staged[s] \in {Restored[s], NoEntries[s]}

StoreInv == BatchInHand /\ StagedIsSave

LEMMA RestoredUnchanged == UNCHANGED <<disk, intact, clock>> => UNCHANGED Restored
BY DEF Restored, Expired

LEMMA StoreInvInit == Init => StoreInv
BY DEF Init, StateInit, StoreInv, BatchInHand, StagedIsSave

LEMMA StoreInvStep == TypeOK /\ StoreInv /\ [Next]_vars => StoreInv'
<1> SUFFICES ASSUME TypeOK, StoreInv, [Next]_vars PROVE StoreInv'
  OBVIOUS
<1> USE DEF StoreInv, BatchInHand, StagedIsSave, vars, stateVars
<1>1. CASE ReceiveEmpty
  BY <1>1, RestoredUnchanged DEF ReceiveEmpty
<1>2. CASE Receive
  BY <1>2 DEF Receive
<1>3. CASE ReadAndApply
  <2>1. PICK entries \in {Restored, NoEntries} : staged' = Apply(sbatch, entries)
    BY <1>3 DEF ReadAndApply
  <2>2. spc' = "open" /\ UNCHANGED <<stateIn, clock, sbatch, disk, intact>> /\ spc = "read"
    BY <1>3 DEF ReadAndApply
  <2>3. Restored' = Restored
    BY <2>2, RestoredUnchanged
  <2> QED
    BY <2>1, <2>2, <2>3 DEF Apply
<1>4. CASE Truncate
  BY <1>4, RestoredUnchanged DEF Truncate
<1>5. CASE WriteState
  BY <1>5 DEF WriteState
<1>6. CASE SaveFails
  BY <1>6 DEF SaveFails
<1>7. ASSUME NEW b \in OfferedBatches, Offer(b) PROVE StoreInv'
  BY <1>7, RestoredUnchanged DEF Offer
<1>8. CASE ClockTick
  BY <1>8 DEF ClockTick
<1>9. CASE Crash
  BY <1>9 DEF Crash, StateCrash
<1>10. CASE UNCHANGED vars
  BY <1>10, RestoredUnchanged
<1> QED
  BY <1>1, <1>2, <1>3, <1>4, <1>5, <1>6, <1>7, <1>8, <1>9, <1>10 DEF Next, StateNext

stored == [s \in Source |-> Restored[s].offset]

LEMMA StoredType == TypeOK => stored \in [Source -> Nat]
<1> SUFFICES ASSUME TypeOK PROVE stored \in [Source -> Nat]
  OBVIOUS
<1>1. \A s \in Source : Restored[s].offset \in Nat
  BY RestoredType DEF Entry
<1> QED
  BY <1>1 DEF stored

\* Whatever happens to the clock, and to the file when it is cut short, an entry
\* stays or is forgotten.
LEMMA EntriesForget ==
    ASSUME disk' = disk, intact' => intact,
           TypeOK, TypeOK', clock <= clock', NEW s \in Source
    PROVE  stored'[s] \in {stored[s], 0}
<1>1. disk[s] \in Entry
  BY DEF TypeOK
<1>2. disk[s].t \in Nat /\ clock \in Nat /\ clock' \in Nat
  BY <1>1 DEF Entry, TypeOK
<1>3. Expired(disk[s]) => disk[s].t + Expiry <= clock'
  BY <1>2, SystemStateAssumption DEF Expired
<1>4. Restored'[s] \in {Restored[s], NoEntries[s]}
  BY <1>3 DEF Restored, Expired, NoEntries
<1> QED
  BY <1>4, NoEntryType DEF stored

LEMMA ForgetStep ==
    ASSUME disk' = disk, intact' => intact,
           TypeOK, TypeOK', clock <= clock', sbatch' \in {sbatch, <<>>}
    PROVE  Store!Forget
<1>1. \A s \in Source : stored'[s] \in {stored[s], 0}
  BY EntriesForget
<1>2. stored' \in [Source -> Nat]
  <2>1. \A s \in Source : stored[s] \in Nat
    BY StoredType
  <2>2. stored' = [s \in Source |-> stored'[s]]
    BY DEF stored
  <2> QED
    BY <1>1, <2>1, <2>2
<1> QED
  BY <1>1, <1>2 DEF Store!Forget, stored

\* The end of the write is the atomic save.
LEMMA SaveStep ==
    ASSUME TypeOK, StoreInv, TypeOK', WriteState
    PROVE  Store!Save
<1>1. sbatch # <<>> /\ sbatch' = <<>>
  BY DEF WriteState, StoreInv, BatchInHand
<1>2. stored' \in [Source -> Nat]
  <2>1. ASSUME NEW s \in Source PROVE Restored'[s] \in Entry
    BY NoEntryType DEF Restored, WriteState, TypeOK
  <2> QED
    BY <2>1 DEF stored, Entry
<1>3. ASSUME NEW s \in Source, Mentions(sbatch, s)
      PROVE  stored'[s] = Store!LastOffset(sbatch, s)
  <2>1. staged[s] = [offset |-> LastOffset(sbatch, s), t |-> clock]
    BY <1>3 DEF StoreInv, StagedIsSave, WriteState
  <2>2. staged[s].t = clock /\ staged[s].offset = LastOffset(sbatch, s)
    BY <2>1
  <2>3. ~ (staged[s].t + Expiry <= clock)
    BY <2>2, SystemStateAssumption DEF TypeOK
  <2>4. Restored'[s] = staged[s]
    BY <2>3 DEF WriteState, Restored, Expired
  <2> QED
    BY <1>3, <2>2, <2>4, LastOffsetIs DEF stored, TypeOK
<1>4. ASSUME NEW s \in Source, ~Mentions(sbatch, s)
      PROVE  stored'[s] \in {stored[s], 0}
  <2>1. staged[s] \in {Restored[s], NoEntries[s]}
    BY <1>4 DEF StoreInv, StagedIsSave, WriteState
  <2>2. Restored'[s] \in {staged[s], NoEntries[s]}
    BY DEF WriteState, Restored, NoEntries
  <2> QED
    BY <2>1, <2>2, NoEntryType DEF stored
<1>5. \A s \in Source : Store!Mentions(sbatch, s) <=> Mentions(sbatch, s)
  BY DEF Store!Mentions, Mentions
<1> QED
  BY <1>1, <1>2, <1>3, <1>4, <1>5 DEF Store!Save, stored

LEMMA StoreStep ==
    ASSUME TypeOK, StoreInv, TypeOK', StoreInv', [Next]_vars
    PROVE  [Store!Next]_(Store!vars)
<1> USE DEF vars, stateVars
<1>1. CASE UNCHANGED <<sbatch, disk, intact, clock>>
  BY <1>1, RestoredUnchanged DEF Store!vars
<1>2. CASE Receive
  <2>1. sbatch = <<>> /\ sbatch' \in Batch
    BY <1>2 DEF Receive, StoreInv, BatchInHand, TypeOK
  <2>2. UNCHANGED Restored
    BY <1>2, RestoredUnchanged DEF Receive
  <2>3. Store!Batch = Batch
    BY DEF Store!Batch, Batch, Store!Container, Container, Store!Event, Event
  <2> QED
    BY <2>1, <2>2, <2>3 DEF Store!Accept, Store!Next
<1>3. CASE WriteState
  BY <1>3, SaveStep DEF Store!Next
<1>4. CASE SaveFails \/ ClockTick \/ Crash
  <2>1. /\ disk' = disk /\ (intact' => intact) /\ clock <= clock'
        /\ sbatch' \in {sbatch, <<>>}
    BY <1>4 DEF SaveFails, ClockTick, Crash, StateCrash, TypeOK
  <2> QED
    BY <2>1, ForgetStep DEF Store!Next
<1>5. CASE ReceiveEmpty \/ ReadAndApply \/ Truncate
  BY <1>1, <1>5 DEF ReceiveEmpty, ReadAndApply, Truncate
<1>6. ASSUME NEW b \in OfferedBatches, Offer(b) PROVE [Store!Next]_(Store!vars)
  BY <1>1, <1>6 DEF Offer
<1> QED
  BY <1>1, <1>2, <1>3, <1>4, <1>5, <1>6 DEF Next, StateNext

LEMMA StoreInitial == Init => Store!Init
<1> SUFFICES ASSUME Init PROVE Store!Init
  OBVIOUS
<1>1. \A s \in Source : Restored[s] = NoEntries[s]
  BY DEF Init, StateInit, Restored
<1> QED
  BY <1>1, NoEntryType DEF Init, StateInit, Store!Init

-----------------------------------------------------------------------------

\* The variables of the state goroutine keep their types (system_state.go:17).
THEOREM TypeCorrect == Spec => []TypeOK
BY TypeInit, TypeStep, PTL DEF Spec

LEMMA Invariance == Spec => [](TypeOK /\ StoreInv)
BY TypeCorrect, StoreInvInit, StoreInvStep, PTL DEF Spec

\* The state file, with truncations, failures, expiry and restarts, is an atomic
\* store that may forget: a save is seen for all the sources of its batch or for
\* none, and a lost entry falls to 0 (system_state.go:17-52, :68-117).
THEOREM StoreImplemented == Spec => RefinesOffsetStore
<1>1. /\ TypeOK /\ StoreInv /\ (TypeOK /\ StoreInv)' /\ [Next]_vars
      => [Store!Next]_(Store!vars)
  BY StoreStep
<1> QED
  BY <1>1, Invariance, StoreInitial, PTL DEF Spec, RefinesOffsetStore, Store!Spec
=============================================================================
