---------------------------- MODULE SystemState -----------------------------
(***************************************************************************)
(* The state goroutine (system_state.go).  For every batch it reads the    *)
(* state file, drops expired entries, sets the offset of each container's  *)
(* source, and writes the file anew: it is truncated and then written, so  *)
(* a crash or an error in between leaves a file that cannot be parsed.     *)
(*                                                                         *)
(* Find() gives an unknown source the offset 0, so a source without an     *)
(* entry is modelled as one with offset 0.                                 *)
(***************************************************************************)
EXTENDS Pipeline

CONSTANTS OfferedBatches,   \* the batches the gateway may hand over
          Expiry,           \* after this time an entry is dropped (30 days)
          MaxClock          \* bound on the clock, in units of the same length

ASSUME SystemStateAssumption == /\ OfferedBatches \subseteq Batch
                                /\ Expiry \in Nat \ {0}
                                /\ MaxClock \in Nat

(* An operator whose name has an underscore is the one it is named after    *)
(* with a plausible bug: the properties must notice it.                    *)

VARIABLES stateIn,   \* channel SystemState.Input
          spc,       \* where the goroutine is
          sbatch,    \* the batch it works on
          staged,    \* originalState.Sources, what it is about to write
          disk,      \* the last content written: source -> [offset, t]
          intact,    \* no write of the file has been cut short since
          clock

stateVars == <<spc, sbatch, staged, disk, intact>>
vars == <<stateIn, clock, stateVars>>

Entry == [offset : Nat, t : Nat]

NoEntries == [s \in Source |-> [offset |-> 0, t |-> 0]]

\* Type correctness.
TypeOK == /\ Channel(stateIn, Batch)
          /\ spc \in {"receive", "read", "open", "write"}
          /\ sbatch \in Batch
          /\ staged \in [Source -> Entry]
          /\ disk \in [Source -> Entry]
          /\ intact \in BOOLEAN
          /\ clock \in Nat

StateInit == /\ spc = "receive"
             /\ sbatch = <<>>
             /\ staged = NoEntries
             /\ disk = NoEntries
             /\ intact = TRUE

Init == /\ stateIn = <<>>
        /\ clock = 0
        /\ StateInit

-----------------------------------------------------------------------------

\* RemoveExpiredStates: an entry survives when it is younger than Expiry.
Expired(entry) == entry.t + Expiry <= clock

\* ReadOriginalState.  A file that was cut short does not parse, which leaves
\* the goroutine, or the next process, with no entries.
Restored == [s \in Source |-> IF intact /\ ~Expired(disk[s]) THEN disk[s]
                                                             ELSE NoEntries[s]]

\* What the file has for a process that starts now: nothing, while it is
\* truncated and not yet written.
ResumeFrom == [s \in Source |-> IF spc = "write" THEN 0 ELSE Restored[s].offset]

\* Restore, in a process that starts now: a file that cannot be read is logged
\* and stays, and the process goes on with no entries.
RestoreResults == {ResumeFrom, [s \in Source |-> 0]}

Mentions(batch, s) == \E i \in 1 .. Len(batch) : batch[i].src = s

LastOffset_First(batch, s) ==
    batch[CHOOSE i \in 1 .. Len(batch) :
             /\ batch[i].src = s
             /\ \A j \in 1 .. Len(batch) : batch[j].src = s => i <= j].offset

\* The containers are applied in their order, so the last one of s counts.
LastOffset(batch, s) ==
    batch[CHOOSE i \in 1 .. Len(batch) :
             /\ batch[i].src = s
             /\ \A j \in 1 .. Len(batch) : batch[j].src = s => j <= i].offset

Apply_Backdated(batch, entries) ==
    [s \in Source |-> IF Mentions(batch, s)
                      THEN [offset |-> LastOffset(batch, s), t |-> clock - Expiry]
                      ELSE entries[s]]

Apply(batch, entries) ==
    [s \in Source |-> IF Mentions(batch, s)
                      THEN [offset |-> LastOffset(batch, s), t |-> clock]
                      ELSE entries[s]]

ReceiveEmpty_NotReceived ==
    /\ spc = "receive"
    /\ stateIn = << <<>> >>
    /\ UNCHANGED <<stateIn, clock, stateVars>>

\* An empty batch is received and ignored.
ReceiveEmpty == /\ spc = "receive"
                /\ stateIn = << <<>> >>
                /\ stateIn' = <<>>
                /\ UNCHANGED <<clock, stateVars>>

Receive == /\ spc = "receive"
           /\ stateIn # <<>>
           /\ stateIn[1] # <<>>
           /\ sbatch' = stateIn[1]
           /\ stateIn' = <<>>
           /\ spc' = "read"
           /\ UNCHANGED <<clock, staged, disk, intact>>

\* When the file cannot be read the goroutine goes on with no entries.
ReadAndApply == /\ spc = "read"
                /\ \E entries \in {Restored, NoEntries} :
                      staged' = Apply(sbatch, entries)
                /\ spc' = "open"
                /\ UNCHANGED <<stateIn, clock, sbatch, disk, intact>>

\* WriteFile truncates the file ...
Truncate == /\ spc = "open"
            /\ spc' = "write"
            /\ UNCHANGED <<stateIn, clock, sbatch, staged, disk, intact>>

\* ... and writes it.
WriteState == /\ spc = "write"
              /\ disk' = staged
              /\ intact' = TRUE
              /\ spc' = "receive"
              /\ sbatch' = <<>>
              /\ UNCHANGED <<stateIn, clock, staged>>

\* Either step may fail: that is logged, and the batch is forgotten.
SaveFails == /\ spc \in {"open", "write"}
             /\ intact' = (intact /\ spc = "open")
             /\ spc' = "receive"
             /\ sbatch' = <<>>
             /\ UNCHANGED <<stateIn, clock, staged, disk>>

StateNext == ReceiveEmpty \/ Receive \/ ReadAndApply \/ Truncate \/ WriteState \/ SaveFails

-----------------------------------------------------------------------------
(* The gateway at the other end, the clock, and the end of the process.    *)

Offer(b) == /\ stateIn = <<>>
            /\ stateIn' = <<b>>
            /\ UNCHANGED <<clock, stateVars>>

\* A unit is long (days), so a batch is processed within one.
ClockTick == /\ clock < MaxClock
             /\ spc = "receive"
             /\ clock' = clock + 1
             /\ UNCHANGED <<stateIn, stateVars>>

StateCrash == /\ spc' = "receive"
              /\ sbatch' = <<>>
              /\ staged' = NoEntries
              /\ intact' = (intact /\ spc # "write")
              /\ UNCHANGED disk

Crash == /\ stateIn' = <<>>
         /\ StateCrash
         /\ UNCHANGED clock

Next == StateNext \/ (\E b \in OfferedBatches : Offer(b)) \/ ClockTick \/ Crash

StateFairness == WF_vars(StateNext)

Spec == Init /\ [][Next]_vars /\ StateFairness

-----------------------------------------------------------------------------
(* Properties.                                                             *)

\* What a restart resumes from is what an atomic store would hold: a save is
\* seen for all sources of its batch or for none, and an entry that is lost,
\* by expiry or with an unreadable file, falls to 0 and never to an offset
\* that was stored earlier.  The atomic save is the end of the write; a crash
\* before it, when the file is already truncated, is the store forgetting.
Store == INSTANCE OffsetStore WITH
            stored <- [s \in Source |-> Restored[s].offset],
            pending <- sbatch
RefinesOffsetStore == Store!Spec

\* The goroutine always comes back to receive, so the gateway is never blocked
\* for ever in its send (line 19 and http_gateway.go:117).
StateReturns == (stateIn # <<>>) ~> (stateIn = <<>>)
=============================================================================
