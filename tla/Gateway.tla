------------------------------ MODULE Gateway -------------------------------
(***************************************************************************)
(* What the rest of the agent relies on in the gateway: one batch at a     *)
(* time is taken, dealt with however long that takes, and only then passed *)
(* on to the system state.  HttpGateway.tla implements this; its           *)
(* Conservation says what "dealt with" means for an event.                 *)
(***************************************************************************)
EXTENDS Pipeline

(* An operator whose name has an underscore is the one it is named after    *)
(* with a plausible bug: the properties must notice it.                    *)

VARIABLES gateIn,      \* channel HttpGateway.Input
          stateIn,     \* channel SystemState.Input
          busy,        \* the gateway is in SendToServer
          batch,       \* the batch it is dealing with
          settled      \* history: the events it is done with

gateVars == <<busy, batch, settled>>
vars == <<gateIn, stateIn, gateVars>>

TypeOK == /\ Channel(gateIn, Batch)
          /\ Channel(stateIn, Batch)
          /\ busy \in BOOLEAN
          /\ batch \in Batch
          /\ settled \in SUBSET Event

GateInit == /\ busy = FALSE
            /\ batch = <<>>
            /\ settled = {}

Init == /\ gateIn = <<>>
        /\ stateIn = <<>>
        /\ GateInit

TakeBatch_SyncsFirst ==
    /\ ~busy
    /\ stateIn = <<>>
    /\ gateIn # <<>>
    /\ batch' = gateIn[1]
    /\ stateIn' = gateIn
    /\ gateIn' = <<>>
    /\ busy' = TRUE
    /\ UNCHANGED settled

\* The next batch is received when the send of the previous one has returned.
TakeBatch == /\ ~busy
             /\ stateIn = <<>>
             /\ gateIn # <<>>
             /\ batch' = gateIn[1]
             /\ gateIn' = <<>>
             /\ busy' = TRUE
             /\ UNCHANGED <<stateIn, settled>>

Settle == /\ busy
          /\ settled' = settled \cup EventsOf(batch)
          /\ stateIn' = <<batch>>
          /\ batch' = <<>>
          /\ busy' = FALSE
          /\ UNCHANGED gateIn

GateNext == TakeBatch \/ Settle

-----------------------------------------------------------------------------
(* The goroutines at the two ends, and the end of the process.             *)

OfferBatch == /\ gateIn = <<>>
              /\ gateIn' # <<>>
              /\ Channel(gateIn', Batch)
              /\ UNCHANGED <<stateIn, gateVars>>

StoreOffsets == /\ stateIn # <<>>
                /\ stateIn' = <<>>
                /\ UNCHANGED <<gateIn, gateVars>>

Crash == /\ gateIn' = <<>>
         /\ stateIn' = <<>>
         /\ busy' = FALSE
         /\ batch' = <<>>
         /\ UNCHANGED settled

Next == GateNext \/ OfferBatch \/ StoreOffsets \/ Crash

Spec == Init /\ [][Next]_vars /\ WF_vars(TakeBatch) /\ WF_vars(Settle)
=============================================================================
