---------------------------- MODULE HttpGateway -----------------------------
(***************************************************************************)
(* The gateway goroutine (http_gateway.go).  For every batch it first      *)
(* posts the temporary files earlier failures have left, then posts the    *)
(* batch, saves the batch's events into a temporary file when that failed, *)
(* and passes the batch on so that the offsets are stored.                 *)
(*                                                                         *)
(* A batch without events is a real message: it is the heartbeat of the    *)
(* queue's ticker, and it drives the resending.                            *)
(***************************************************************************)
EXTENDS Pipeline, FiniteSets

CONSTANTS OfferedBatches,   \* the batches the queue may hand over
          MaxClock,         \* bound on the wall clock, in seconds
          MaxCrashes        \* bound on the restarts

ASSUME HttpGatewayAssumption == /\ OfferedBatches \subseteq Batch
                                /\ MaxClock \in Nat
                                /\ MaxCrashes \in Nat

(* An operator whose name has an underscore is the one it is named after    *)
(* with a plausible bug: the properties below must notice it.              *)

VARIABLES gateIn,      \* channel HttpGateway.Input
          stateIn,     \* channel SystemState.Input
          gpc,         \* where the goroutine is
          batch,       \* the batch it works on
          resend,      \* the names of the glob that are still to be resent
          tmp,         \* the name of the file it is writing
          netFiles,    \* .state/.net_<second>: second -> the events in it
          clock,       \* time.Now().Unix()
          offered,     \* the events the queue has handed over in this process
          crashes,     \* for the bound
          accepted,    \* the events the server has taken (the server's state)
          settled,     \* history: the events the gateway is done with
          givenUp,     \* history: refused with error code 1, or not saved
          discarded,   \* history: in a file removed after an error answer
          overwritten  \* history: in a file another batch was saved over

ledger == <<accepted, settled, givenUp, discarded, overwritten>>
gateVars == <<gpc, batch, resend, tmp, netFiles, ledger>>
outside == <<clock, offered, crashes>>
vars == <<gateIn, stateIn, outside, gateVars>>

OnDisk == UNION {netFiles[f] : f \in DOMAIN netFiles}

\* Type correctness.  A file whose content was cut short holds no event.
TypeOK == /\ Channel(gateIn, Batch)
          /\ Channel(stateIn, Batch)
          /\ gpc \in {"receive", "resend", "save", "write"}
          /\ batch \in Batch
          /\ resend \in SUBSET Nat
          /\ tmp \in Nat
          /\ DOMAIN netFiles \in SUBSET Nat
          /\ \A f \in DOMAIN netFiles : netFiles[f] \in SUBSET Event
          /\ clock \in Nat
          /\ offered \in SUBSET Event
          /\ crashes \in Nat
          /\ accepted \in SUBSET Event
          /\ settled \in SUBSET Event
          /\ givenUp \in SUBSET Event
          /\ discarded \in SUBSET Event
          /\ overwritten \in SUBSET Event

GateInit == /\ gpc = "receive"
            /\ batch = <<>>
            /\ resend = {}
            /\ tmp = 0
            /\ netFiles = [f \in {} |-> {}]
            /\ accepted = {}
            /\ settled = {}
            /\ givenUp = {}
            /\ discarded = {}
            /\ overwritten = {}

Init == /\ gateIn = <<>>
        /\ stateIn = <<>>
        /\ clock = 0
        /\ offered = {}
        /\ crashes = 0
        /\ GateInit

-----------------------------------------------------------------------------
(* The server: what a POST may come back with.                             *)

Answer == {"accepted",   \* 200 and success in the body
           "refused",    \* 200 and error code 1 in the body
           "rejected",   \* 200 and another error or no JSON in the body
           "failed",     \* a transport error or another status
           "late"}       \* the same, but the server has taken the events

Status200(answer) == answer \in {"accepted", "refused", "rejected"}

\* How SendToServer sees it after having looked at the body.
Failed(answer) == answer \in {"rejected", "failed", "late"}

Post(events, answer) ==
    accepted' = IF answer \in {"accepted", "late"} THEN accepted \cup events
                                                   ELSE accepted

-----------------------------------------------------------------------------
(* The goroutine.                                                          *)

TakeBatch_HeartbeatResendsNothing ==
    /\ gpc = "receive"
    /\ stateIn = <<>>
    /\ gateIn # <<>>
    /\ batch' = gateIn[1]
    /\ gateIn' = <<>>
    /\ resend' = IF Len(gateIn[1]) = 0 THEN {} ELSE DOMAIN netFiles
    /\ gpc' = "resend"
    /\ UNCHANGED <<stateIn, outside, tmp, netFiles, ledger>>

TakeBatch_DoesNotWait ==
    /\ gpc = "receive"
    /\ gateIn # <<>>
    /\ batch' = gateIn[1]
    /\ gateIn' = <<>>
    /\ resend' = DOMAIN netFiles
    /\ gpc' = "resend"
    /\ UNCHANGED <<stateIn, outside, tmp, netFiles, ledger>>

\* The send of the previous batch has returned (stateIn is empty), the next
\* batch is received, and the temporary files are listed.
TakeBatch == /\ gpc = "receive"
             /\ stateIn = <<>>
             /\ gateIn # <<>>
             /\ batch' = gateIn[1]
             /\ gateIn' = <<>>
             /\ resend' = DOMAIN netFiles
             /\ gpc' = "resend"
             /\ UNCHANGED <<stateIn, outside, tmp, netFiles, ledger>>

\* Glob's names are sorted, so the oldest file comes first.
OldestFirst(f) == /\ gpc = "resend"
                  /\ f \in resend
                  /\ \A g \in resend : f <= g
                  /\ resend' = resend \ {f}
                  /\ UNCHANGED <<gateIn, stateIn, outside, gpc, batch, tmp>>

Without_All(f) == [g \in DOMAIN netFiles \ resend |-> netFiles[g]]

Without(f) == [g \in DOMAIN netFiles \ {f} |-> netFiles[g]]

SkipUnreadable(f) == /\ OldestFirst(f)
                     /\ UNCHANGED <<netFiles, ledger>>

ResendFile_AnyAnswer(f, answer, removed) ==
    /\ OldestFirst(f)
    /\ Post(netFiles[f], answer)
    /\ netFiles' = IF removed THEN Without(f) ELSE netFiles
    /\ UNCHANGED <<settled, givenUp, discarded, overwritten>>

\* The file goes when the status is 200, whatever the body says; and it stays
\* when os.Remove fails.
ResendFile(f, answer, removed) ==
    /\ OldestFirst(f)
    /\ Post(netFiles[f], answer)
    /\ removed => Status200(answer)
    /\ netFiles' = IF removed THEN Without(f) ELSE netFiles
    /\ givenUp' = IF removed /\ answer = "refused" THEN givenUp \cup netFiles[f]
                                                   ELSE givenUp
    /\ discarded' = IF removed /\ answer = "rejected" THEN discarded \cup netFiles[f]
                                                      ELSE discarded
    /\ UNCHANGED <<settled, overwritten>>

\* SendToServer returns and the batch is sent on to the system state.
Finish == /\ stateIn' = <<batch>>
          /\ settled' = settled \cup EventsOf(batch)
          /\ batch' = <<>>
          /\ gpc' = "receive"

SendBatch(answer) ==
    /\ gpc = "resend"
    /\ resend = {}
    /\ Post(EventsOf(batch), answer)
    /\ givenUp' = IF answer = "refused" THEN givenUp \cup EventsOf(batch) ELSE givenUp
    /\ \/ /\ Failed(answer) /\ EventsOf(batch) # {}
          /\ gpc' = "save"
          /\ UNCHANGED <<stateIn, settled, batch>>
       \/ /\ ~(Failed(answer) /\ EventsOf(batch) # {})
          /\ Finish
    /\ UNCHANGED <<gateIn, outside, resend, tmp, netFiles, discarded, overwritten>>

\* WriteFile opens the file of this second, which truncates one that is there.
OpenTmpFile ==
    /\ gpc = "save"
    /\ tmp' = clock
    /\ netFiles' = [f \in DOMAIN netFiles \cup {clock} |->
                       IF f = clock THEN {} ELSE netFiles[f]]
    /\ overwritten' = IF clock \in DOMAIN netFiles THEN overwritten \cup netFiles[clock]
                                                   ELSE overwritten
    /\ gpc' = "write"
    /\ UNCHANGED <<gateIn, stateIn, outside, batch, resend,
                   accepted, settled, givenUp, discarded>>

WriteTmpFile == /\ gpc = "write"
                /\ netFiles' = [netFiles EXCEPT ![tmp] = EventsOf(batch)]
                /\ Finish
                /\ UNCHANGED <<gateIn, outside, resend, tmp,
                               accepted, givenUp, discarded, overwritten>>

\* "Events will be lost", at the opening or at the writing of the file.
SaveFails == /\ gpc \in {"save", "write"}
             /\ givenUp' = givenUp \cup EventsOf(batch)
             /\ Finish
             /\ UNCHANGED <<gateIn, outside, resend, tmp, netFiles,
                            accepted, discarded, overwritten>>

ResendSome == \E f \in resend :
                 \/ SkipUnreadable(f)
                 \/ \E answer \in Answer, removed \in BOOLEAN :
                       ResendFile(f, answer, removed)

Send == \E answer \in Answer : SendBatch(answer)

GateNext == TakeBatch \/ ResendSome \/ Send \/ OpenTmpFile \/ WriteTmpFile \/ SaveFails

-----------------------------------------------------------------------------
(* The goroutines at the two ends, and the wall clock.                     *)

OfferBatch_Buffered(b) ==
    /\ Len(gateIn) < 2
    /\ EventsOf(b) \cap offered = {}
    /\ offered' = offered \cup EventsOf(b)
    /\ gateIn' = Append(gateIn, b)
    /\ UNCHANGED <<stateIn, clock, crashes, gateVars>>

\* A process hands an event over once.  The next one may hand it over again,
\* also when the gateway was done with it: the process may have ended before
\* the offset was stored.
OfferBatch(b) == /\ gateIn = <<>>
                 /\ EventsOf(b) \cap offered = {}
                 /\ offered' = offered \cup EventsOf(b)
                 /\ gateIn' = <<b>>
                 /\ UNCHANGED <<stateIn, clock, crashes, gateVars>>

StoreOffsets == /\ stateIn # <<>>
                /\ stateIn' = <<>>
                /\ UNCHANGED <<gateIn, outside, gateVars>>

\* The process ends and is started again: the files stay as they are, one that
\* was being written stays cut short.
Crash == /\ crashes < MaxCrashes
         /\ crashes' = crashes + 1
         /\ gateIn' = <<>>
         /\ stateIn' = <<>>
         /\ gpc' = "receive"
         /\ batch' = <<>>
         /\ resend' = {}
         /\ offered' = {}
         /\ UNCHANGED <<clock, tmp, netFiles, ledger>>

NextSecond == /\ clock < MaxClock
              /\ clock' = clock + 1
              /\ UNCHANGED <<gateIn, stateIn, offered, crashes, gateVars>>

Next == \/ GateNext
        \/ \E b \in OfferedBatches : OfferBatch(b)
        \/ StoreOffsets
        \/ NextSecond
        \/ Crash

\* The goroutine runs (its requests time out after 15 seconds), the queue's
\* ticker goes on sending, the state goroutine takes what it is sent, and a
\* server that is asked again and again answers in the end.
Fairness == /\ WF_vars(TakeBatch)
            /\ WF_vars(ResendSome)
            /\ WF_vars(Send)
            /\ WF_vars(OpenTmpFile \/ WriteTmpFile \/ SaveFails)
            /\ \A f \in 0 .. MaxClock : SF_vars(ResendFile(f, "accepted", TRUE))
            /\ WF_vars(OfferBatch(<<>>))
            /\ WF_vars(StoreOffsets)

Spec == Init /\ [][Next]_vars /\ Fairness

-----------------------------------------------------------------------------
(* Properties.                                                             *)

\* Every event the gateway is done with is at the server, waits in a
\* temporary file, or is lost in one of three ways the code has: given up
\* with a log line (lines 213 and 232), dropped with a temporary file whose
\* resending was answered by an error in a 200 (line 170), or dropped when a
\* second batch was saved in the same second (lines 228-230).
Conservation ==
    settled \subseteq accepted \cup OnDisk \cup givenUp \cup discarded \cup overwritten

\* An event leaves the disk only for the server or by one of those losses: no
\* step of the resending or of the saving forgets one.
OnlyDeliveredLeavesDisk ==
    [][OnDisk \subseteq OnDisk' \cup accepted' \cup givenUp' \cup discarded' \cup overwritten']_vars

\* What is saved in a temporary file is resent until the server has it, unless
\* it is lost as above: the heartbeats of an idle queue are enough for that.
SavedIsResent ==
    \A b \in OfferedBatches : \A e \in EventsOf(b) :
        (e \in OnDisk) ~> (e \in accepted \cup givenUp \cup discarded \cup overwritten)

\* The gateway takes one batch at a time, always comes back for the next one,
\* and passes a batch on only when it is done with its events.
Abstract == INSTANCE Gateway WITH busy <- gpc # "receive"
RefinesGateway == Abstract!Spec

\* "don't lose any security events, save it into temp file" (line 225): what
\* was saved for one batch is not lost by saving the next one.
SavesKeepEarlierSaves == overwritten \subseteq accepted \cup OnDisk \cup givenUp
=============================================================================
