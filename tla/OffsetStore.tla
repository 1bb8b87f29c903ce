---------------------------- MODULE OffsetStore -----------------------------
(***************************************************************************)
(* What the crawlers may rely on after a restart, as an atomic store: for  *)
(* every source the offset to resume from.  A save takes effect for all    *)
(* the sources of a batch at once or not at all.  The store may forget:    *)
(* what it forgets falls back to offset 0, so the source is read again     *)
(* from its beginning, and never to an older offset.                       *)
(***************************************************************************)
EXTENDS Pipeline

VARIABLES stored,    \* source -> the offset a restart resumes from
          pending    \* the batch being stored, or <<>>

vars == <<stored, pending>>

Mentions(batch, s) == \E i \in 1 .. Len(batch) : batch[i].src = s

\* The offset of the last container of s in the batch.
LastOffset(batch, s) ==
    batch[CHOOSE i \in 1 .. Len(batch) :
             /\ batch[i].src = s
             /\ \A j \in (i + 1) .. Len(batch) : batch[j].src # s].offset

Init == /\ stored = [s \in Source |-> 0]
        /\ pending = <<>>

Accept == /\ pending = <<>>
          /\ pending' \in Batch
          /\ UNCHANGED stored

Save == /\ pending # <<>>
        /\ pending' = <<>>
        /\ stored' \in [Source -> Nat]
        /\ \A s \in Source :
              stored'[s] \in IF Mentions(pending, s) THEN {LastOffset(pending, s)}
                                                     ELSE {stored[s], 0}

\* An entry expires, or the state file is unreadable.
Forget == /\ stored' \in [Source -> Nat]
          /\ \A s \in Source : stored'[s] \in {stored[s], 0}
          /\ pending' \in {pending, <<>>}

Next == Accept \/ Save \/ Forget

Spec == Init /\ [][Next]_vars
=============================================================================
