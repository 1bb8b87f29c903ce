------------------------------ MODULE Delivery ------------------------------
(***************************************************************************)
(* The contract of the whole agent with its operator: it may forget how    *)
(* far it has read, but it never records that it has read a line whose     *)
(* event the gateway has not dealt with.  So a restart may send an event   *)
(* again but cannot skip one.                                              *)
(***************************************************************************)
EXTENDS Pipeline

VARIABLES written,     \* source -> the number of lines in it
          settled,     \* the events the gateway has dealt with
          committed    \* source -> the durable offset

vars == <<written, settled, committed>>

Init == /\ written = [s \in Source |-> 0]
        /\ settled = {}
        /\ committed = [s \in Source |-> 0]

Write(s) == /\ written' = [written EXCEPT ![s] = @ + 1]
            /\ UNCHANGED <<settled, committed>>

\* The agent invents no event.
Settle == /\ settled \subseteq settled'
          /\ settled' \subseteq UNION {LinesUpTo(s, written[s]) : s \in Source}
          /\ UNCHANGED <<written, committed>>

\* A commit moves any of the offsets, to what is settled or to the beginning.
Commit == /\ committed' \in [Source -> Nat]
          /\ \A s \in Source : LinesUpTo(s, committed'[s]) \subseteq settled
          /\ UNCHANGED <<written, settled>>

Next == Settle \/ Commit \/ \E s \in Source : Write(s)

Spec == Init /\ [][Next]_vars
=============================================================================
