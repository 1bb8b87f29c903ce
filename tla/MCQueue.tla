------------------------------- MODULE MCQueue ------------------------------
(***************************************************************************)
(* A small instance of Queue.  One unit of time is 20 seconds, so the      *)
(* default idle timeout of 60 seconds is 3 units and the other two         *)
(* durations are 1.  "bulk" reaches the limit on events in two containers, *)
(* the others reach the limit on containers first.                         *)
(***************************************************************************)
EXTENDS Queue

MCContainer == {"plain", "critical", "bulk"}

MCEventCount == [c \in MCContainer |-> IF c = "bulk" THEN 2 ELSE 1]

MCHasCritical == [c \in MCContainer |-> c = "critical"]
=============================================================================
