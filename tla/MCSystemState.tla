--------------------------- MODULE MCSystemState ----------------------------
(***************************************************************************)
(* A small instance of SystemState: two sources, and batches that mention  *)
(* one of them, both, or one of them twice, with offsets that grow and     *)
(* with the offset 0 of a container that read no line.                     *)
(***************************************************************************)
EXTENDS SystemState

MCSource == {"a", "b"}

At(s, n) == [src |-> s, offset |-> n, events |-> {}]

MCOfferedBatches == {<<>>, <<At("a", 1)>>, <<At("b", 1)>>, <<At("a", 2), At("b", 2)>>,
                     <<At("a", 3), At("a", 0)>>}
=============================================================================
