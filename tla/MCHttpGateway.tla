--------------------------- MODULE MCHttpGateway ----------------------------
(***************************************************************************)
(* A small instance of HttpGateway: heartbeats and batches of one source,  *)
(* with one event, or with two others; one restart, after which both can   *)
(* be offered again.                                                       *)
(***************************************************************************)
EXTENDS HttpGateway

MCSource == {"log"}

Read(from, to) == [src |-> "log", offset |-> to,
                   events |-> LinesUpTo("log", to) \ LinesUpTo("log", from)]

MCOfferedBatches == {<<>>, <<Read(0, 1)>>, <<Read(1, 2), Read(2, 3)>>}
=============================================================================
