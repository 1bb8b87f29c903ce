----------------------------- MODULE MCEnricher -----------------------------
(***************************************************************************)
(* A small instance of Enricher.  The caches disagree on the name of an    *)
(* address; one has an alias, and a name for the internal address.         *)
(***************************************************************************)
EXTENDS Enricher

MCIp == {"i", "j"}
MCName == {"x", "y"}
MCInternal == {"j"}

MCCaches == {[a |-> {<<"i", "x">>}, cname |-> {}],
             [a |-> {<<"i", "y">>}, cname |-> {}],
             [a |-> {<<"i", "x">>, <<"j", "x">>}, cname |-> {<<"y", "x">>}]}
=============================================================================
