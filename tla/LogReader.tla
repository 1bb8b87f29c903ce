----------------------------- MODULE LogReader ------------------------------
(***************************************************************************)
(* What a crawler promises to the rest of the agent, without the bytes of  *)
(* the files: every line of a source is read once, in order, and sent with *)
(* the offset behind it.  Sources only grow here, and a writer is seen     *)
(* either at the end of a line or in the middle of its first new one.      *)
(***************************************************************************)
EXTENDS Pipeline

CONSTANT MaxLines      \* bound on the lines of a source

(* An operator whose name has an underscore is the one it is named after    *)
(* with a plausible bug: the properties must notice it.                    *)

VARIABLES written,     \* source -> the number of lines in it
          pos,         \* SourceState.Offset in the memory of the crawler
          enrichIn     \* channel IpEnricher.Input

vars == <<written, pos, enrichIn>>

TypeOK == /\ written \in [Source -> 0 .. MaxLines]
          /\ pos \in [Source -> Nat]
          /\ Channel(enrichIn, Container)

Init == /\ written = [s \in Source |-> 0]
        /\ pos = [s \in Source |-> 0]
        /\ enrichIn = <<>>

WriteLine(s) == /\ written[s] < MaxLines
                /\ written' = [written EXCEPT ![s] = @ + 1]
                /\ UNCHANGED <<pos, enrichIn>>

\* Sending the container is the last step of the reading; the crawler goes on
\* to the next file when the enricher has received it.
SendContainer(s, offset, events) ==
    /\ enrichIn = <<>>
    /\ enrichIn' = <<[src |-> s, offset |-> offset, events |-> events]>>

CrawlTo_TakesUnfinishedLine(s, n) ==
    /\ n \in (pos[s] + 1) .. written[s]
    /\ SendContainer(s, n, LinesUpTo(s, n + 1) \ LinesUpTo(s, pos[s]))
    /\ pos' = [pos EXCEPT ![s] = n]
    /\ UNCHANGED written

\* The file is read up to line n: to its end, unless a read fails.
CrawlTo(s, n) ==
    /\ n \in (pos[s] + 1) .. written[s]
    /\ SendContainer(s, n, LinesUpTo(s, n) \ LinesUpTo(s, pos[s]))
    /\ pos' = [pos EXCEPT ![s] = n]
    /\ UNCHANGED written

Crawl(s) == \E n \in (pos[s] + 1) .. written[s] : CrawlTo(s, n)

\* Behind pos there is nothing but an unfinished line, and the loop breaks
\* before it sets the offset of the container, which is sent with offset 0;
\* or the first read fails, and the old offset is sent again.
CrawlNothing(s) == /\ \E n \in {0, pos[s]} : SendContainer(s, n, {})
                   /\ UNCHANGED <<written, pos>>

ReaderNext == \E s \in Source : WriteLine(s) \/ Crawl(s) \/ CrawlNothing(s)

-----------------------------------------------------------------------------
\* The enricher at the other end.
TakeContainer == /\ enrichIn # <<>>
                 /\ enrichIn' = <<>>
                 /\ UNCHANGED <<written, pos>>

Spec == Init /\ [][ReaderNext \/ TakeContainer]_vars
=============================================================================
