------------------------------ MODULE MCLoader ------------------------------
(***************************************************************************)
(* Instances of Loader and Text for TLC: three files, one written or put,  *)
(* one received and one fetched; the first may have no head, or a blank    *)
(* line between its rows.                                                  *)
(***************************************************************************)
EXTENDS Loader, Text

CONSTANTS written, received, fetched

L(kind, n) == [kind |-> kind, n |-> n]

OneStation == <<L("spcc", 0), L("count", 1), L("station", 2), L("row", 0),
                L("row", 0), L("end", 0)>>
TwoStations == <<L("spcc", 0), L("other", 0), L("count", 2), L("station", 1),
                 L("row", 0), L("station", 1), L("row", 0), L("end", 0)>>
BlankLine == <<L("spcc", 0), L("count", 1), L("station", 2), L("row", 0),
               L("other", 0), L("row", 0), L("end", 0)>>
NoHead == <<L("spcc", 0), L("end", 0)>>

MCFiles == {written, received, fetched}
MCVia == [f \in MCFiles |-> CASE f = written -> {"rename", "put"}
                              [] f = received -> {"socket"}
                              [] f = fetched -> {"get"}]
MCContents == [f \in MCFiles |-> CASE f = written -> {BlankLine, NoHead}
                                   [] f = received -> {TwoStations}
                                   [] f = fetched -> {OneStation}]

\* Where the loader takes lines apart and compares names, the helpers it calls
\* do what it relies on (module Text; pspccfiles.cpp 177-261).
HelpersExact == lpc \in {"opendir", "station", "rows"} => TextExact
=============================================================================
