---------------------------- MODULE MCDbSession ----------------------------
(***************************************************************************)
(* Instances of DbSession for TLC: one statement that inserts and one that *)
(* queries, as in the programs beside the libraries.                       *)
(***************************************************************************)
EXTENDS DbSession, Lob

CONSTANTS ins, sel

MCStmts == {ins, sel}
MCKinds == [s \in {ins, sel} |-> IF s = ins THEN {"insert"} ELSE {"select"}]

\* With the library for Oracle, the only one that has them, LOBs keep the files
\* that are written into them (module Lob; _ooci.cpp 699-900).
LobsKept == drv = "oracle" => LobExact
=============================================================================
