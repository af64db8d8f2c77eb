----------------------------- MODULE MCAccounts -----------------------------
(***************************************************************************)
(* An instance of Accounts for TLC: the administrator, a name as long as   *)
(* the query of the menu still takes, and one that is too long for it and  *)
(* for the update of a ban; passwords that are too short, of a good        *)
(* length, and as long as one line is read for.                            *)
(***************************************************************************)
EXTENDS Accounts

CONSTANTS admin, ann, zoe, short, good, long

MCNames    == {admin, ann, zoe}
MCNameLen  == [n \in MCNames |-> IF n = ann THEN 13 ELSE IF n = zoe THEN 18 ELSE 5]
MCPwds     == {short, good, long}
MCPwdLen   == [p \in MCPwds |-> IF p = long THEN 20 ELSE IF p = good THEN 6 ELSE 5]
MCUsers    == [n \in {admin} |-> short]
=============================================================================
