----------------------------- MODULE MCMailbox -----------------------------
(***************************************************************************)
(* Instances of Mailbox for TLC: two users, a name nobody has, and one too *)
(* long for the query of the users. The two users' names are as long       *)
(* together as still fits the statements that insert a friendship.         *)
(***************************************************************************)
EXTENDS Mailbox

CONSTANTS ann, bob, nobody, longest

MCUsers     == {ann, bob}
MCStrangers == {nobody, longest}
MCNameLen   == [n \in Names |-> CASE n = bob     -> 10
                                 [] n = longest -> 25
                                 [] OTHER       -> 3]
MCMutual    == {<<ann, bob>>, <<bob, ann>>}

\* What a thread of the server holds of a message it is done with, and of a
\* receiver it has written to, is never looked at again.
MCView ==
  <<tables, clientV, req, recvV, spc, listed, fetchV, settled, pairHist,
    [s \in Sessions |-> IF spc[s] \in {"none", "read", "over"} THEN NoMsg
                        ELSE job[s]],
    [s \in Sessions |-> IF spc[s] = "write" THEN target[s] ELSE 0]>>
=============================================================================
