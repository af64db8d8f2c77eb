---------------------------- MODULE MCChatServer ----------------------------
(***************************************************************************)
(* Instances of ChatServer for TLC: two users, friends in one direction or *)
(* in both (then they are interchangeable in a run of invariants).         *)
(***************************************************************************)
EXTENDS ChatServer, TLC

CONSTANTS ann, bob

MCNames   == {ann, bob}
MCOneWay  == {<<ann, bob>>}
MCMutual  == {<<ann, bob>>, <<bob, ann>>}
MCSwap    == Permutations({ann, bob})
=============================================================================
