---------------------------- MODULE MCUserList ----------------------------
(***************************************************************************)
(* Instances of UserList for TLC: three clients of two names, or with a    *)
(* name of its own each, and fewer cells than clients or as many.          *)
(***************************************************************************)
EXTENDS UserList

CONSTANTS ann, bob, eve

MCNames  == {ann, bob}
MCTwice  == <<ann, bob, ann>>
MCThree  == {ann, bob, eve}
MCEach   == <<ann, bob, eve>>
=============================================================================
