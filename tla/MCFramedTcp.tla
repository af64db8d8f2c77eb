---------------------------- MODULE MCFramedTcp ----------------------------
(***************************************************************************)
(* Instances of FramedTcp for TLC: two threads, headers of two bytes,      *)
(* messages of up to two bytes (and one that is too long).                 *)
(***************************************************************************)
EXTENDS FramedTcp

CONSTANTS w1, w2

MCOne == {w1}
MCTwo == {w1, w2}
=============================================================================
