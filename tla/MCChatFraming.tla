--------------------------- MODULE MCChatFraming ---------------------------
(***************************************************************************)
(* An instance of ChatFraming for TLC: three users, of whom ann and bob    *)
(* are friends, bodies of two bytes, a text file whose last piece is not   *)
(* full, one whose last piece is the word exit, and an image that fills    *)
(* its two pieces, holds a byte 0, and cannot be written by cat.           *)
(***************************************************************************)
EXTENDS ChatFraming

CONSTANTS ann, bob, cat, note, bye, photo

MCClients == {ann, bob, cat}
MCFriends == {<<ann, bob>>, <<bob, ann>>}
MCFiles   == {note, bye, photo}
MCSize    == [f \in MCFiles |-> IF f = photo THEN 4 ELSE 3]
MCImages  == {photo}
MCNuls    == {<<photo, 3>>}
MCExits   == {bye}
MCNoAccess == {<<cat, photo>>}
=============================================================================
