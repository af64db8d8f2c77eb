------------------------------ MODULE Channel ------------------------------
(***************************************************************************)
(* What the framed connection promises: messages come out in the order     *)
(* they were put in, each of them whole, none of them twice, and none      *)
(* that was not put in. Those at the end may be missing.                   *)
(***************************************************************************)
EXTENDS Naturals, Sequences

CONSTANT Messages

VARIABLES put,  \* messages put into the channel
          got   \* messages taken out of it

channelVars == <<put, got>>

ChannelInit == put = <<>> /\ got = <<>>

Put(m) == put' = Append(put, m) /\ got' = got

Get ==
  /\ Len(got) < Len(put)
  /\ got' = Append(got, put[Len(got) + 1])
  /\ put' = put

ChannelNext == (\E m \in Messages : Put(m)) \/ Get

ChannelSpec == ChannelInit /\ [][ChannelNext]_channelVars
=============================================================================
