------------------------------ MODULE Channel ------------------------------
(***************************************************************************)
(* What a Connection promises to the session router: what is sent arrives  *)
(* in order, each message at most once, and so does what comes back; the   *)
(* owner is told at most once that the connection is gone, and after that  *)
(* nothing passes in either direction.                                     *)
(***************************************************************************)
EXTENDS Naturals, Sequences

VARIABLES sent,     \* number of messages handed in, 1 .. sent
          arrived,  \* messages that the back end got
          heard,    \* messages of the back end that the owner got
          told      \* how often the owner was told that the connection is gone

channelVars == <<sent, arrived, heard, told>>

ChannelInit == sent = 0 /\ arrived = << >> /\ heard = << >> /\ told = 0

NextOf(got) == IF got = << >> THEN 1 ELSE got[Len(got)] + 1

Send ==
  /\ sent' = sent + 1
  /\ UNCHANGED <<arrived, heard, told>>

Arrive ==
  /\ told = 0
  /\ NextOf(arrived) <= sent
  /\ arrived' = Append(arrived, NextOf(arrived))
  /\ UNCHANGED <<sent, heard, told>>

Hear ==
  /\ told = 0
  /\ heard' = Append(heard, NextOf(heard))
  /\ UNCHANGED <<sent, arrived, told>>

Tell ==
  /\ told = 0
  /\ told' = 1
  /\ UNCHANGED <<sent, arrived, heard>>

ChannelSpec == ChannelInit /\ [][Send \/ Arrive \/ Hear \/ Tell]_channelVars
=============================================================================
