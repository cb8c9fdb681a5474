------------------------------- MODULE MCDesk -------------------------------
(***************************************************************************)
(* Instances of Desk: tickets of one channel.                              *)
(***************************************************************************)
EXTENDS Desk

MCChanOf == [t \in Thread |-> CHOOSE c \in Channel : TRUE]
=============================================================================
