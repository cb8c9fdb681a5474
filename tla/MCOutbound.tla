----------------------------- MODULE MCOutbound -----------------------------
(***************************************************************************)
(* Instances of Outbound: replies in one conversation.                     *)
(***************************************************************************)
EXTENDS Outbound

MCChanOf == [t \in Thread |-> CHOOSE c \in Channel : TRUE]

MCReplyTo == [r \in Reply |-> CHOOSE t \in Thread : TRUE]
=============================================================================
