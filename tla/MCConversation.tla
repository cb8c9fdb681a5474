--------------------------- MODULE MCConversation ---------------------------
(***************************************************************************)
(* Instances of Conversation: one conversation on one channel.             *)
(***************************************************************************)
EXTENDS Conversation

MCChanOf == [t \in Thread |-> CHOOSE c \in Channel : TRUE]

MCThreadOf == [e \in Event |-> CHOOSE t \in Thread : TRUE]

MCReplyTo == [r \in Reply |-> CHOOSE t \in Thread : TRUE]
=============================================================================
