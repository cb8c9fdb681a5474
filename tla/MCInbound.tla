------------------------------ MODULE MCInbound ------------------------------
(***************************************************************************)
(* Instances of Inbound: every event belongs to the same conversation, the *)
(* case in which handlers meet, or each to a conversation of its own.      *)
(***************************************************************************)
EXTENDS Inbound

MCChanOf == [t \in Thread |-> CHOOSE c \in Channel : TRUE]

MCThreadOf == [e \in Event |-> CHOOSE t \in Thread : TRUE]

MCThreadApart == CHOOSE f \in [Event -> Thread] : \A d, e \in Event : f[d] = f[e] => d = e
=============================================================================
