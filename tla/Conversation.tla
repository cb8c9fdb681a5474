---------------------------- MODULE Conversation ----------------------------
(***************************************************************************)
(* The message pipelines and the support desk on the same tables: inbound  *)
(* workers, createMessage with its outbound workers, and the ticket calls  *)
(* of TicketsService interleave at every statement.                        *)
(*                                                                         *)
(* closedAfter is a history variable, read by no action: the events whose  *)
(* ticket was closed after the worker that holds the lock of the event's   *)
(* job read its status.                                                    *)
(***************************************************************************)
EXTENDS Inbound, Desk, Outbound

\* The desk writes while messages come in, and both write while replies go out.
ASSUME ConversationAssumption == "staff" \in Faults /\ "others" \in Mishaps

VARIABLE closedAfter

conversationVars == <<storeVars, inboundVars, call, outboundVars, closedAfter>>

ConversationTypeOK ==
  /\ StoreTypeOK
  /\ InboundTypeOK
  /\ DeskTypeOK
  /\ OutboundTypeOK
  /\ closedAfter \subseteq Event

ConversationInit ==
  /\ StoreInit
  /\ InboundInit
  /\ DeskInit
  /\ OutboundInit
  /\ closedAfter = {}

\* Mutant of DeleteChannelEverywhere: no cascade to the inbound messages.
DeleteChannelKeepingInbound(c) ==
  /\ "delete" \in Faults \cap Mishaps
  /\ DropChannel(c)
  /\ CascadeOutbound(c)
  /\ UNCHANGED <<inboundVars, call>>

\* Mutant of DeleteChannelEverywhere: no cascade to the replies.
DeleteChannelKeepingReplies(c) ==
  /\ "delete" \in Faults \cap Mishaps
  /\ DropChannel(c)
  /\ CascadeInbound(c)
  /\ UNCHANGED <<outboundVars, call>>

\* Deleting a channel reaches the rows of every table below it at once.
DeleteChannelEverywhere(c) ==
  /\ "delete" \in Faults \cap Mishaps
  /\ DropChannel(c)
  /\ CascadeInbound(c)
  /\ CascadeOutbound(c)
  /\ UNCHANGED call

\* Threads whose ticket this step closes.
Closing == {t \in Thread : tickets[t].status # "CLOSED" /\ tickets'[t].status = "CLOSED"}

\* Events whose ticket the worker that holds their lock reads in this step; what
\* a worker reads that lost the lock is not what the job is reported done upon.
Reading == {e \in Event : \E w \in Worker : /\ At(w, "ticket") /\ run[w].job = e
                                            /\ inJobs[e].holder = w
                                            /\ run'[w].job = e /\ run'[w].pc # "ticket"}

RecordClosings ==
  closedAfter' = (closedAfter \cup {e \in Event : ThreadOf[e] \in Closing}) \ Reading

ConversationStep ==
  \/ InboundNext /\ UNCHANGED <<call, outboundVars>>
  \/ DeskNext /\ UNCHANGED <<inboundVars, outboundVars>>
  \/ OutboundNext /\ UNCHANGED <<inboundVars, call>>
  \/ \E c \in Channel : DeleteChannelEverywhere(c)

ConversationNext == ConversationStep /\ RecordClosings

ConversationSpec == ConversationInit /\ [][ConversationNext]_conversationVars

-----------------------------------------------------------------------------
\* A customer's message is not left unseen in a closed ticket: when its job
\* is done the ticket is open or pending again, unless somebody closed it
\* after the handler read its status (the status the handler acts on at the
\* end is the one it read before it stored the message).  Workers that lost
\* the lock of the job, and go on regardless, do not change that.
NotLeftClosed ==
  \A e \in Event :
    /\ inJobs[e].st = "done"
    /\ tickets[ThreadOf[e]].status = "CLOSED"
    => e \in closedAfter

\* Composing the components breaks none of the assumptions each makes about
\* the others: every behaviour of the whole is a behaviour of each of them.
ImplementsInbound == InboundSpec

ImplementsOutbound == OutboundSpec
=============================================================================
