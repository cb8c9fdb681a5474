-------------------------------- MODULE Store --------------------------------
(***************************************************************************)
(* The tables of prisma/schema.prisma that the message pipelines share,    *)
(* with the constraints PostgreSQL enforces on them.  Every Prisma call in *)
(* the code is one statement and one transaction of its own, so every      *)
(* operator below that changes a table is used by exactly one step of a    *)
(* handler.                                                                *)
(*                                                                         *)
(* A Thread stands for a pair (channelId, externalThreadId).  It identifies *)
(* at most one ticket (the unique key of model Ticket) and at most one     *)
(* customer (the unique key orgId, platform, externalId of model Customer: *)
(* an organisation has at most one channel of each platform).              *)
(***************************************************************************)
EXTENDS Naturals

CONSTANTS
  Channel,   \* channels of the organisation
  Thread,    \* conversations (channelId, externalThreadId)
  ChanOf,    \* the channel of a thread
  User,      \* users who may be assigned a ticket
  NoUser     \* a null assigneeId

ASSUME StoreAssumption == /\ ChanOf \in [Thread -> Channel]
                          /\ NoUser \notin User

VARIABLES
  channels,    \* the channels that exist
  customers,   \* the threads whose customer row exists
  tickets      \* the ticket row of each thread

storeVars == <<channels, customers, tickets>>

\* enum TicketStatus; "NONE" is a thread without a ticket row.
TicketStatus == {"OPEN", "PENDING", "CLOSED"}

TicketRow == [status : TicketStatus \cup {"NONE"},
              linked : BOOLEAN,                     \* customerId is not null
              assignee : User \cup {NoUser}]

NoRow == [status |-> "NONE", linked |-> FALSE, assignee |-> NoUser]

StoreTypeOK ==
  /\ channels \subseteq Channel
  /\ customers \subseteq Thread
  /\ tickets \in [Thread -> TicketRow]

StoreInit ==
  /\ channels = Channel
  /\ customers = {}
  /\ tickets = [t \in Thread |-> NoRow]

HasTicket(t) == tickets[t].status # "NONE"

ChannelExists(t) == ChanOf[t] \in channels

-----------------------------------------------------------------------------
(* Statements.  An insert that breaks a unique key or a foreign key, and an *)
(* update of a row that is gone, throw: the guards say when they do not.    *)

InsertCustomer(t) ==
  /\ t \notin customers
  /\ customers' = customers \cup {t}

CanInsertTicket(t) == ChannelExists(t) /\ ~HasTicket(t)

InsertTicket(t, row) ==
  /\ CanInsertTicket(t)
  /\ tickets' = [tickets EXCEPT ![t] = row]

SetStatus(t, status) ==
  /\ HasTicket(t)
  /\ tickets' = [tickets EXCEPT ![t].status = status]

LinkCustomer(t) ==
  /\ HasTicket(t)
  /\ tickets' = [tickets EXCEPT ![t].linked = TRUE]

\* ChannelsService.deleteChannel: the tickets of the channel go with it
\* (onDelete: Cascade); customers belong to the organisation and stay.
DropChannel(c) ==
  /\ c \in channels
  /\ channels' = channels \ {c}
  /\ tickets' = [t \in Thread |-> IF ChanOf[t] = c THEN NoRow ELSE tickets[t]]
  /\ UNCHANGED customers
=============================================================================
