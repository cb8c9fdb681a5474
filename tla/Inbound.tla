------------------------------- MODULE Inbound -------------------------------
(***************************************************************************)
(* From the platform's webhook to the message row: WebhooksController      *)
(* .handleWebhook, the "inbound" queue and processInboundMessage, the      *)
(* handler the inbound workers run for every job.                          *)
(*                                                                         *)
(* The handler is a sequence of Prisma calls, each its own transaction, so *)
(* each is one action; what the handler remembers between two calls is in  *)
(* run[w].  Nothing the handler does is rolled back when a later call      *)
(* throws.                                                                 *)
(***************************************************************************)
EXTENDS Store

CONSTANTS
  Event,       \* webhook calls, hence jobs of the inbound queue
  ThreadOf,    \* the conversation an event belongs to
  Worker,      \* inbound worker processes
  NoWorker,
  NoEvent,     \* the job of an idle worker
  MaxStalled,
  Faults       \* which of "crash", "expire", "db", "delete", "staff" may happen

ASSUME InboundAssumption ==
  /\ ThreadOf \in [Event -> Thread]
  /\ NoWorker \notin Worker
  /\ NoEvent \notin Event
  /\ MaxStalled \in Nat
  /\ Faults \subseteq {"crash", "expire", "db", "delete", "staff"}

VARIABLES
  parsed,    \* events whose webhook call found its channel
  inJobs,    \* the inbound queue
  run,       \* what each worker is doing
  inRows,    \* INBOUND rows of table Message: how many delivery a of job e inserted
  notices    \* rows of table Notification, as <<job, delivery>>

InQ == INSTANCE JobQueue WITH Job <- Event, jobs <- inJobs

inboundVars == <<parsed, inJobs, run, inRows, notices>>

Delivery == 0..MaxStalled   \* the a-th delivery of a job follows its a-th stall

\* One program counter per Prisma call of the handler, in source order.
Pc == {"idle", "channel", "customer", "newCustomer", "touch", "ticket", "newTicket",
       "link", "message", "notify", "reopen", "return"}

Run == [pc : Pc, job : Event \cup {NoEvent}, delivery : Delivery,
        seen : TicketStatus \cup {"NONE"}]     \* ticket.status as read at line 71

Idle == [pc |-> "idle", job |-> NoEvent, delivery |-> 0, seen |-> "NONE"]

InboundTypeOK ==
  /\ parsed \subseteq Event
  /\ InQ!TypeOK
  /\ run \in [Worker -> Run]
  /\ inRows \in [Event -> [Delivery -> Nat]]
  /\ notices \subseteq Event \X Delivery

InboundInit ==
  /\ parsed = {}
  /\ InQ!Init
  /\ run = [w \in Worker |-> Idle]
  /\ inRows = [e \in Event |-> [a \in Delivery |-> 0]]
  /\ notices = {}

ThreadIn(w) == ThreadOf[run[w].job]

At(w, pc) == run[w].pc = pc

Goto(w, pc) == run' = [run EXCEPT ![w].pc = pc]

-----------------------------------------------------------------------------
\* POST /webhook/:channelId, or the call that simulates an e-mail: an unknown
\* channel or an unparsable body is answered with an error and leaves no trace.
HandleWebhook(e) ==
  /\ e \notin parsed
  /\ ChannelExists(ThreadOf[e])
  /\ parsed' = parsed \cup {e}
  /\ UNCHANGED <<storeVars, inJobs, run, inRows, notices>>

\* The job is added, whatever became of the channel meanwhile.  Nothing obliges
\* the call to come this far: it may throw, or the process die, and then the
\* platform gets an error or no answer.
QueueEvent(e) ==
  /\ e \in parsed
  /\ InQ!Add(e)
  /\ UNCHANGED <<storeVars, parsed, run, inRows, notices>>

\* Mutant of StartJob: deliveries counted from one.
StartJobFromOne(w, e) ==
  /\ At(w, "idle")
  /\ InQ!Take(w, e)
  /\ run' = [run EXCEPT ![w] = [pc |-> "channel", job |-> e,
                                delivery |-> inJobs[e].stalls + 1, seen |-> "NONE"]]
  /\ UNCHANGED <<storeVars, parsed, inRows, notices>>

StartJob(w, e) ==
  /\ At(w, "idle")
  /\ InQ!Take(w, e)
  /\ run' = [run EXCEPT ![w] = [pc |-> "channel", job |-> e,
                                delivery |-> inJobs[e].stalls, seen |-> "NONE"]]
  /\ UNCHANGED <<storeVars, parsed, inRows, notices>>

FindChannel(w) ==
  /\ At(w, "channel")
  /\ ChannelExists(ThreadIn(w))
  /\ Goto(w, "customer")
  /\ UNCHANGED <<storeVars, parsed, inJobs, inRows, notices>>

\* Mutant of FindCustomer: an existing customer is not found.
FindNoCustomer(w) ==
  /\ At(w, "customer")
  /\ Goto(w, "newCustomer")
  /\ UNCHANGED <<storeVars, parsed, inJobs, inRows, notices>>

FindCustomer(w) ==
  /\ At(w, "customer")
  /\ Goto(w, IF ThreadIn(w) \in customers THEN "touch" ELSE "newCustomer")
  /\ UNCHANGED <<storeVars, parsed, inJobs, inRows, notices>>

CreateCustomer(w) ==
  /\ At(w, "newCustomer")
  /\ InsertCustomer(ThreadIn(w))
  /\ Goto(w, "ticket")
  /\ UNCHANGED <<channels, tickets, parsed, inJobs, inRows, notices>>

\* customer.update of lastMessage, whose value no property looks at.
TouchCustomer(w) ==
  /\ At(w, "touch")
  /\ Goto(w, "ticket")
  /\ UNCHANGED <<storeVars, parsed, inJobs, inRows, notices>>

\* Mutant of FindTicket: the branch that links the ticket is missing.
FindTicketUnlinked(w) ==
  /\ At(w, "ticket")
  /\ LET status == tickets[ThreadIn(w)].status IN
       run' = [run EXCEPT ![w] = [@ EXCEPT !.seen = status,
                                           !.pc = IF status = "NONE" THEN "newTicket"
                                                                     ELSE "message"]]
  /\ UNCHANGED <<storeVars, parsed, inJobs, inRows, notices>>

FindTicket(w) ==
  /\ At(w, "ticket")
  /\ LET row == tickets[ThreadIn(w)] IN
       run' = [run EXCEPT ![w] =
                 [@ EXCEPT !.seen = row.status,
                           !.pc = CASE row.status = "NONE" -> "newTicket"
                                    [] row.status # "NONE" /\ row.linked -> "message"
                                    [] row.status # "NONE" /\ ~row.linked -> "link"]]
  /\ UNCHANGED <<storeVars, parsed, inJobs, inRows, notices>>

\* Mutant of CreateTicket: the first message of a new ticket is not stored.
CreateTicketAlone(w) ==
  /\ At(w, "newTicket")
  /\ InsertTicket(ThreadIn(w), [status |-> "OPEN", linked |-> TRUE, assignee |-> NoUser])
  /\ run' = [run EXCEPT ![w] = [@ EXCEPT !.pc = "notify", !.seen = "OPEN"]]
  /\ UNCHANGED <<channels, customers, parsed, inJobs, inRows, notices>>

CreateTicket(w) ==
  /\ At(w, "newTicket")
  /\ InsertTicket(ThreadIn(w), [status |-> "OPEN", linked |-> TRUE, assignee |-> NoUser])
  /\ run' = [run EXCEPT ![w] = [@ EXCEPT !.pc = "message", !.seen = "OPEN"]]
  /\ UNCHANGED <<channels, customers, parsed, inJobs, inRows, notices>>

LinkTicket(w) ==
  /\ At(w, "link")
  /\ LinkCustomer(ThreadIn(w))
  /\ Goto(w, "message")
  /\ UNCHANGED <<channels, customers, parsed, inJobs, inRows, notices>>

\* Mutant of CreateMessage: an insert whose answer is late is issued again.
CreateMessageAgain(w) ==
  /\ At(w, "message")
  /\ HasTicket(ThreadIn(w))
  /\ inRows' = [inRows EXCEPT ![run[w].job][run[w].delivery] = @ + 1]
  /\ inRows[run[w].job][run[w].delivery] < 2
  /\ Goto(w, "notify") \/ UNCHANGED run
  /\ UNCHANGED <<storeVars, parsed, inJobs, notices>>

CreateMessage(w) ==
  /\ At(w, "message")
  /\ HasTicket(ThreadIn(w))
  /\ inRows' = [inRows EXCEPT ![run[w].job][run[w].delivery] = @ + 1]
  /\ Goto(w, "notify")
  /\ UNCHANGED <<storeVars, parsed, inJobs, notices>>

\* Mutant of CreateNotification: a closed ticket is not reopened.
CreateNotificationOnly(w) ==
  /\ At(w, "notify")
  /\ notices' = notices \cup {<<run[w].job, run[w].delivery>>}
  /\ Goto(w, "return")
  /\ UNCHANGED <<storeVars, parsed, inJobs, inRows>>

CreateNotification(w) ==
  /\ At(w, "notify")
  /\ notices' = notices \cup {<<run[w].job, run[w].delivery>>}
  /\ Goto(w, IF run[w].seen = "CLOSED" THEN "reopen" ELSE "return")
  /\ UNCHANGED <<storeVars, parsed, inJobs, inRows>>

ReopenTicket(w) ==
  /\ At(w, "reopen")
  /\ SetStatus(ThreadIn(w), "PENDING")
  /\ Goto(w, "return")
  /\ UNCHANGED <<channels, customers, parsed, inJobs, inRows, notices>>

\* The handler returns: BullMQ completes the job.
CompleteJob(w) ==
  /\ At(w, "return")
  /\ InQ!Finish(w, run[w].job, "done")
  /\ run' = [run EXCEPT ![w] = Idle]
  /\ UNCHANGED <<storeVars, parsed, inRows, notices>>

\* The constraint that makes the call w is about to issue throw.
Rejected(w) ==
  \/ At(w, "channel") /\ ~ChannelExists(ThreadIn(w))
  \/ At(w, "newCustomer") /\ ThreadIn(w) \in customers
  \/ At(w, "newTicket") /\ ~CanInsertTicket(ThreadIn(w))
  \/ run[w].pc \in {"link", "message", "reopen"} /\ ~HasTicket(ThreadIn(w))

\* Mutant of FailJob: the catch block does not rethrow.
FailJobSilently(w) ==
  /\ Rejected(w) \/ ("db" \in Faults /\ run[w].pc \notin {"idle", "return"})
  /\ InQ!Finish(w, run[w].job, "done")
  /\ run' = [run EXCEPT ![w] = Idle]
  /\ UNCHANGED <<storeVars, parsed, inRows, notices>>

\* A call throws, the catch block rethrows, BullMQ fails the job for good.
FailJob(w) ==
  /\ Rejected(w) \/ ("db" \in Faults /\ run[w].pc \notin {"idle", "return"})
  /\ InQ!Finish(w, run[w].job, "failed")
  /\ run' = [run EXCEPT ![w] = Idle]
  /\ UNCHANGED <<storeVars, parsed, inRows, notices>>

\* The worker process dies; it restarts with nothing in hand.
CrashWorker(w) ==
  /\ "crash" \in Faults
  /\ ~At(w, "idle")
  /\ run' = [run EXCEPT ![w] = Idle]
  /\ UNCHANGED <<storeVars, parsed, inJobs, inRows, notices>>

Abandoned(e) == inJobs[e].st = "active" /\ run[inJobs[e].holder].job # e

\* A lock expires: of a dead worker sooner or later, of a live one perhaps.
ExpireLock(e) ==
  /\ Abandoned(e) \/ "expire" \in Faults
  /\ InQ!Stall(e)
  /\ UNCHANGED <<storeVars, parsed, run, inRows, notices>>

\* Message rows go with the channel (onDelete: Cascade), notifications stay.
CascadeInbound(c) ==
  /\ inRows' = [e \in Event |-> IF ChanOf[ThreadOf[e]] = c
                                THEN [a \in Delivery |-> 0] ELSE inRows[e]]
  /\ UNCHANGED <<parsed, inJobs, run, notices>>

DeleteChannel(c) ==
  /\ "delete" \in Faults
  /\ DropChannel(c)
  /\ CascadeInbound(c)

\* What the rest of the system does to the tables meanwhile: TicketsService and
\* MessagesService insert a ticket by hand or overwrite its status or assignee;
\* they never touch the customer link.
StaffWrites ==
  /\ "staff" \in Faults
  /\ \E t \in Thread, row \in TicketRow :
       /\ ChannelExists(t)
       /\ row.status # "NONE"
       /\ row.linked = tickets[t].linked
       /\ tickets' = [tickets EXCEPT ![t] = row]
  /\ UNCHANGED <<channels, customers, inboundVars>>

-----------------------------------------------------------------------------
WorkerStep(w) ==
  \/ \E e \in Event : StartJob(w, e)
  \/ FindChannel(w) \/ FindCustomer(w) \/ CreateCustomer(w) \/ TouchCustomer(w)
  \/ FindTicket(w) \/ CreateTicket(w) \/ LinkTicket(w)
  \/ CreateMessage(w) \/ CreateNotification(w) \/ ReopenTicket(w)
  \/ CompleteJob(w) \/ FailJob(w)

InboundNext ==
  \/ \E e \in Event : HandleWebhook(e) \/ QueueEvent(e) \/ ExpireLock(e)
  \/ \E w \in Worker : WorkerStep(w) \/ CrashWorker(w)

InboundAll == <<storeVars, inboundVars>>

InboundStep == InboundNext \/ StaffWrites \/ \E c \in Channel : DeleteChannel(c)

InboundAllInit == StoreInit /\ InboundInit

InboundSpec == InboundAllInit /\ [][InboundStep]_InboundAll

\* Workers keep running and BullMQ's stalled checker keeps checking.
InboundFairness ==
  /\ \A w \in Worker : WF_InboundAll(WorkerStep(w))
  /\ \A e \in Event : WF_InboundAll(Abandoned(e) /\ ExpireLock(e))

FairInbound == InboundSpec /\ InboundFairness

-----------------------------------------------------------------------------
(* Properties.                                                             *)

TypeInvariant == StoreTypeOK /\ InboundTypeOK

\* A job is reported done only if its message is in the thread's ticket and
\* the staff was notified of it, unless the channel was deleted meanwhile.
\* (processInboundMessage rethrows what it catches: no error is swallowed.)
DoneMeansStored ==
  \A e \in Event : inJobs[e].st = "done" /\ ChannelExists(ThreadOf[e]) =>
    \E a \in Delivery : inRows[e][a] > 0 /\ <<e, a>> \in notices

\* However often a job is taken over, each delivery of it stores the message
\* at most once, so a message is duplicated only by an expired lock, and at
\* most once for each time that happened.  (message.create has no key that
\* would reject a second copy.)
OneRowPerDelivery ==
  \A e \in Event, a \in Delivery :
    inRows[e][a] > 0 => inRows[e][a] = 1 /\ a <= inJobs[e].stalls

\* A stored message is readable: its channel and ticket exist, the ticket is
\* linked to a customer and the customer row exists, also when the ticket had
\* been created by hand without one.
RowsHaveContext ==
  \A e \in Event, a \in Delivery : inRows[e][a] > 0 =>
    LET t == ThreadOf[e] IN
      ChannelExists(t) /\ HasTicket(t) /\ tickets[t].linked /\ t \in customers

\* Nobody is notified of a message that was never stored, wherever a handler
\* died or threw and whoever took its job over: each notification belongs to
\* the delivery that stored its message.  (Row and notification are two inserts
\* without a transaction.)
NoticeHasMessage ==
  \A n \in notices : ChannelExists(ThreadOf[n[1]]) => inRows[n[1]][n[2]] > 0

\* While the events being handled belong to different conversations and the
\* database is up, a crash in the middle of the handler loses nothing: the next
\* delivery finds the rows its predecessor left and carries on.  Only a job
\* whose allowance of stalls is used up is failed.
LostOnlyByStalls ==
  \A e \in Event : inJobs[e].st = "failed" => inJobs[e].stalls = MaxStalled

\* Every message accepted from a platform ends up stored: no job fails.
NoMessageLost == \A e \in Event : inJobs[e].st # "failed"

-----------------------------------------------------------------------------
(* The inductive invariant behind the four properties above.               *)

BeforeMessage == {"channel", "customer", "newCustomer", "touch", "ticket", "newTicket",
                  "link", "message"}

AfterMessage == {"notify", "reopen", "return"}

\* Only an active job is locked, and by a worker.
LocksFit ==
  \A e \in Event : IF inJobs[e].st = "active" THEN inJobs[e].holder \in Worker
                                              ELSE inJobs[e].holder = NoWorker

\* Every handler works on a delivery that was made: the current one if the
\* worker holds the lock, an earlier one if the job is queued again.
RunsFit ==
  \A w \in Worker : ~At(w, "idle") =>
    LET e == run[w].job IN
      /\ inJobs[e].st # "unused"
      /\ run[w].delivery <= inJobs[e].stalls
      /\ inJobs[e].st = "wait" => run[w].delivery < inJobs[e].stalls
      /\ inJobs[e].holder = w => run[w].delivery = inJobs[e].stalls

\* No two workers are on the same delivery.
OneRunPerDelivery ==
  \A v, w \in Worker :
    /\ ~At(v, "idle") /\ ~At(w, "idle")
    /\ run[v].job = run[w].job /\ run[v].delivery = run[w].delivery
    => v = w

\* A row was inserted by a delivery that was made, once.
RowsFit ==
  \A e \in Event, a \in Delivery : inRows[e][a] > 0 =>
    /\ inRows[e][a] = 1
    /\ inJobs[e].st # "unused"
    /\ a <= inJobs[e].stalls
    /\ inJobs[e].st = "wait" => a < inJobs[e].stalls

\* The rows of a running delivery agree with how far its handler is.
RowsFollowRun ==
  \A w \in Worker :
    /\ run[w].pc \in BeforeMessage => inRows[run[w].job][run[w].delivery] = 0
    /\ run[w].pc \in AfterMessage /\ ChannelExists(ThreadIn(w)) =>
         inRows[run[w].job][run[w].delivery] > 0
    /\ run[w].pc \in {"reopen", "return"} => <<run[w].job, run[w].delivery>> \in notices

\* Tickets go with their channel, and the message is about to be inserted into
\* a ticket that is linked to a customer who exists.
ContextFits ==
  /\ \A t \in Thread : HasTicket(t) => ChannelExists(t)
  /\ \A w \in Worker :
       /\ run[w].pc \in {"touch", "ticket", "newTicket", "link", "message"} =>
            ThreadIn(w) \in customers
       /\ At(w, "message") /\ ChannelExists(ThreadIn(w)) =>
            HasTicket(ThreadIn(w)) /\ tickets[ThreadIn(w)].linked

DeliveryInv == LocksFit /\ RunsFit /\ OneRunPerDelivery /\ RowsFit

InboundInv ==
  /\ DeliveryInv
  /\ RowsFollowRun
  /\ ContextFits
  /\ RowsHaveContext
  /\ NoticeHasMessage
  /\ DoneMeansStored

\* Under the same conditions every accepted message comes to an end, whatever
\* crashes: it is stored by a job that is done, or its job is failed after it
\* used up its allowance of stalls.
EveryMessageStored ==
  \A e \in Event : inJobs[e].st # "unused" ~>
    \/ inJobs[e].st = "done" /\ \E a \in Delivery : inRows[e][a] > 0
    \/ inJobs[e].st = "failed" /\ inJobs[e].stalls = MaxStalled
=============================================================================
