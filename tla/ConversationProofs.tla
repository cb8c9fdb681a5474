------------------------- MODULE ConversationProofs -------------------------
(***************************************************************************)
(* Proofs about Conversation, for any number of events, replies, requests, *)
(* workers, conversations and channels, and any combination of the faults: *)
(* the whole implements the specification of each pipeline, so what is     *)
(* proved of a pipeline alone holds while all of them run.                 *)
(***************************************************************************)
EXTENDS Conversation, InboundProofs, OutboundProofs

\* A customer link belongs to a ticket, and a ticket to a channel.
LinksFit == \A t \in Thread : ~HasTicket(t) => ~tickets[t].linked

Fits == StoreTypeOK /\ LinksFit /\ \A t \in Thread : HasTicket(t) => ChannelExists(t)

\* A ticket is written by hand: inserted without a customer, or overwritten in
\* everything but the link to its customer.
WriteByHand ==
  /\ UNCHANGED <<channels, customers>>
  /\ \E t \in Thread, row \in TicketRow :
       /\ ChannelExists(t)
       /\ row.status # "NONE"
       /\ row.linked = tickets[t].linked
       /\ tickets' = [tickets EXCEPT ![t] = row]

LEMMA BeginType ==
  ASSUME DeskTypeOK, NEW p \in Request, NEW step, NEW u, NEW t, NEW patch,
         [step |-> step, by |-> u, thread |-> t, patch |-> patch] \in Calls,
         Begin(p, step, u, t, patch)
  PROVE  DeskTypeOK' /\ UNCHANGED storeVars
<1> DEFINE new == [step |-> step, by |-> u, thread |-> t, patch |-> patch]
<1>1. new \in Calls /\ call' = [call EXCEPT ![p] = new] /\ UNCHANGED storeVars
  BY DEF Begin
<1> HIDE DEF new
<1> QED
  BY <1>1 DEF DeskTypeOK

\* The desk changes the tables by hand or not at all.
LEMMA DeskStep ==
  ASSUME Fits, DeskTypeOK, DeskNext
  PROVE  DeskTypeOK' /\ (WriteByHand \/ UNCHANGED storeVars)
<1> USE DEF Fits
<1>f. ASSUME NEW p \in Request, call' = [call EXCEPT ![p] = Free] PROVE DeskTypeOK'
  BY <1>f DEF DeskTypeOK, Calls
<1>t. ASSUME NEW p \in Request, call[p].step \in {"insert", "update"}
      PROVE  /\ call[p].thread \in Thread
             /\ call[p].step = "update" => call[p].patch \in Patch
  BY <1>t DEF DeskTypeOK, Calls, Free
<1>1. ASSUME NEW p \in Request, NEW u \in User, NEW t \in Thread, NEW s \in TicketStatus,
             NEW a \in User \cup {NoUser}, BeginCreate(p, u, t, s, a)
      PROVE  DeskTypeOK' /\ UNCHANGED storeVars
  <2>1. [step |-> "insert", by |-> u, thread |-> t, patch |-> [status |-> s, assignee |-> a]]
          \in Calls
    BY DEF Calls
  <2> QED
    BY <1>1, <2>1, BeginType DEF BeginCreate
<1>2. ASSUME NEW p \in Request, NEW u \in User, NEW t \in Thread, NEW patch \in Patch,
             BeginUpdate(p, u, t, patch)
      PROVE  DeskTypeOK' /\ UNCHANGED storeVars
  <2>1. [step |-> "update", by |-> u, thread |-> t, patch |-> patch] \in Calls
    BY DEF Calls
  <2> QED
    BY <1>2, <2>1, BeginType DEF BeginUpdate
<1>3. ASSUME NEW p \in Request, NEW u \in User, NEW t \in Thread, BeginClose(p, u, t)
      PROVE  DeskTypeOK' /\ UNCHANGED storeVars
  <2>1. [step |-> "update", by |-> u, thread |-> t,
         patch |-> [status |-> "CLOSED", assignee |-> Keep]] \in Calls
    BY DEF Calls, Patch, TicketStatus
  <2> QED
    BY <1>3, <2>1, BeginType DEF BeginClose
<1>4. ASSUME NEW p \in Request, NEW u \in User, NEW t \in Thread, NEW a \in User,
             BeginAssign(p, u, t, a)
      PROVE  DeskTypeOK' /\ UNCHANGED storeVars
  <2>1. [step |-> "update", by |-> u, thread |-> t,
         patch |-> [status |-> Keep, assignee |-> a]] \in Calls
    BY DEF Calls, Patch
  <2> QED
    BY <1>4, <2>1, BeginType DEF BeginAssign
<1>5. ASSUME NEW p \in Request, WriteInsert(p) PROVE DeskTypeOK' /\ WriteByHand
  <2> DEFINE t == call[p].thread
             row == [status |-> call[p].patch.status, linked |-> FALSE,
                     assignee |-> call[p].patch.assignee]
  <2>1. t \in Thread /\ CanInsertTicket(t) /\ tickets' = [tickets EXCEPT ![t] = row]
    BY <1>5, <1>t DEF WriteInsert, InsertTicket
  <2>2. call[p].patch \in [status : TicketStatus, assignee : User \cup {NoUser}]
    BY <1>5, <1>t DEF WriteInsert, DeskTypeOK, Calls, Free
  <2>3. row \in TicketRow /\ row.status # "NONE" /\ row.linked = tickets[t].linked
    BY <2>1, <2>2 DEF TicketRow, TicketStatus, CanInsertTicket, LinksFit, StoreTypeOK
  <2> HIDE DEF t, row
  <2>4. UNCHANGED <<channels, customers>> /\ ChannelExists(t)
    BY <1>5, <2>1 DEF WriteInsert, CanInsertTicket
  <2> QED
    BY <1>5, <1>f, <2>1, <2>3, <2>4 DEF WriteInsert, WriteByHand
<1>6. ASSUME NEW p \in Request, WriteUpdate(p) PROVE DeskTypeOK' /\ WriteByHand
  <2> DEFINE t == call[p].thread
             row == Patched(tickets[t], call[p].patch)
  <2>1. t \in Thread /\ call[p].patch \in Patch /\ HasTicket(t) /\ tickets[t] \in TicketRow
    BY <1>6, <1>t DEF WriteUpdate, StoreTypeOK
  <2>2. row \in TicketRow /\ row.status # "NONE" /\ row.linked = tickets[t].linked
    BY <2>1 DEF Patched, Patch, TicketRow, TicketStatus, HasTicket
  <2>3. tickets' = [tickets EXCEPT ![t] = row]
    BY <1>6, <2>1 DEF WriteUpdate, StoreTypeOK
  <2> HIDE DEF t, row
  <2>4. UNCHANGED <<channels, customers>> /\ ChannelExists(t)
    BY <1>6, <2>1 DEF WriteUpdate
  <2> QED
    BY <1>6, <1>f, <2>1, <2>2, <2>3, <2>4 DEF WriteUpdate, WriteByHand
<1>7. ASSUME NEW p \in Request, WriteFails(p) PROVE DeskTypeOK' /\ UNCHANGED storeVars
  BY <1>7, <1>f DEF WriteFails
<1> QED
  BY <1>1, <1>2, <1>3, <1>4, <1>5, <1>6, <1>7 DEF DeskNext

\* createMessage reopens a closed ticket; the outbound workers touch no ticket.
LEMMA ReplyStep ==
  ASSUME Fits, OutboundNext
  PROVE  WriteByHand \/ UNCHANGED storeVars
<1>1. ASSUME NEW r \in Reply, ReopenByReply(r) PROVE WriteByHand
  <2> DEFINE t == ReplyTo[r]
             row == [tickets[t] EXCEPT !.status = "OPEN"]
  <2>1. t \in Thread /\ HasTicket(t) /\ ChannelExists(t) /\ tickets[t] \in TicketRow
    BY <1>1, OutboundAssumption DEF ReopenByReply, SetStatus, Fits, StoreTypeOK
  <2>2. row \in TicketRow /\ row.status # "NONE" /\ row.linked = tickets[t].linked
    BY <2>1 DEF TicketRow, TicketStatus
  <2>3. tickets' = [tickets EXCEPT ![t] = row] /\ UNCHANGED <<channels, customers>>
    BY <1>1, <2>1 DEF ReopenByReply, SetStatus, Fits, StoreTypeOK
  <2> HIDE DEF t, row
  <2> QED
    BY <2>1, <2>2, <2>3 DEF WriteByHand
<1>2. ASSUME NEW r \in Reply,
             \/ ReadTicket(r) \/ InsertReply(r) \/ EnqueueReply(r) \/ BreakOff(r)
             \/ ExpireSendLock(r)
      PROVE  UNCHANGED storeVars
  BY <1>2 DEF ReadTicket, InsertReply, EnqueueReply, BreakOff, RejectReply, FailReply,
              DieInReply, ExpireSendLock
<1>3. ASSUME NEW s \in Sender, SenderStep(s) \/ CrashSender(s)
      PROVE  UNCHANGED storeVars
  BY <1>3 DEF SenderStep, StartSend, PrepareConnector, Send, MarkRow, CompleteSend, FailSend,
              CrashSender
<1> QED
  BY <1>1, <1>2, <1>3 DEF OutboundNext, ApiStep, BreakOff

\* What a step that deletes no channel may do to the tables.
TablesGrow ==
  /\ UNCHANGED channels
  /\ customers' \in SUBSET Thread
  /\ tickets' \in [Thread -> TicketRow]
  /\ \A t \in Thread : HasTicket(t) => HasTicket(t)'
  /\ \A t \in Thread : tickets'[t] # tickets[t] => ChannelExists(t)
  /\ \A t \in Thread : tickets'[t] # tickets[t] => HasTicket(t)'

LEMMA HandGrows ==
  ASSUME Fits, WriteByHand \/ UNCHANGED storeVars
  PROVE  TablesGrow /\ LinksFit'
<1>1. CASE UNCHANGED storeVars
  BY <1>1 DEF Fits, TablesGrow, LinksFit, StoreTypeOK, HasTicket, storeVars
<1>2. CASE WriteByHand
  <2>1. PICK t \in Thread, row \in TicketRow :
          /\ ChannelExists(t) /\ row.status # "NONE"
          /\ tickets' = [tickets EXCEPT ![t] = row]
    BY <1>2 DEF WriteByHand
  <2>2. /\ tickets'[t] = row /\ \A u \in Thread : u # t => tickets'[u] = tickets[u]
        /\ tickets' \in [Thread -> TicketRow]
    BY <2>1 DEF Fits, StoreTypeOK
  <2>3. UNCHANGED <<channels, customers>>
    BY <1>2 DEF WriteByHand
  <2> QED
    BY <2>1, <2>2, <2>3 DEF Fits, TablesGrow, LinksFit, StoreTypeOK, HasTicket
<1> QED
  BY <1>1, <1>2

\* The inbound workers create tickets in channels that exist, and change
\* tickets that exist.
LEMMA InboundGrows ==
  ASSUME TypeInv, TypeInv', Fits, InboundNext
  PROVE  TablesGrow /\ LinksFit'
<1> DEFINE Changes(t) ==
      /\ ChannelExists(t) /\ tickets'[t].status # "NONE"
      /\ \A u \in Thread : u # t => tickets'[u] = tickets[u]
<1>t. /\ tickets \in [Thread -> TicketRow] /\ tickets' \in [Thread -> TicketRow]
      /\ customers' \subseteq Thread
      /\ \A w \in Worker : ~At(w, "idle") => ThreadIn(w) \in Thread
  BY InboundAssumption DEF TypeInv, TypeInvariant, StoreTypeOK, Busy, ThreadIn
<1>1. ASSUME NEW w \in Worker, CreateTicket(w) \/ LinkTicket(w) \/ ReopenTicket(w)
      PROVE  \E t \in Thread : Changes(t)
  <2>1. ThreadIn(w) \in Thread
    BY <1>1, <1>t DEF CreateTicket, LinkTicket, ReopenTicket, At
  <2>2. CASE CreateTicket(w)
    BY <2>1, <2>2, <1>t DEF CreateTicket, InsertTicket, CanInsertTicket
  <2>3. CASE LinkTicket(w)
    BY <2>1, <2>3, <1>t DEF LinkTicket, LinkCustomer, HasTicket, Fits, TicketRow
  <2>4. CASE ReopenTicket(w)
    BY <2>1, <2>4, <1>t DEF ReopenTicket, SetStatus, HasTicket, Fits, TicketRow
  <2> QED
    BY <1>1, <2>2, <2>3, <2>4
<1>2. (\A w \in Worker : ~CreateTicket(w) /\ ~LinkTicket(w) /\ ~ReopenTicket(w))
      => UNCHANGED tickets
  BY DEF InboundNext, WorkerStep, HandleWebhook, QueueEvent, ExpireLock, StartJob, FindChannel,
         FindCustomer, CreateCustomer, TouchCustomer, FindTicket, CreateMessage, CreateNotification,
         CompleteJob, FailJob, CrashWorker, storeVars
<1>3. UNCHANGED channels
  BY DEF InboundNext, WorkerStep, HandleWebhook, QueueEvent, ExpireLock, StartJob, FindChannel,
         FindCustomer, CreateCustomer, TouchCustomer, FindTicket, CreateMessage, CreateNotification,
         CompleteJob, FailJob, CrashWorker, CreateTicket, LinkTicket, ReopenTicket, storeVars
<1>4. UNCHANGED tickets \/ \E t \in Thread : Changes(t)
  BY <1>1, <1>2
<1> QED
  BY <1>3, <1>4, <1>t DEF TablesGrow, LinksFit, Fits, HasTicket

\* Tickets and links fit in the next state, whichever table grows.
LEMMA FitsStep ==
  ASSUME Fits, TablesGrow, LinksFit'
  PROVE  Fits'
  BY DEF Fits, TablesGrow, StoreTypeOK, HasTicket, ChannelExists

-----------------------------------------------------------------------------
(* Every step of the whole is a step of each pipeline, or one it stutters.  *)

LEMMA DeleteSteps ==
  ASSUME NEW c \in Channel, DeleteChannelEverywhere(c)
  PROVE  DeleteChannel(c) /\ DeleteChannelOfReplies(c)
  BY DEF DeleteChannelEverywhere, DeleteChannel, DeleteChannelOfReplies

LEMMA IsInboundStep ==
  ASSUME Fits, DeskTypeOK, [ConversationNext]_conversationVars
  PROVE  [InboundStep]_InboundAll
<1>1. ASSUME WriteByHand, UNCHANGED inboundVars PROVE StaffWrites
  BY <1>1, ConversationAssumption DEF WriteByHand, StaffWrites
<1>2. UNCHANGED storeVars /\ UNCHANGED inboundVars => UNCHANGED InboundAll
  BY DEF InboundAll
<1>3. CASE DeskNext /\ UNCHANGED <<inboundVars, outboundVars>>
  BY <1>1, <1>2, <1>3, DeskStep DEF InboundStep
<1>4. CASE OutboundNext /\ UNCHANGED <<inboundVars, call>>
  BY <1>1, <1>2, <1>4, ReplyStep DEF InboundStep
<1>5. UNCHANGED conversationVars => UNCHANGED InboundAll
  BY DEF conversationVars, InboundAll
<1> QED
  BY <1>3, <1>4, <1>5, DeleteSteps DEF ConversationNext, ConversationStep, InboundStep

LEMMA IsOutboundStep ==
  ASSUME TypeInv, TypeInv', Fits, DeskTypeOK, [ConversationNext]_conversationVars
  PROVE  [OutboundStep]_OutboundAll
<1>1. ASSUME TablesGrow, UNCHANGED outboundVars PROVE OthersWrite
  BY <1>1, ConversationAssumption DEF TablesGrow, OthersWrite
<1>2. CASE InboundNext /\ UNCHANGED <<call, outboundVars>>
  BY <1>1, <1>2, InboundGrows DEF OutboundStep
<1>3. CASE DeskNext /\ UNCHANGED <<inboundVars, outboundVars>>
  BY <1>1, <1>3, DeskStep, HandGrows DEF OutboundStep
<1>4. UNCHANGED conversationVars => UNCHANGED OutboundAll
  BY DEF conversationVars, OutboundAll
<1> QED
  BY <1>2, <1>3, <1>4, DeleteSteps DEF ConversationNext, ConversationStep, OutboundStep

LEMMA FitsKept ==
  ASSUME TypeInv, TypeInv', Fits, DeskTypeOK, [ConversationNext]_conversationVars
  PROVE  Fits' /\ DeskTypeOK'
<1>1. CASE InboundNext /\ UNCHANGED <<call, outboundVars>>
  BY <1>1, InboundGrows, FitsStep DEF DeskTypeOK
<1>2. CASE DeskNext /\ UNCHANGED <<inboundVars, outboundVars>>
  BY <1>2, DeskStep, HandGrows, FitsStep
<1>3. CASE OutboundNext /\ UNCHANGED <<inboundVars, call>>
  BY <1>3, ReplyStep, HandGrows, FitsStep DEF DeskTypeOK
<1>4. ASSUME NEW c \in Channel, DeleteChannelEverywhere(c) PROVE Fits' /\ DeskTypeOK'
  <2>1. /\ channels' = channels \ {c} /\ UNCHANGED <<customers, call>>
        /\ tickets' = [t \in Thread |-> IF ChanOf[t] = c THEN NoRow ELSE tickets[t]]
    BY <1>4 DEF DeleteChannelEverywhere, DropChannel
  <2>2. NoRow \in TicketRow /\ NoRow.status = "NONE" /\ ~NoRow.linked
    BY DEF NoRow, TicketRow
  <2> QED
    BY <2>1, <2>2, StoreAssumption
       DEF Fits, StoreTypeOK, LinksFit, HasTicket, ChannelExists, DeskTypeOK
<1>5. CASE UNCHANGED conversationVars
  BY <1>5 DEF conversationVars, storeVars, Fits, StoreTypeOK, LinksFit, HasTicket, ChannelExists,
              DeskTypeOK
<1> QED
  BY <1>1, <1>2, <1>3, <1>4, <1>5 DEF ConversationNext, ConversationStep

\* The invariants of the parts, which the steps above need.
WholeInv == TypeInv /\ InboundInv /\ OutTypeInv /\ Fits /\ DeskTypeOK

LEMMA WholeInit == ConversationInit => WholeInv
<1> SUFFICES ASSUME ConversationInit PROVE WholeInv
  OBVIOUS
<1>1. TypeInv /\ InboundInv /\ OutTypeInv
  BY TypeInit, InboundInvInit, OutTypeInit DEF ConversationInit
<1>2. DeskTypeOK
  BY DEF ConversationInit, DeskInit, DeskTypeOK, Calls
<1>3. Fits
  BY <1>1 DEF TypeInv, TypeInvariant, ConversationInit, StoreInit, Fits, LinksFit, HasTicket, NoRow
<1> QED
  BY <1>1, <1>2, <1>3 DEF WholeInv

LEMMA WholeStep ==
  ASSUME WholeInv, [ConversationNext]_conversationVars
  PROVE  WholeInv' /\ [InboundStep]_InboundAll /\ [OutboundStep]_OutboundAll
<1> USE DEF WholeInv
<1>1. [InboundStep]_InboundAll
  BY IsInboundStep
<1>2. TypeInv' /\ InboundInv'
  BY <1>1, TypeStep, InboundInvStep
<1>3. [OutboundStep]_OutboundAll
  BY <1>2, IsOutboundStep
<1>4. OutTypeInv'
  BY <1>3, OutTypeStep
<1> QED
  BY <1>1, <1>2, <1>3, <1>4, FitsKept

\* Whatever the staff, the replies and deletions do to the tables meanwhile, the
\* inbound pipeline behaves as it does on its own: every invariant proved of
\* InboundSpec holds of the whole.
THEOREM WholeIsInbound == ConversationSpec => ImplementsInbound
<1>1. ConversationInit => InboundAllInit
  BY DEF ConversationInit, InboundAllInit
<1> QED
  BY <1>1, WholeInit, WholeStep, PTL DEF ConversationSpec, ImplementsInbound, InboundSpec

\* Likewise the outbound pipeline, whatever arrives and whatever the desk does.
THEOREM WholeIsOutbound == ConversationSpec => ImplementsOutbound
<1>1. ConversationInit => OutboundAllInit
  BY DEF ConversationInit, OutboundAllInit
<1> QED
  BY <1>1, WholeInit, WholeStep, PTL DEF ConversationSpec, ImplementsOutbound, OutboundSpec

\* So what a done job, a stored message and a sent reply mean is not changed by
\* running everything on the same tables.
THEOREM WholeKeepsPromises ==
  ConversationSpec => [](/\ DoneMeansStored /\ OneRowPerDelivery /\ RowsHaveContext
                         /\ SentUnlessStub /\ ReceivedIsOnRecord /\ OneSendPerDelivery
                         /\ ErrorWasNotReceived /\ DoneIsMarked /\ StoredIsQueued)
<1>1. InboundSpec => []DoneMeansStored /\ []OneRowPerDelivery /\ []RowsHaveContext
  BY CompletedJobsAreStored, AtMostOncePerDelivery, StoredMessagesAreReadable
<1>2. OutboundSpec => []SentUnlessStub /\ []ReceivedIsOnRecord /\ []OneSendPerDelivery
                      /\ []ErrorWasNotReceived /\ []DoneIsMarked /\ []StoredIsQueued
  BY SentRepliesReceived, RepliesOnRecord, SentOncePerDelivery, ErrorsAreTrue,
     DoneRepliesMarked, StoredRepliesQueued
<1> QED
  BY <1>1, <1>2, WholeIsInbound, WholeIsOutbound, PTL DEF ImplementsInbound, ImplementsOutbound

-----------------------------------------------------------------------------
(* The history of closings, and messages left in a closed ticket.          *)

LEMMA ClosedAfterKept == RecordClosings => closedAfter' \subseteq closedAfter \cup Event
  BY DEF RecordClosings

\* Every table, queue, worker and request of the whole stays well formed.
THEOREM ConversationTypeCorrect == ConversationSpec => []ConversationTypeOK
<1> DEFINE Typed2 == WholeInv /\ closedAfter \subseteq Event
<1>1. ConversationInit => Typed2
  BY WholeInit DEF ConversationInit
<1>2. Typed2 /\ [ConversationNext]_conversationVars => Typed2'
  <2> SUFFICES ASSUME Typed2, [ConversationNext]_conversationVars PROVE Typed2'
    OBVIOUS
  <2>1. (closedAfter \subseteq Event)'
    BY ClosedAfterKept DEF ConversationNext, conversationVars
  <2> QED
    BY <2>1, WholeStep
<1>3. Typed2 => ConversationTypeOK
  BY DEF WholeInv, TypeInv, TypeInvariant, OutTypeInv, OutboundTypeInvariant, ConversationTypeOK
<1> HIDE DEF Typed2
<1> QED
  BY <1>1, <1>2, <1>3, PTL DEF ConversationSpec

\* A worker that holds the lock of its job knows of a closed ticket, unless the
\* ticket was closed after it read the status: until it has decided whether to
\* reopen, by the status it read, and once it returns, because it reopened.
ClosingsFit ==
  \A w \in Worker :
    /\ inJobs[run[w].job].holder = w
    /\ tickets[ThreadIn(w)].status = "CLOSED"
    /\ \/ run[w].pc \in {"link", "message", "notify"} /\ run[w].seen # "CLOSED"
       \/ run[w].pc = "return"
    => run[w].job \in closedAfter

ClosedInv == ClosingsFit /\ NotLeftClosed

\* A ticket that is closed after a step was closed before it or by it.
LEMMA ClosedNow ==
  ASSUME RecordClosings, NEW e \in Event, ThreadOf[e] \in Thread, e \notin Reading,
         tickets'[ThreadOf[e]].status = "CLOSED",
         tickets[ThreadOf[e]].status = "CLOSED" => e \in closedAfter
  PROVE  e \in closedAfter'
  BY DEF RecordClosings, Closing

\* A worker gets the lock of a job only by taking the job.
LEMMA LockStays ==
  ASSUME TypeInv, [InboundStep]_InboundAll, NEW w \in Worker, ~At(w, "idle"), run'[w] = run[w],
         inJobs'[run[w].job].holder = w
  PROVE  inJobs[run[w].job].holder = w
<1> DEFINE e == run[w].job
<1>t. InQ!TypeOK /\ run \in [Worker -> Run] /\ e \in Event
  BY DEF TypeInv, TypeInvariant, InboundTypeOK, Busy
<1>n. NoWorker \notin Worker
  BY InboundAssumption
<1>1. ASSUME NEW d \in Event, HandleWebhook(d) \/ QueueEvent(d) \/ ExpireLock(d)
      PROVE  inJobs[e].holder = w
  BY <1>1, <1>t, <1>n, QueueEffect DEF HandleWebhook, QueueEvent, ExpireLock
<1>2. ASSUME NEW v \in Worker, NEW d \in Event, StartJob(v, d) PROVE inJobs[e].holder = w
  <2>1. v # w
    BY <1>2 DEF StartJob, At
  <2> QED
    BY <1>2, <2>1, <1>t, QueueEffect DEF StartJob
<1>3. ASSUME NEW v \in Worker, CompleteJob(v) \/ FailJob(v) PROVE inJobs[e].holder = w
  <2>1. run[v].job \in Event
    BY <1>3 DEF CompleteJob, FailJob, Rejected, At, TypeInv, Busy
  <2>2. PICK outcome \in {"done", "failed"} : InQ!Finish(v, run[v].job, outcome)
    BY <1>3 DEF CompleteJob, FailJob
  <2> QED
    BY <2>1, <2>2, <1>t, <1>n, QueueEffect
<1>4. ASSUME NEW v \in Worker, Progress(v) PROVE inJobs[e].holder = w
  BY <1>4, ProgressKeepsJob
<1>5. ASSUME \/ \E v \in Worker : CrashWorker(v)
             \/ \E c \in Channel : DeleteChannel(c)
             \/ StaffWrites \/ UNCHANGED InboundAll
      PROVE  inJobs[e].holder = w
  BY <1>5 DEF CrashWorker, DeleteChannel, CascadeInbound, StaffWrites, InboundAll, inboundVars
<1> QED
  BY <1>1, <1>2, <1>3, <1>4, <1>5 DEF InboundStep, InboundNext, WorkerStep, Progress

LEMMA ClosingsStep ==
  ASSUME TypeInv, TypeInv', [InboundStep]_InboundAll, RecordClosings, ClosingsFit
  PROVE  ClosingsFit'
<1> DEFINE Deciding(p) == \/ p.pc \in {"link", "message", "notify"} /\ p.seen # "CLOSED"
                          \/ p.pc = "return"
<1>t. /\ run \in [Worker -> Run] /\ tickets \in [Thread -> TicketRow]
      /\ \A w \in Worker : ~At(w, "idle") => run[w].job \in Event /\ ThreadIn(w) \in Thread
  BY InboundAssumption
     DEF TypeInv, TypeInvariant, InboundTypeOK, StoreTypeOK, Busy, ThreadIn
<1> SUFFICES ASSUME NEW w \in Worker, inJobs'[run'[w].job].holder = w,
                    tickets'[ThreadIn(w)'].status = "CLOSED", Deciding(run'[w])
             PROVE  run'[w].job \in closedAfter'
  BY DEF ClosingsFit, ThreadIn
<1> DEFINE e == run[w].job
\* The worker goes on with its job, and the ticket was open, or the history
\* already told that it is closed.
<1>c. ASSUME ~At(w, "idle"), run'[w].job = e, inJobs[e].holder = w,
             At(w, "ticket") => run'[w].pc = "ticket",
             tickets[ThreadIn(w)].status = "CLOSED" => e \in closedAfter
      PROVE  run'[w].job \in closedAfter'
  <2>1. e \notin Reading
    BY <1>c DEF Reading, At
  <2>2. e \in Event /\ ThreadOf[e] \in Thread /\ ThreadIn(w) = ThreadOf[e]
        /\ ThreadIn(w)' = ThreadOf[e]
    BY <1>c, <1>t DEF ThreadIn
  <2> QED
    BY <1>c, <2>1, <2>2, ClosedNow
<1>1. CASE run'[w] = run[w]
  <2>1. ~At(w, "idle")
    BY <1>1 DEF At
  <2>2. inJobs[e].holder = w
    BY <1>1, <2>1, LockStays
  <2>3. tickets[ThreadIn(w)].status = "CLOSED" => e \in closedAfter
    BY <1>1, <2>2 DEF ClosingsFit
  <2> QED
    BY <1>1, <1>c, <2>1, <2>2, <2>3 DEF At
<1>2. CASE run'[w] # run[w]
  <2>1. WorkerStep(w) \/ CrashWorker(w)
    BY <1>2, RunMoves
  <2>2. ASSUME \/ \E d \in Event : StartJob(w, d)
               \/ FindChannel(w) \/ FindCustomer(w) \/ CreateCustomer(w) \/ TouchCustomer(w)
               \/ CompleteJob(w) \/ FailJob(w) \/ CrashWorker(w)
        PROVE  run'[w].pc \in {"channel", "customer", "newCustomer", "touch", "ticket", "idle"}
    BY <2>2, <1>t DEF StartJob, FindChannel, FindCustomer, CreateCustomer, TouchCustomer,
                      CompleteJob, FailJob, CrashWorker, Goto, Idle, Run
  <2>3. \/ FindTicket(w) \/ CreateTicket(w) \/ LinkTicket(w)
        \/ CreateMessage(w) \/ CreateNotification(w) \/ ReopenTicket(w)
    BY <2>1, <2>2 DEF WorkerStep
  <2>4. SameJob(w) /\ UNCHANGED inJobs
    BY <2>3, ProgressKeepsJob DEF Progress
  <2>5. inJobs[e].holder = w /\ run'[w].job = e /\ ThreadIn(w)' = ThreadIn(w)
        /\ ~At(w, "idle") /\ ThreadIn(w) \in Thread
    BY <2>4, <1>t DEF SameJob, ThreadIn
  <2>6. CASE FindTicket(w)
    <3> DEFINE row == tickets[ThreadIn(w)]
               next == CASE row.status = "NONE" -> "newTicket"
                         [] row.status # "NONE" /\ row.linked -> "message"
                         [] row.status # "NONE" /\ ~row.linked -> "link"
    <3>1. run' = [run EXCEPT ![w] = [@ EXCEPT !.seen = row.status, !.pc = next]]
          /\ UNCHANGED storeVars
      BY <2>6 DEF FindTicket
    <3>2. next \in {"newTicket", "message", "link"}
      BY <2>5, <1>t DEF TicketRow
    <3>3. run'[w].seen = row.status /\ run'[w].pc = next
      <4> HIDE DEF row, next
      <4> QED BY <3>1, <1>t DEF Run
    <3>4. row.status # "CLOSED"
      BY <3>2, <3>3
    <3> QED
      BY <3>1, <3>4, <2>5 DEF storeVars
  <2>7. CASE CreateTicket(w) \/ ReopenTicket(w)
    BY <2>5, <2>7, <1>t
       DEF CreateTicket, InsertTicket, ReopenTicket, SetStatus, TicketRow
  <2>8. CASE LinkTicket(w) \/ CreateMessage(w) \/ CreateNotification(w)
    <3>1. run[w].pc \in {"link", "message", "notify"}
      BY <2>8 DEF LinkTicket, CreateMessage, CreateNotification, At
    <3>2. run[w].seen # "CLOSED"
      BY <2>8, <1>t DEF LinkTicket, CreateMessage, CreateNotification, Goto, Run
    <3> QED
      BY <3>1, <3>2, <2>5, <1>c DEF ClosingsFit, At
  <2> QED
    BY <2>3, <2>6, <2>7, <2>8
<1> QED
  BY <1>1, <1>2

LEMMA LeftClosedStep ==
  ASSUME TypeInv, LocksFit, [InboundStep]_InboundAll, RecordClosings, ClosedInv
  PROVE  NotLeftClosed'
<1> SUFFICES ASSUME NEW e \in Event, inJobs'[e].st = "done",
                    tickets'[ThreadOf[e]].status = "CLOSED"
             PROVE  e \in closedAfter'
  BY DEF NotLeftClosed
<1>1. ThreadOf[e] \in Thread /\ NoWorker \notin Worker
  BY InboundAssumption
<1>2. CASE inJobs[e].st = "done"
  <2>1. e \notin Reading
    BY <1>1, <1>2 DEF LocksFit, Reading
  <2> QED
    BY <1>1, <1>2, <2>1, ClosedNow DEF ClosedInv, NotLeftClosed
<1>3. CASE inJobs[e].st # "done"
  <2>1. PICK w \in Worker : CompleteJob(w) /\ run[w].job = e
    BY <1>3, NewlyDone
  <2>2. At(w, "return") /\ inJobs[e].holder = w
    BY <2>1, <1>3, QueueEffect DEF CompleteJob, TypeInv, TypeInvariant, InboundTypeOK
  <2>3. e \notin Reading
    BY <2>2 DEF Reading, At
  <2>4. tickets[ThreadOf[e]].status = "CLOSED" => e \in closedAfter
    BY <2>1, <2>2 DEF ClosedInv, ClosingsFit, ThreadIn, At
  <2> QED
    BY <1>1, <2>3, <2>4, ClosedNow
<1> QED
  BY <1>2, <1>3

\* Whatever crashes, stalls or is done to the ticket by hand meanwhile, a customer's
\* message whose job is done is in a ticket that is not closed, unless it was
\* closed after the handler read its status (processInboundMessage reopens upon
\* the status it read).
THEOREM NothingLeftClosed == ConversationSpec => []NotLeftClosed
<1> DEFINE Inv == WholeInv /\ ClosedInv
<1>1. ConversationInit => Inv
  BY WholeInit DEF ConversationInit, ClosedInv, ClosingsFit, NotLeftClosed, InboundInit, Idle,
                   InQ!Init
<1>2. Inv /\ [ConversationNext]_conversationVars => Inv'
  <2> SUFFICES ASSUME Inv, [ConversationNext]_conversationVars PROVE Inv'
    OBVIOUS
  <2>1. WholeInv' /\ [InboundStep]_InboundAll
    BY WholeStep
  <2>2. CASE ConversationNext
    <3>1. TypeInv /\ TypeInv' /\ LocksFit /\ RecordClosings
      BY <2>1, <2>2 DEF WholeInv, InboundInv, DeliveryInv, ConversationNext
    <3> QED
      BY <2>1, <3>1, ClosingsStep, LeftClosedStep DEF ClosedInv
  <2>3. CASE UNCHANGED conversationVars
    BY <2>1, <2>3 DEF conversationVars, storeVars, inboundVars, ClosedInv, ClosingsFit,
                      NotLeftClosed, ThreadIn
  <2> QED
    BY <2>2, <2>3
<1>3. Inv => NotLeftClosed
  BY DEF ClosedInv
<1> HIDE DEF Inv
<1> QED
  BY <1>1, <1>2, <1>3, PTL DEF ConversationSpec
=============================================================================
