------------------------------ MODULE Outbound ------------------------------
(***************************************************************************)
(* From an agent's reply to the platform: MessagesService.createMessage,   *)
(* the "outbound" queue and processOutboundMessage, the handler of the     *)
(* outbound workers.  createMessage inserts the row, adds the job and then *)
(* reopens a closed ticket, three writes to two systems with no            *)
(* transaction around them; the worker calls the platform and then records *)
(* the answer.                                                             *)
(***************************************************************************)
EXTENDS Store

CONSTANTS
  Reply,       \* calls of createMessage: each has one row and one job
  ReplyTo,     \* the thread of the ticket a reply is written in
  Sender,      \* outbound worker processes
  NoSender,
  NoReply,
  MaxResend,   \* maxStalledCount of the outbound queue
  StubChannel, \* channels whose connector reports success without calling a platform
               \* (WhatsApp, Twitter, LinkedIn and the mock)
  Mishaps      \* which of "api", "crash", "expire", "db", "queue", "refuse",
               \* "lostAnswer", "delete", "others" may happen

ASSUME OutboundAssumption ==
  /\ ReplyTo \in [Reply -> Thread]
  /\ NoSender \notin Sender
  /\ NoReply \notin Reply
  /\ MaxResend \in Nat
  /\ StubChannel \subseteq Channel
  /\ Mishaps \subseteq {"api", "crash", "expire", "db", "queue", "refuse", "lostAnswer",
                   "delete", "others"}

VARIABLES
  outJobs,     \* the outbound queue
  api,         \* where createMessage stands, with the ticket status it read
  outRows,     \* OUTBOUND rows of table Message
  sender,      \* what each worker is doing
  arrived,     \* how many copies of a reply its customer got, per delivery of the job
  unanswered   \* history, read by no action: replies accepted without a success answer

OutQ == INSTANCE JobQueue WITH Job <- Reply, Worker <- Sender,
                               NoWorker <- NoSender,
                               MaxStalled <- MaxResend, jobs <- outJobs

sends == <<arrived, unanswered>>

outboundVars == <<outJobs, api, outRows, sender, sends>>

Round == 0..MaxResend

ApiCall == [pc : {"new", "insert", "enqueue", "reopen", "ended", "failed", "died"},
            seen : TicketStatus \cup {"NONE"}]

\* metadata of the row: {} when inserted, {sent: true} or {error} by the worker.
RowState == {"none", "stored", "sent", "error"}

SenderPc == {"idle", "channel", "send", "markSent", "markError", "return"}

Resting == [pc |-> "idle", job |-> NoReply, delivery |-> 0]

OutboundTypeOK ==
  /\ OutQ!TypeOK
  /\ api \in [Reply -> ApiCall]
  /\ outRows \in [Reply -> RowState]
  /\ sender \in [Sender -> [pc : SenderPc, job : Reply \cup {NoReply}, delivery : Round]]
  /\ arrived \in [Reply -> [Round -> Nat]]
  /\ unanswered \subseteq Reply

OutboundInit ==
  /\ OutQ!Init
  /\ api = [r \in Reply |-> [pc |-> "new", seen |-> "NONE"]]
  /\ outRows = [r \in Reply |-> "none"]
  /\ sender = [s \in Sender |-> Resting]
  /\ arrived = [r \in Reply |-> [a \in Round |-> 0]]
  /\ unanswered = {}

-----------------------------------------------------------------------------
(* MessagesService.createMessage.                                          *)

\* Mutant of ReadTicket: the job is added before the row is inserted.
ReadTicketThenQueue(r) ==
  /\ api[r].pc = "new"
  /\ HasTicket(ReplyTo[r])
  /\ api' = [api EXCEPT ![r] = [pc |-> "enqueue", seen |-> tickets[ReplyTo[r]].status]]
  /\ UNCHANGED <<storeVars, outJobs, outRows, sender, sends>>

ReadTicket(r) ==
  /\ api[r].pc = "new"
  /\ HasTicket(ReplyTo[r])
  /\ api' = [api EXCEPT ![r] = [pc |-> "insert", seen |-> tickets[ReplyTo[r]].status]]
  /\ UNCHANGED <<storeVars, outJobs, outRows, sender, sends>>

InsertReply(r) ==
  /\ api[r].pc = "insert"
  /\ HasTicket(ReplyTo[r])
  /\ outRows' = [outRows EXCEPT ![r] = "stored"]
  /\ api' = [api EXCEPT ![r].pc = "enqueue"]
  /\ UNCHANGED <<storeVars, outJobs, sender, sends>>

\* Mutant of EnqueueReply: the job of a reply to a closed ticket is forgotten
\* over the reopening.
EnqueueOpenOnly(r) ==
  /\ api[r].pc = "enqueue"
  /\ IF api[r].seen = "CLOSED" THEN UNCHANGED outJobs ELSE OutQ!Add(r)
  /\ api' = [api EXCEPT ![r].pc = IF api[r].seen = "CLOSED" THEN "reopen" ELSE "ended"]
  /\ UNCHANGED <<storeVars, outRows, sender, sends>>

EnqueueReply(r) ==
  /\ api[r].pc = "enqueue"
  /\ OutQ!Add(r)
  /\ api' = [api EXCEPT ![r].pc = IF api[r].seen = "CLOSED" THEN "reopen" ELSE "ended"]
  /\ UNCHANGED <<storeVars, outRows, sender, sends>>

ReopenByReply(r) ==
  /\ api[r].pc = "reopen"
  /\ SetStatus(ReplyTo[r], "OPEN")
  /\ api' = [api EXCEPT ![r].pc = "ended"]
  /\ UNCHANGED <<channels, customers, outJobs, outRows, sender, sends>>

\* The ticket is gone: the insert of the row, or the update of the ticket, throws.
RejectReply(r) ==
  /\ api[r].pc \in {"insert", "reopen"}
  /\ ~HasTicket(ReplyTo[r])
  /\ api' = [api EXCEPT ![r].pc = "ended"]
  /\ UNCHANGED <<storeVars, outJobs, outRows, sender, sends>>

\* The database or Redis cannot be reached: the call throws, the agent is told
\* of an error, and what was written before stays.
FailReply(r) ==
  /\ \/ "db" \in Mishaps /\ api[r].pc \in {"insert", "reopen"}
     \/ "queue" \in Mishaps /\ api[r].pc = "enqueue"
  /\ api' = [api EXCEPT ![r].pc = "failed"]
  /\ UNCHANGED <<storeVars, outJobs, outRows, sender, sends>>

\* The API process dies: nothing resumes the call.
DieInReply(r) ==
  /\ "api" \in Mishaps
  /\ api[r].pc \in {"insert", "enqueue", "reopen"}
  /\ api' = [api EXCEPT ![r].pc = "died"]
  /\ UNCHANGED <<storeVars, outJobs, outRows, sender, sends>>

-----------------------------------------------------------------------------
(* The outbound worker.                                                    *)

\* Mutant of StartSend: deliveries counted from one.
StartSendFromOne(s, r) ==
  /\ sender[s].pc = "idle"
  /\ OutQ!Take(s, r)
  /\ sender' = [sender EXCEPT ![s] = [pc |-> "channel", job |-> r,
                                      delivery |-> outJobs[r].stalls + 1]]
  /\ UNCHANGED <<storeVars, api, outRows, sends>>

StartSend(s, r) ==
  /\ sender[s].pc = "idle"
  /\ OutQ!Take(s, r)
  /\ sender' = [sender EXCEPT ![s] = [pc |-> "channel", job |-> r,
                                      delivery |-> outJobs[r].stalls]]
  /\ UNCHANGED <<storeVars, api, outRows, sends>>

\* Find the channel and initialise its connector.
PrepareConnector(s) ==
  /\ sender[s].pc = "channel"
  /\ ChannelExists(ReplyTo[sender[s].job])
  /\ sender' = [sender EXCEPT ![s].pc = "send"]
  /\ UNCHANGED <<storeVars, outJobs, api, outRows, sends>>

\* Mutant of Send: the result is not looked at.
SendHopefully(s) ==
  /\ sender[s].pc = "send"
  /\ \E accepted \in BOOLEAN :
       /\ ~accepted => "refuse" \in Mishaps
       /\ arrived' = IF accepted
                     THEN [arrived EXCEPT ![sender[s].job][sender[s].delivery] = @ + 1]
                     ELSE arrived
       /\ sender' = [sender EXCEPT ![s].pc = "markSent"]
  /\ UNCHANGED <<storeVars, outJobs, api, outRows, unanswered>>

\* Mutant of Send: the branch that records a failure is missing.
SendForgetfully(s) ==
  /\ sender[s].pc = "send"
  /\ \E success \in BOOLEAN :
       /\ ~success => "refuse" \in Mishaps
       /\ arrived' = IF success
                     THEN [arrived EXCEPT ![sender[s].job][sender[s].delivery] = @ + 1]
                     ELSE arrived
       /\ sender' = [sender EXCEPT ![s].pc = IF success THEN "markSent" ELSE "return"]
  /\ UNCHANGED <<storeVars, outJobs, api, outRows, unanswered>>

\* Mutant of Send: a send whose answer was lost is repeated on the spot.
SendAgain(s) ==
  /\ sender[s].pc = "send"
  /\ arrived[sender[s].job][sender[s].delivery] < 2
  /\ arrived' = [arrived EXCEPT ![sender[s].job][sender[s].delivery] = @ + 1]
  /\ \/ sender' = [sender EXCEPT ![s].pc = "markSent"]
     \/ "lostAnswer" \in Mishaps /\ UNCHANGED sender
  /\ UNCHANGED <<storeVars, outJobs, api, outRows, unanswered>>

OnStub(r) == ChanOf[ReplyTo[r]] \in StubChannel

\* connector.sendMessage: the platform accepts the message or refuses it; a
\* connector turns an exception of its HTTP call into success: false, also
\* when only the answer was lost.  A stub calls nobody and reports success.
Send(s) ==
  /\ sender[s].pc = "send"
  /\ \E accepted, success \in BOOLEAN :
       /\ OnStub(sender[s].job) => ~accepted /\ success
       /\ ~OnStub(sender[s].job) /\ ~accepted => ~success /\ "refuse" \in Mishaps
       /\ accepted /\ ~success => "lostAnswer" \in Mishaps
       /\ arrived' = IF accepted
                     THEN [arrived EXCEPT ![sender[s].job][sender[s].delivery] = @ + 1]
                     ELSE arrived
       /\ unanswered' = IF accepted /\ ~success THEN unanswered \cup {sender[s].job}
                                                 ELSE unanswered
       /\ sender' = [sender EXCEPT ![s].pc = IF success THEN "markSent" ELSE "markError"]
  /\ UNCHANGED <<storeVars, outJobs, api, outRows>>

\* Mutant of MarkRow: the two outcomes are swapped.
MarkRowSwapped(s) ==
  /\ sender[s].pc \in {"markSent", "markError"}
  /\ outRows[sender[s].job] # "none"
  /\ outRows' = [outRows EXCEPT ![sender[s].job] =
                   IF sender[s].pc = "markSent" THEN "error" ELSE "sent"]
  /\ sender' = [sender EXCEPT ![s].pc = "return"]
  /\ UNCHANGED <<storeVars, outJobs, api, sends>>

\* message.update with the outcome.
MarkRow(s) ==
  /\ sender[s].pc \in {"markSent", "markError"}
  /\ outRows[sender[s].job] # "none"
  /\ outRows' = [outRows EXCEPT ![sender[s].job] =
                   IF sender[s].pc = "markSent" THEN "sent" ELSE "error"]
  /\ sender' = [sender EXCEPT ![s].pc = "return"]
  /\ UNCHANGED <<storeVars, outJobs, api, sends>>

\* The handler returns: the job is completed whether or not the send succeeded.
CompleteSend(s) ==
  /\ sender[s].pc = "return"
  /\ OutQ!Finish(s, sender[s].job, "done")
  /\ sender' = [sender EXCEPT ![s] = Resting]
  /\ UNCHANGED <<storeVars, api, outRows, sends>>

SendRejected(s) ==
  \/ sender[s].pc = "channel" /\ ~ChannelExists(ReplyTo[sender[s].job])
  \/ sender[s].pc \in {"markSent", "markError"} /\ outRows[sender[s].job] = "none"

\* A call throws (no channel, no row, no database): the job fails for good.
FailSend(s) ==
  /\ SendRejected(s) \/ ("db" \in Mishaps /\ sender[s].pc \notin {"idle", "send", "return"})
  /\ OutQ!Finish(s, sender[s].job, "failed")
  /\ sender' = [sender EXCEPT ![s] = Resting]
  /\ UNCHANGED <<storeVars, api, outRows, sends>>

CrashSender(s) ==
  /\ "crash" \in Mishaps
  /\ sender[s].pc # "idle"
  /\ sender' = [sender EXCEPT ![s] = Resting]
  /\ UNCHANGED <<storeVars, outJobs, api, outRows, sends>>

SendAbandoned(r) == outJobs[r].st = "active" /\ sender[outJobs[r].holder].job # r

\* Mutant of ExpireSendLock: nobody takes over from a dead worker.
ExpireNoSendLock(r) ==
  /\ ~SendAbandoned(r) /\ "expire" \in Mishaps
  /\ OutQ!Stall(r)
  /\ UNCHANGED <<storeVars, api, outRows, sender, sends>>

ExpireSendLock(r) ==
  /\ SendAbandoned(r) \/ "expire" \in Mishaps
  /\ OutQ!Stall(r)
  /\ UNCHANGED <<storeVars, api, outRows, sender, sends>>

\* Message rows go with the channel (onDelete: Cascade).
CascadeOutbound(c) ==
  /\ outRows' = [r \in Reply |-> IF ChanOf[ReplyTo[r]] = c THEN "none" ELSE outRows[r]]
  /\ UNCHANGED <<outJobs, api, sender, sends>>

-----------------------------------------------------------------------------
ApiStep(r) == ReadTicket(r) \/ InsertReply(r) \/ EnqueueReply(r) \/ ReopenByReply(r)
              \/ RejectReply(r) \/ FailReply(r) \/ DieInReply(r)

SenderStep(s) ==
  \/ \E r \in Reply : StartSend(s, r)
  \/ PrepareConnector(s) \/ Send(s) \/ MarkRow(s) \/ CompleteSend(s) \/ FailSend(s)

OutboundNext ==
  \/ \E r \in Reply : ApiStep(r) \/ ExpireSendLock(r)
  \/ \E s \in Sender : SenderStep(s) \/ CrashSender(s)

OutboundAll == <<storeVars, outboundVars>>

\* What the rest of the system does to the tables meanwhile: tickets are
\* inserted, linked, reassigned and change status; none disappears.
OthersWrite ==
  /\ "others" \in Mishaps
  /\ UNCHANGED <<channels, outboundVars>>
  /\ customers' \in SUBSET Thread
  /\ tickets' \in [Thread -> TicketRow]
  /\ \A t \in Thread : HasTicket(t) => HasTicket(t)'
  /\ \A t \in Thread : tickets'[t] # tickets[t] => ChannelExists(t)

DeleteChannelOfReplies(c) ==
  /\ "delete" \in Mishaps
  /\ DropChannel(c)
  /\ CascadeOutbound(c)

OutboundStep == OutboundNext \/ OthersWrite \/ \E c \in Channel : DeleteChannelOfReplies(c)

OutboundAllInit == StoreInit /\ OutboundInit

OutboundSpec == OutboundAllInit /\ [][OutboundStep]_OutboundAll

\* Workers and the stalled checker keep running, and so does the API process
\* unless it dies.
OutboundFairness ==
  /\ \A r \in Reply : WF_OutboundAll(ApiStep(r))
  /\ \A s \in Sender : WF_OutboundAll(SenderStep(s))
  /\ \A r \in Reply : WF_OutboundAll(SendAbandoned(r) /\ ExpireSendLock(r))

FairOutbound == OutboundSpec /\ OutboundFairness

-----------------------------------------------------------------------------
(* Properties.                                                             *)

OutboundTypeInvariant == StoreTypeOK /\ OutboundTypeOK

Received(r) == \E a \in Round : arrived[r][a] > 0

\* A reply marked as sent did reach the platform, unless its channel's connector
\* is a stub: then it reached nobody.
SentUnlessStub ==
  \A r \in Reply : outRows[r] = "sent" => (Received(r) <=> ~OnStub(r))

\* Nothing reaches a customer that the conversation history does not show:
\* the row is stored before the job exists and goes only with the channel.
ReceivedIsOnRecord ==
  \A r \in Reply : Received(r) => outRows[r] # "none" \/ ~ChannelExists(ReplyTo[r])

\* Each delivery of the job sends the reply at most once: a customer gets it
\* twice only if a lock expired, and once more for each time that happened.
OneSendPerDelivery ==
  \A r \in Reply, a \in Round :
    arrived[r][a] > 0 => arrived[r][a] = 1 /\ a <= outJobs[r].stalls

\* A reply shown as failed was not received, unless the platform's answer was
\* lost or an earlier delivery of the job had already sent it.
ErrorWasNotReceived ==
  \A r \in Reply : outRows[r] = "error" /\ Received(r) =>
    r \in unanswered \/ outJobs[r].stalls > 0

\* A job reported done left its outcome in the row.
DoneIsMarked ==
  \A r \in Reply : outJobs[r].st = "done" /\ ChannelExists(ReplyTo[r]) =>
    outRows[r] \in {"sent", "error"}

\* A reply in the history is on its way: it was attempted, or createMessage is
\* about to add its job, or the job is queued or running, or it failed.  Only
\* a createMessage that died before it added the job, or could not reach Redis,
\* leaves one that nobody will send.
StoredIsQueued ==
  \A r \in Reply : outRows[r] = "stored" =>
    \/ api[r].pc \in {"enqueue", "failed", "died"}
    \/ outJobs[r].st \in {"wait", "active", "failed"}

\* A reply that createMessage stored is eventually attempted, or its job fails,
\* or createMessage died or failed before it added the job.
EveryReplySettles ==
  \A r \in Reply : outRows[r] = "stored" ~>
    \/ outRows[r] # "stored"
    \/ outJobs[r].st = "failed"
    \/ outJobs[r].st = "unused" /\ api[r].pc \in {"failed", "died"}

-----------------------------------------------------------------------------
(* The inductive invariant behind the six safety properties above.         *)

\* Only an active job is locked, and by a worker.
SendLocksFit ==
  \A r \in Reply : IF outJobs[r].st = "active" THEN outJobs[r].holder \in Sender
                                               ELSE outJobs[r].holder = NoSender

\* Every worker is on a delivery that was made: the current one if it holds the
\* lock, an earlier one if the job is queued again.
SendersFit ==
  \A s \in Sender : sender[s].pc # "idle" =>
    LET r == sender[s].job IN
      /\ outJobs[r].st # "unused"
      /\ sender[s].delivery <= outJobs[r].stalls
      /\ outJobs[r].st = "wait" => sender[s].delivery < outJobs[r].stalls
      /\ outJobs[r].holder = s => sender[s].delivery = outJobs[r].stalls

\* No two workers are on the same delivery.
OneSenderPerDelivery ==
  \A s, v \in Sender :
    /\ sender[s].pc # "idle" /\ sender[v].pc # "idle"
    /\ sender[s].job = sender[v].job /\ sender[s].delivery = sender[v].delivery
    => s = v

\* A copy was sent by a delivery that was made, once.
ArrivalsFit ==
  \A r \in Reply, a \in Round : arrived[r][a] > 0 =>
    /\ arrived[r][a] = 1
    /\ outJobs[r].st # "unused"
    /\ a <= outJobs[r].stalls
    /\ outJobs[r].st = "wait" => a < outJobs[r].stalls

SendInv == SendLocksFit /\ SendersFit /\ OneSenderPerDelivery /\ ArrivalsFit

\* A stub sends nothing.
StubsSendNothing == \A r \in Reply : OnStub(r) => ~Received(r)

\* What arrived by a running delivery agrees with how far its worker is.
ArrivalsFollowSender ==
  \A s \in Sender :
    /\ sender[s].pc \in {"channel", "send"} => arrived[sender[s].job][sender[s].delivery] = 0
    /\ sender[s].pc = "markSent" =>
         (arrived[sender[s].job][sender[s].delivery] > 0 <=> ~OnStub(sender[s].job))
    /\ sender[s].pc = "markError" /\ arrived[sender[s].job][sender[s].delivery] > 0 =>
         sender[s].job \in unanswered

\* The row is there before the job is, and goes only with the channel; it has
\* an outcome when the handler returns.
RowFits(r) ==
  /\ api[r].pc \in {"new", "insert"} => outRows[r] = "none"
  /\ api[r].pc \in {"new", "insert", "enqueue"} => outJobs[r].st = "unused"
  /\ api[r].pc = "enqueue" \/ outJobs[r].st # "unused" =>
       outRows[r] # "none" \/ ~ChannelExists(ReplyTo[r])
  /\ outRows[r] = "stored" =>
       api[r].pc \in {"enqueue", "failed", "died"} \/ outJobs[r].st # "unused"
  /\ outRows[r] = "stored" => outJobs[r].st # "done"
  /\ outRows[r] \in {"sent", "error"} => outJobs[r].st # "unused"

RecordFits ==
  /\ \A r \in Reply : RowFits(r)
  /\ \A s \in Sender : sender[s].pc = "return" => outRows[sender[s].job] # "stored"

\* When the first delivery has recorded a failure nothing more is sent unless
\* its lock expires.
FirstFailed(r) ==
  /\ arrived[r][0] > 0 => r \in unanswered
  /\ outJobs[r].st # "wait"
  /\ \A s \in Sender : sender[s].job = r => sender[s].pc \notin {"channel", "send"}

ErrorsFit ==
  \A r \in Reply : outRows[r] = "error" /\ outJobs[r].stalls = 0 => FirstFailed(r)

OutboundInv ==
  /\ SendInv /\ ArrivalsFollowSender /\ StubsSendNothing /\ SentUnlessStub
  /\ RecordFits /\ ErrorsFit
=============================================================================
