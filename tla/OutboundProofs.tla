--------------------------- MODULE OutboundProofs ---------------------------
(***************************************************************************)
(* Proofs about Outbound, for any number of replies, workers, threads and  *)
(* deliveries, and any combination of mishaps.                             *)
(***************************************************************************)
EXTENDS Outbound, TLAPS

OutQP == INSTANCE JobQueueProofs WITH Job <- Reply, Worker <- Sender, NoWorker <- NoSender,
                                      MaxStalled <- MaxResend, jobs <- outJobs

\* Every use of the queue keeps its records well formed.
LEMMA OutQueueType ==
  ASSUME OutQ!TypeOK, OutQ!Next
  PROVE  OutQ!TypeOK'
  BY OutQP!QueueType, OutboundAssumption
     DEF OutQ!TypeOK, OutQ!JobRecord, OutQ!JobState, OutQ!Next, OutQ!Add, OutQ!Take,
         OutQ!Finish, OutQ!Stall, OutQP!TypeOK, OutQP!JobRecord, OutQP!JobState, OutQP!Next,
         OutQP!Add, OutQP!Take, OutQP!Finish, OutQP!Stall

\* What the queue operations do to the job records, in terms of the old ones.
LEMMA OutQueueEffect ==
  ASSUME OutQ!TypeOK, NEW r \in Reply
  PROVE  /\ OutQ!Add(r) =>
              /\ outJobs[r].st = "unused" /\ outJobs'[r].st = "wait"
              /\ outJobs'[r].stalls = outJobs[r].stalls
              /\ outJobs'[r].holder = outJobs[r].holder
         /\ OutQ!Stall(r) =>
              /\ outJobs[r].st = "active" /\ outJobs'[r].st \in {"wait", "failed"}
              /\ outJobs'[r].stalls >= outJobs[r].stalls /\ outJobs'[r].holder = NoSender
              /\ outJobs'[r].st = "wait" => outJobs'[r].stalls > outJobs[r].stalls
         /\ \A s \in Sender : OutQ!Take(s, r) =>
              /\ outJobs[r].st = "wait" /\ outJobs'[r].st = "active"
              /\ outJobs'[r].stalls = outJobs[r].stalls /\ outJobs'[r].holder = s
         /\ \A s \in Sender, outcome \in {"done", "failed"} :
              OutQ!Finish(s, r, outcome) =>
                IF outJobs[r].holder = s
                THEN /\ outJobs'[r].st = outcome /\ outJobs'[r].holder = NoSender
                     /\ outJobs'[r].stalls = outJobs[r].stalls
                ELSE outJobs'[r] = outJobs[r]
         /\ OutQ!Add(r) \/ OutQ!Stall(r)
            \/ (\E s \in Sender : OutQ!Take(s, r) \/ OutQ!Finish(s, r, "done")
                                  \/ OutQ!Finish(s, r, "failed"))
            => \A q \in Reply : q # r => outJobs'[q] = outJobs[q]
  BY OutQP!QueueEffect, OutboundAssumption
     DEF OutQ!TypeOK, OutQ!JobRecord, OutQ!JobState, OutQ!Add, OutQ!Take, OutQ!Finish,
         OutQ!Stall, OutQP!TypeOK, OutQP!JobRecord, OutQP!JobState, OutQP!Add, OutQP!Take,
         OutQP!Finish, OutQP!Stall

-----------------------------------------------------------------------------
(* Types.                                                                  *)

SenderRun == [pc : SenderPc, job : Reply \cup {NoReply}, delivery : Round]

\* A worker that is not idle has a job.
BusySenders == \A s \in Sender : IF sender[s].pc = "idle" THEN sender[s].job = NoReply
                                                         ELSE sender[s].job \in Reply

SenderOK == sender \in [Sender -> SenderRun] /\ BusySenders

OutTypeInv == OutboundTypeInvariant /\ BusySenders

\* A worker that goes on to its next call stays with its job and delivery.
SameReply(s, pc) ==
  /\ sender[s].pc # "idle"
  /\ sender'[s].pc = pc
  /\ sender'[s].job = sender[s].job
  /\ sender'[s].delivery = sender[s].delivery
  /\ \A v \in Sender : v # s => sender'[v] = sender[v]

LEMMA MoveType ==
  ASSUME SenderOK, NEW s \in Sender, sender[s].pc # "idle", NEW pc \in SenderPc \ {"idle"},
         sender' = [sender EXCEPT ![s].pc = pc]
  PROVE  SenderOK' /\ SameReply(s, pc)
<1> DEFINE new == [sender[s] EXCEPT !.pc = pc]
<1>1. /\ new \in SenderRun /\ new.pc = pc
      /\ new.job = sender[s].job /\ new.delivery = sender[s].delivery
  BY DEF SenderOK, SenderRun
<1>2. sender' = [sender EXCEPT ![s] = new]
  OBVIOUS
<1> HIDE DEF new
<1> QED
  BY <1>1, <1>2 DEF SenderOK, BusySenders, SameReply

LEMMA RestType ==
  ASSUME SenderOK, NEW s \in Sender, sender' = [sender EXCEPT ![s] = Resting]
  PROVE  /\ SenderOK' /\ sender'[s].pc = "idle" /\ sender'[s].job = NoReply
         /\ \A v \in Sender : v # s => sender'[v] = sender[v]
<1>1. Resting \in SenderRun /\ Resting.pc = "idle" /\ Resting.job = NoReply
  BY OutboundAssumption DEF Resting, SenderRun, SenderPc, Round
<1> QED
  BY <1>1 DEF SenderOK, BusySenders

LEMMA ApiMoveType ==
  ASSUME api \in [Reply -> ApiCall], NEW r \in Reply,
         NEW pc \in {"new", "insert", "enqueue", "reopen", "ended", "failed", "died"},
         api' = [api EXCEPT ![r].pc = pc]
  PROVE  /\ api' \in [Reply -> ApiCall]
         /\ api'[r].pc = pc
         /\ \A q \in Reply : q # r => api'[q] = api[q]
<1> DEFINE new == [api[r] EXCEPT !.pc = pc]
<1>1. new \in ApiCall /\ new.pc = pc
  BY DEF ApiCall
<1>2. api' = [api EXCEPT ![r] = new]
  OBVIOUS
<1> HIDE DEF new
<1> QED
  BY <1>1, <1>2

\* What a call to the platform does.
LEMMA SendEffect ==
  ASSUME OutTypeInv, NEW s \in Sender, Send(s)
  PROVE  LET r == sender[s].job
             a == sender[s].delivery
         IN  /\ sender[s].pc = "send" /\ r \in Reply /\ a \in Round
             /\ SenderOK'
             /\ SameReply(s, "markSent") \/ SameReply(s, "markError")
             /\ arrived' \in [Reply -> [Round -> Nat]]
             /\ arrived'[r][a] \in {arrived[r][a], arrived[r][a] + 1}
             /\ sender'[s].pc = "markSent" /\ ~OnStub(r) => arrived'[r][a] = arrived[r][a] + 1
             /\ OnStub(r) => arrived' = arrived
             /\ sender'[s].pc = "markError" /\ arrived'[r][a] # arrived[r][a] => r \in unanswered'
             /\ \A q \in Reply, b \in Round : q # r \/ b # a => arrived'[q][b] = arrived[q][b]
             /\ unanswered \subseteq unanswered' /\ unanswered' \subseteq Reply
<1> DEFINE r == sender[s].job
           a == sender[s].delivery
<1>1. SenderOK /\ arrived \in [Reply -> [Round -> Nat]] /\ unanswered \subseteq Reply
  BY DEF OutTypeInv, OutboundTypeInvariant, OutboundTypeOK, SenderOK, SenderRun
<1>2. sender[s].pc = "send" /\ r \in Reply /\ a \in Round
  BY <1>1 DEF Send, SenderOK, SenderRun, BusySenders
<1>3. PICK accepted, success \in BOOLEAN :
        /\ OnStub(r) => ~accepted
        /\ ~OnStub(r) /\ ~accepted => ~success
        /\ arrived' = IF accepted THEN [arrived EXCEPT ![r][a] = @ + 1] ELSE arrived
        /\ unanswered' = IF accepted /\ ~success THEN unanswered \cup {r} ELSE unanswered
        /\ sender' = [sender EXCEPT ![s].pc = IF success THEN "markSent" ELSE "markError"]
  BY DEF Send
<1> HIDE DEF r, a
<1>4. /\ arrived' \in [Reply -> [Round -> Nat]]
      /\ arrived'[r][a] = IF accepted THEN arrived[r][a] + 1 ELSE arrived[r][a]
      /\ \A q \in Reply, b \in Round : q # r \/ b # a => arrived'[q][b] = arrived[q][b]
  BY <1>1, <1>2, <1>3
<1>5. /\ SenderOK'
      /\ SameReply(s, IF success THEN "markSent" ELSE "markError")
  <2>1. (IF success THEN "markSent" ELSE "markError") \in SenderPc \ {"idle"}
    BY DEF SenderPc
  <2>2. sender[s].pc # "idle"
    BY <1>2
  <2>3. QED
    BY <1>1, <1>3, <2>1, <2>2, MoveType
<1>6. sender'[s].pc = IF success THEN "markSent" ELSE "markError"
  BY <1>5 DEF SameReply
<1>7. /\ SameReply(s, "markSent") \/ SameReply(s, "markError")
      /\ sender'[s].pc = "markSent" /\ ~OnStub(r) => accepted
      /\ OnStub(r) => arrived' = arrived
      /\ sender'[s].pc = "markError" /\ accepted => r \in unanswered'
      /\ unanswered \subseteq unanswered' /\ unanswered' \subseteq Reply
  BY <1>1, <1>2, <1>3, <1>5, <1>6
<1>8. QED
  BY <1>2, <1>4, <1>5, <1>7 DEF r, a

LEMMA OutTypeStep == OutTypeInv /\ [OutboundStep]_OutboundAll => OutTypeInv'
<1> SUFFICES ASSUME OutTypeInv, [OutboundStep]_OutboundAll
             PROVE  OutTypeInv'
  OBVIOUS
<1> USE OutboundAssumption, StoreAssumption DEF storeVars, sends
<1> DEFINE Api == api \in [Reply -> ApiCall]
           Rows == outRows \in [Reply -> RowState]
           Sends == arrived \in [Reply -> [Round -> Nat]] /\ unanswered \subseteq Reply
<1>a. SenderOK /\ Api /\ Rows /\ Sends /\ StoreTypeOK /\ OutQ!TypeOK
  BY DEF OutTypeInv, OutboundTypeInvariant, OutboundTypeOK, SenderOK, SenderRun
<1>b. SenderOK' /\ Api' /\ Rows' /\ Sends' /\ StoreTypeOK' /\ OutQ!TypeOK' => OutTypeInv'
  BY DEF OutTypeInv, OutboundTypeInvariant, OutboundTypeOK, SenderOK, SenderRun
<1>q. OutQ!Next => OutQ!TypeOK'
  BY <1>a, OutQueueType
<1>u. UNCHANGED outJobs => OutQ!TypeOK'
  BY <1>a DEF OutQ!TypeOK
<1>r. UNCHANGED sender => SenderOK'
  BY <1>a DEF SenderOK, BusySenders
<1>s. UNCHANGED storeVars => StoreTypeOK'
  BY <1>a DEF StoreTypeOK
<1>t. \A s \in Sender : sender[s].pc # "idle" =>
        sender[s].job \in Reply /\ sender[s].delivery \in Round
  BY <1>a DEF SenderOK, SenderRun, BusySenders
<1>1. ASSUME NEW r \in Reply, ReadTicket(r) PROVE OutTypeInv'
  <2> DEFINE new == [pc |-> "insert", seen |-> tickets[ReplyTo[r]].status]
  <2>1. new \in ApiCall
    BY <1>a DEF ApiCall, StoreTypeOK, TicketRow
  <2>2. api' = [api EXCEPT ![r] = new]
    BY <1>1 DEF ReadTicket
  <2> HIDE DEF new
  <2>3. Api'
    BY <1>a, <2>1, <2>2
  <2> QED
    BY <1>1, <1>a, <1>b, <1>u, <1>r, <1>s, <2>3 DEF ReadTicket
<1>2. ASSUME NEW r \in Reply, InsertReply(r) PROVE OutTypeInv'
  <2>1. Api'
    BY <1>2, <1>a, ApiMoveType DEF InsertReply
  <2>2. Rows'
    BY <1>2, <1>a DEF InsertReply, RowState
  <2> QED
    BY <1>2, <1>a, <1>b, <1>u, <1>r, <1>s, <2>1, <2>2 DEF InsertReply
<1>3. ASSUME NEW r \in Reply, EnqueueReply(r) PROVE OutTypeInv'
  <2>1. Api'
    BY <1>3, <1>a, ApiMoveType DEF EnqueueReply
  <2> QED
    BY <1>3, <1>a, <1>b, <1>q, <1>r, <1>s, <2>1 DEF EnqueueReply, OutQ!Next
<1>4. ASSUME NEW r \in Reply, ReopenByReply(r) PROVE OutTypeInv'
  <2>1. Api'
    BY <1>4, <1>a, ApiMoveType DEF ReopenByReply
  <2>2. StoreTypeOK'
    BY <1>4, <1>a DEF ReopenByReply, SetStatus, StoreTypeOK, TicketRow, TicketStatus
  <2> QED
    BY <1>4, <1>a, <1>b, <1>u, <1>r, <2>1, <2>2 DEF ReopenByReply
<1>5. ASSUME NEW r \in Reply, RejectReply(r) \/ FailReply(r) \/ DieInReply(r)
      PROVE  OutTypeInv'
  <2>1. Api'
    BY <1>5, <1>a, ApiMoveType DEF RejectReply, FailReply, DieInReply
  <2> QED
    BY <1>5, <1>a, <1>b, <1>u, <1>r, <1>s, <2>1 DEF RejectReply, FailReply, DieInReply
<1>6. ASSUME NEW s \in Sender, NEW r \in Reply, StartSend(s, r) PROVE OutTypeInv'
  <2> DEFINE new == [pc |-> "channel", job |-> r, delivery |-> outJobs[r].stalls]
  <2>1. new \in SenderRun
    BY <1>a DEF OutQ!TypeOK, OutQ!JobRecord, Round, SenderRun, SenderPc
  <2>2. sender' = [sender EXCEPT ![s] = new] /\ new.job \in Reply /\ new.pc # "idle"
    BY <1>6 DEF StartSend
  <2> HIDE DEF new
  <2>3. SenderOK'
    BY <1>a, <2>1, <2>2 DEF SenderOK, BusySenders
  <2> QED
    BY <1>6, <1>a, <1>b, <1>q, <1>s, <2>3 DEF StartSend, OutQ!Next
<1>7. ASSUME NEW s \in Sender, PrepareConnector(s) PROVE OutTypeInv'
  <2>1. SenderOK'
    BY <1>7, <1>a, MoveType DEF PrepareConnector, SenderPc
  <2> QED
    BY <1>7, <1>a, <1>b, <1>u, <1>s, <2>1 DEF PrepareConnector
<1>8. ASSUME NEW s \in Sender, Send(s) PROVE OutTypeInv'
  <2>1. SenderOK' /\ Sends'
    BY <1>8, SendEffect
  <2> QED
    BY <1>8, <1>a, <1>b, <1>u, <1>s, <2>1 DEF Send
<1>9. ASSUME NEW s \in Sender, MarkRow(s) PROVE OutTypeInv'
  <2>1. SenderOK'
    BY <1>9, <1>a, MoveType DEF MarkRow, SenderPc
  <2>2. Rows'
    BY <1>9, <1>a, <1>t DEF MarkRow, RowState
  <2> QED
    BY <1>9, <1>a, <1>b, <1>u, <1>s, <2>1, <2>2 DEF MarkRow
<1>10. ASSUME NEW s \in Sender, CompleteSend(s) PROVE OutTypeInv'
  <2>1. sender[s].job \in Reply
    BY <1>10, <1>t DEF CompleteSend
  <2> QED
    BY <1>10, <2>1, <1>a, <1>b, <1>q, <1>s, RestType DEF CompleteSend, OutQ!Next
<1>11. ASSUME NEW s \in Sender, FailSend(s) PROVE OutTypeInv'
  <2>1. sender[s].job \in Reply
    BY <1>11, <1>t DEF FailSend, SendRejected
  <2> QED
    BY <1>11, <2>1, <1>a, <1>b, <1>q, <1>s, RestType DEF FailSend, OutQ!Next
<1>12. ASSUME NEW s \in Sender, CrashSender(s) PROVE OutTypeInv'
  BY <1>12, <1>a, <1>b, <1>u, <1>s, RestType DEF CrashSender
<1>13. ASSUME NEW r \in Reply, ExpireSendLock(r) PROVE OutTypeInv'
  BY <1>13, <1>a, <1>b, <1>q, <1>r, <1>s DEF ExpireSendLock, OutQ!Next
<1>14. CASE OthersWrite
  <2>1. StoreTypeOK'
    BY <1>14, <1>a DEF OthersWrite, StoreTypeOK
  <2> QED
    BY <1>14, <1>a, <1>b, <1>u, <1>r, <2>1 DEF OthersWrite, outboundVars
<1>15. ASSUME NEW c \in Channel, DeleteChannelOfReplies(c) PROVE OutTypeInv'
  <2>1. StoreTypeOK'
    BY <1>15, <1>a DEF DeleteChannelOfReplies, DropChannel, StoreTypeOK, NoRow, TicketRow
  <2>2. Rows'
    BY <1>15, <1>a DEF DeleteChannelOfReplies, CascadeOutbound, RowState
  <2> QED
    BY <1>15, <1>a, <1>b, <1>u, <1>r, <2>1, <2>2 DEF DeleteChannelOfReplies, CascadeOutbound
<1>16. CASE UNCHANGED OutboundAll
  BY <1>16, <1>a, <1>b, <1>u, <1>r, <1>s DEF OutboundAll, outboundVars
<1> QED
  BY <1>1, <1>2, <1>3, <1>4, <1>5, <1>6, <1>7, <1>8, <1>9, <1>10, <1>11, <1>12, <1>13, <1>14,
     <1>15, <1>16 DEF OutboundStep, OutboundNext, ApiStep, SenderStep

LEMMA OutTypeInit == StoreInit /\ OutboundInit => OutTypeInv
<1> SUFFICES ASSUME StoreInit, OutboundInit
             PROVE  OutTypeInv
  OBVIOUS
<1>1. StoreTypeOK
  BY DEF StoreInit, StoreTypeOK, NoRow, TicketRow
<1>2. OutQ!TypeOK
  BY OutboundAssumption DEF OutboundInit, OutQ!Init, OutQ!TypeOK, OutQ!JobRecord, OutQ!JobState
<1>3. sender \in [Sender -> SenderRun] /\ BusySenders
  BY OutboundAssumption DEF OutboundInit, Resting, SenderRun, SenderPc, Round, BusySenders
<1>4. /\ api \in [Reply -> ApiCall]
      /\ outRows \in [Reply -> RowState]
      /\ arrived \in [Reply -> [Round -> Nat]]
      /\ unanswered \subseteq Reply
  BY DEF OutboundInit, ApiCall, RowState
<1>5. QED
  BY <1>1, <1>2, <1>3, <1>4 DEF OutTypeInv, OutboundTypeInvariant, OutboundTypeOK, SenderRun

\* Type correctness of the outbound pipeline's tables, queue, API calls and
\* workers.
THEOREM OutboundTypeCorrect == OutboundSpec => []OutboundTypeInvariant
<1>1. OutTypeInv => OutboundTypeInvariant
  BY DEF OutTypeInv
<1> QED
  BY OutTypeInit, OutTypeStep, <1>1, PTL DEF OutboundSpec, OutboundAllInit

-----------------------------------------------------------------------------
(* The inductive invariant OutboundInv.                                    *)

\* The steps after which queue, workers and arrivals are what they were.
Quiet == UNCHANGED <<outJobs, sender, arrived, unanswered>>

\* Every step is quiet or one of the queue's and the workers'.
LEMMA StepCases ==
  ASSUME [OutboundStep]_OutboundAll
  PROVE  \/ Quiet
         \/ \E r \in Reply : EnqueueReply(r) \/ ExpireSendLock(r)
         \/ \E s \in Sender : \/ \E r \in Reply : StartSend(s, r)
                              \/ PrepareConnector(s) \/ Send(s) \/ MarkRow(s)
                              \/ CompleteSend(s) \/ FailSend(s) \/ CrashSender(s)
  BY DEF OutboundStep, OutboundNext, ApiStep, SenderStep, OutboundAll, outboundVars, sends, Quiet,
         ReadTicket, InsertReply, ReopenByReply, RejectReply, FailReply, DieInReply, OthersWrite,
         DeleteChannelOfReplies, CascadeOutbound

\* What the invariants need to know of the types.
LEMMA Typed ==
  ASSUME OutTypeInv
  PROVE  /\ OutQ!TypeOK /\ SenderOK
         /\ \A r \in Reply : /\ outJobs[r].st \in OutQ!JobState
                             /\ outJobs[r].stalls \in Nat /\ outJobs[r].stalls \in Round
                             /\ outJobs[r].holder \in Sender \cup {NoSender}
                             /\ outRows[r] \in RowState
         /\ \A s \in Sender : sender[s].pc # "idle" =>
                             sender[s].job \in Reply /\ sender[s].delivery \in Round
         /\ \A s \in Sender : sender[s].pc \in SenderPc /\ sender[s].delivery \in Nat
         /\ \A r \in Reply, a \in Round : arrived[r][a] \in Nat
         /\ Round \subseteq Nat
<1>1. OutQ!TypeOK /\ SenderOK /\ Round \subseteq Nat
  BY OutboundAssumption DEF OutTypeInv, OutboundTypeInvariant, OutboundTypeOK, SenderOK, SenderRun,
                            Round
<1>2. \A r \in Reply : /\ outJobs[r].st \in OutQ!JobState
                       /\ outJobs[r].stalls \in Nat /\ outJobs[r].stalls \in Round
                       /\ outJobs[r].holder \in Sender \cup {NoSender}
  BY <1>1 DEF OutQ!TypeOK, OutQ!JobRecord, Round
<1>3. \A s \in Sender : /\ sender[s].pc \in SenderPc /\ sender[s].delivery \in Round
                        /\ sender[s].pc # "idle" => sender[s].job \in Reply
  BY <1>1 DEF SenderOK, SenderRun, BusySenders
<1>4. /\ \A r \in Reply, a \in Round : arrived[r][a] \in Nat
      /\ \A r \in Reply : outRows[r] \in RowState
  BY DEF OutTypeInv, OutboundTypeInvariant, OutboundTypeOK
<1>5. QED
  BY <1>1, <1>2, <1>3, <1>4

\* A worker that takes a job begins the delivery that follows its last stall.
LEMMA StartEffect ==
  ASSUME OutTypeInv, NEW s \in Sender, NEW r \in Reply, StartSend(s, r)
  PROVE  /\ sender[s].pc = "idle"
         /\ sender'[s].pc = "channel" /\ sender'[s].job = r
         /\ sender'[s].delivery = outJobs[r].stalls
         /\ \A v \in Sender : v # s => sender'[v] = sender[v]
         /\ OutQ!Take(s, r)
         /\ UNCHANGED <<arrived, unanswered, outRows, api, channels>>
<1>1. sender' = [sender EXCEPT ![s] = [pc |-> "channel", job |-> r,
                                      delivery |-> outJobs[r].stalls]]
      /\ OutQ!Take(s, r) /\ sender[s].pc = "idle"
      /\ UNCHANGED <<arrived, unanswered, outRows, api, channels>>
  BY DEF StartSend, sends, storeVars
<1>2. QED
  BY <1>1, Typed DEF SenderOK

\* A worker that gives its job back, or dies, has none.
LEMMA EndEffect ==
  ASSUME OutTypeInv, NEW s \in Sender, CompleteSend(s) \/ FailSend(s) \/ CrashSender(s)
  PROVE  /\ sender[s].pc # "idle" /\ sender[s].job \in Reply
         /\ sender'[s].pc = "idle"
         /\ sender'[s].job \notin Reply
         /\ \A v \in Sender : v # s => sender'[v] = sender[v]
         /\ UNCHANGED <<arrived, unanswered, outRows, api, channels>>
<1>1. sender[s].pc # "idle" /\ sender' = [sender EXCEPT ![s] = Resting]
      /\ UNCHANGED <<arrived, unanswered, outRows, api, channels>>
  BY DEF CompleteSend, FailSend, SendRejected, CrashSender, sends, storeVars
<1>2. QED
  BY <1>1, Typed, RestType, OutboundAssumption

\* A worker on its way.
LEMMA MoveEffect ==
  ASSUME OutTypeInv, NEW s \in Sender, PrepareConnector(s) \/ MarkRow(s)
  PROVE  /\ sender[s].job \in Reply /\ sender[s].delivery \in Round
         /\ PrepareConnector(s) => sender[s].pc = "channel" /\ SameReply(s, "send")
         /\ MarkRow(s) => sender[s].pc \in {"markSent", "markError"} /\ SameReply(s, "return")
         /\ sender'[s].pc # "idle"
         /\ UNCHANGED <<outJobs, arrived, unanswered, api, channels>>
<1>1. PrepareConnector(s) => sender[s].pc = "channel" /\ SameReply(s, "send")
  BY Typed, MoveType DEF PrepareConnector, SenderPc
<1>2. MarkRow(s) => sender[s].pc \in {"markSent", "markError"} /\ SameReply(s, "return")
  BY Typed, MoveType DEF MarkRow, SenderPc
<1>3. UNCHANGED <<outJobs, arrived, unanswered, api, channels>>
  BY DEF PrepareConnector, MarkRow, sends, storeVars
<1>4. QED
  BY <1>1, <1>2, <1>3, Typed DEF SameReply

\* Locks, deliveries and arrivals stay matched.
LEMMA SendInvStep ==
  ASSUME OutTypeInv, OutTypeInv', SendInv, ArrivalsFollowSender, [OutboundStep]_OutboundAll
  PROVE  SendInv'
<1> USE OutboundAssumption
        DEF SendInv, SendLocksFit, SendersFit, OneSenderPerDelivery, ArrivalsFit
<1>t. /\ OutQ!TypeOK /\ OutQ!TypeOK'
      /\ \A r \in Reply : /\ outJobs[r].st \in OutQ!JobState
                          /\ outJobs[r].stalls \in Nat /\ outJobs'[r].stalls \in Nat
                          /\ outJobs[r].stalls \in Round
                          /\ outJobs[r].holder \in Sender \cup {NoSender}
      /\ \A s \in Sender : sender[s].delivery \in Nat
      /\ \A s \in Sender : sender[s].pc # "idle" => sender[s].job \in Reply
      /\ \A r \in Reply, a \in Round : arrived[r][a] \in Nat
      /\ Round \subseteq Nat
  <2>1. \A r \in Reply : outJobs'[r].stalls \in Nat
    BY DEF OutTypeInv, OutboundTypeInvariant, OutboundTypeOK, OutQ!TypeOK, OutQ!JobRecord
  <2>2. OutQ!TypeOK'
    BY DEF OutTypeInv, OutboundTypeInvariant, OutboundTypeOK
  <2>3. QED
    BY Typed, <2>1, <2>2
<1>1. CASE Quiet
  BY <1>1 DEF Quiet
<1>2. ASSUME NEW s \in Sender, PrepareConnector(s) \/ MarkRow(s) PROVE SendInv'
  BY <1>2, <1>t, MoveEffect DEF SameReply
<1>3. ASSUME NEW s \in Sender, Send(s) PROVE SendInv'
  <2> DEFINE r == sender[s].job
             a == sender[s].delivery
  <2>1. /\ sender[s].pc = "send" /\ r \in Reply /\ a \in Round
        /\ SameReply(s, "markSent") \/ SameReply(s, "markError")
        /\ arrived'[r][a] \in {arrived[r][a], arrived[r][a] + 1}
        /\ \A q \in Reply, b \in Round : q # r \/ b # a => arrived'[q][b] = arrived[q][b]
        /\ UNCHANGED outJobs
    BY <1>3, SendEffect DEF Send
  <2>2. arrived[r][a] = 0
    BY <1>3, <2>1 DEF ArrivalsFollowSender
  <2>3. arrived'[r][a] \in {0, 1}
    BY <2>1, <2>2
  <2>4. outJobs[r].st # "unused" /\ a <= outJobs[r].stalls
        /\ (outJobs[r].st = "wait" => a < outJobs[r].stalls)
    BY <2>1
  <2>5. ArrivalsFit'
    <3> HIDE DEF r, a
    <3>1. ASSUME NEW q \in Reply, NEW b \in Round, arrived'[q][b] > 0
          PROVE  /\ arrived'[q][b] = 1
                 /\ outJobs'[q].st # "unused"
                 /\ b <= outJobs'[q].stalls
                 /\ outJobs'[q].st = "wait" => b < outJobs'[q].stalls
      <4>1. CASE q = r /\ b = a
        BY <3>1, <4>1, <2>1, <2>3, <2>4
      <4>2. CASE q # r \/ b # a
        BY <3>1, <4>2, <2>1
      <4>3. QED
        BY <4>1, <4>2
    <3>2. QED
      BY <3>1
  <2>6. SendLocksFit' /\ SendersFit' /\ OneSenderPerDelivery'
    BY <2>1 DEF SameReply
  <2>7. QED
    BY <2>5, <2>6
<1>4. ASSUME NEW r \in Reply, EnqueueReply(r) PROVE SendInv'
  BY <1>4, <1>t, OutQueueEffect DEF EnqueueReply, sends
<1>5. ASSUME NEW r \in Reply, ExpireSendLock(r) PROVE SendInv'
  BY <1>5, <1>t, OutQueueEffect DEF ExpireSendLock, sends
<1>6. ASSUME NEW s \in Sender, NEW r \in Reply, StartSend(s, r) PROVE SendInv'
  BY <1>6, <1>t, StartEffect, OutQueueEffect
<1>7. ASSUME NEW s \in Sender, CompleteSend(s) \/ FailSend(s) PROVE SendInv'
  <2> DEFINE r == sender[s].job
  <2>1. /\ sender[s].pc # "idle" /\ r \in Reply /\ sender'[s].pc = "idle"
        /\ \A v \in Sender : v # s => sender'[v] = sender[v]
        /\ UNCHANGED arrived
    BY <1>7, EndEffect
  <2>2. PICK outcome \in {"done", "failed"} : OutQ!Finish(s, r, outcome)
    BY <1>7 DEF CompleteSend, FailSend
  <2>3. /\ outJobs[r].holder = s => outJobs'[r].st \in {"done", "failed"}
                                   /\ outJobs'[r].holder = NoSender
                                   /\ outJobs'[r].stalls = outJobs[r].stalls
        /\ outJobs[r].holder # s => outJobs'[r] = outJobs[r]
        /\ \A q \in Reply : q # r => outJobs'[q] = outJobs[q]
    BY <2>1, <2>2, <1>t, OutQueueEffect
  <2> HIDE DEF r
  <2>4. \A v \in Sender : sender'[v].pc # "idle" => v # s
    BY <2>1
  <2>5. QED
    BY <2>1, <2>3, <2>4, <1>t
<1>8. ASSUME NEW s \in Sender, CrashSender(s) PROVE SendInv'
  <2>1. /\ sender'[s].pc = "idle" /\ UNCHANGED <<outJobs, arrived>>
        /\ \A v \in Sender : v # s => sender'[v] = sender[v]
    BY <1>8, EndEffect DEF CrashSender
  <2>2. \A v \in Sender : sender'[v].pc # "idle" => sender'[v] = sender[v]
    BY <2>1
  <2> HIDE DEF SendInv
  <2>3. SendLocksFit' /\ ArrivalsFit'
    BY <2>1 DEF SendInv
  <2>4. SendersFit'
    BY <2>1, <2>2 DEF SendInv
  <2>5. OneSenderPerDelivery'
    BY <2>1, <2>2 DEF SendInv
  <2>6. QED
    BY <2>3, <2>4, <2>5 DEF SendInv
<1>9. QED
  BY <1>1, <1>2, <1>3, <1>4, <1>5, <1>6, <1>7, <1>8, StepCases

\* What arrived by a delivery follows its worker.
LEMMA ArrivalsFollowStep ==
  ASSUME OutTypeInv, SendInv, ArrivalsFollowSender, [OutboundStep]_OutboundAll
  PROVE  ArrivalsFollowSender'
<1>1. CASE Quiet
  BY <1>1 DEF Quiet, ArrivalsFollowSender
<1>2. ASSUME NEW s \in Sender, PrepareConnector(s) \/ MarkRow(s) PROVE ArrivalsFollowSender'
  BY <1>2, MoveEffect DEF SameReply, ArrivalsFollowSender
<1>3. ASSUME NEW s \in Sender, Send(s) PROVE ArrivalsFollowSender'
  <2> DEFINE r == sender[s].job
             a == sender[s].delivery
  <2>1. /\ sender[s].pc = "send" /\ r \in Reply /\ a \in Round
        /\ SameReply(s, "markSent") \/ SameReply(s, "markError")
        /\ sender'[s].pc = "markSent" /\ ~OnStub(r) => arrived'[r][a] = arrived[r][a] + 1
        /\ OnStub(r) => arrived' = arrived
        /\ sender'[s].pc = "markError" /\ arrived'[r][a] # arrived[r][a] => r \in unanswered'
        /\ \A q \in Reply, b \in Round : q # r \/ b # a => arrived'[q][b] = arrived[q][b]
        /\ unanswered \subseteq unanswered'
    BY <1>3, SendEffect
  <2>2. arrived[r][a] = 0
    BY <2>1 DEF ArrivalsFollowSender
  <2>3. ASSUME NEW v \in Sender, v # s, sender[v].pc # "idle"
        PROVE  arrived'[sender[v].job][sender[v].delivery]
                 = arrived[sender[v].job][sender[v].delivery]
    BY <2>1, <2>3, Typed DEF SendInv, OneSenderPerDelivery
  <2>4. QED
    BY <2>1, <2>2, <2>3 DEF SameReply, ArrivalsFollowSender
<1>4. ASSUME NEW r \in Reply, EnqueueReply(r) \/ ExpireSendLock(r) PROVE ArrivalsFollowSender'
  BY <1>4 DEF EnqueueReply, ExpireSendLock, sends, ArrivalsFollowSender
<1>5. ASSUME NEW s \in Sender, NEW r \in Reply, StartSend(s, r) PROVE ArrivalsFollowSender'
  <2>1. outJobs[r].st = "wait"
    BY <1>5, StartEffect, Typed, OutQueueEffect
  <2>2. arrived[r][outJobs[r].stalls] = 0
    BY <2>1, Typed DEF SendInv, ArrivalsFit
  <2>3. QED
    BY <1>5, <2>2, StartEffect DEF ArrivalsFollowSender
<1>6. ASSUME NEW s \in Sender, CompleteSend(s) \/ FailSend(s) \/ CrashSender(s)
      PROVE  ArrivalsFollowSender'
  BY <1>6, EndEffect DEF ArrivalsFollowSender
<1>7. QED
  BY <1>1, <1>2, <1>3, <1>4, <1>5, <1>6, StepCases

-----------------------------------------------------------------------------
(* Rows.                                                                   *)

\* What recording an outcome does.
LEMMA MarkEffect ==
  ASSUME OutTypeInv, NEW s \in Sender, MarkRow(s)
  PROVE  /\ sender[s].job \in Reply /\ sender[s].delivery \in Round
         /\ sender[s].pc \in {"markSent", "markError"} /\ SameReply(s, "return")
         /\ outRows[sender[s].job] # "none"
         /\ outRows'[sender[s].job] = IF sender[s].pc = "markSent" THEN "sent" ELSE "error"
         /\ \A q \in Reply : q # sender[s].job => outRows'[q] = outRows[q]
         /\ UNCHANGED <<outJobs, arrived, unanswered, api, channels>>
<1>1. /\ sender[s].pc \in {"markSent", "markError"}
      /\ outRows[sender[s].job] # "none"
      /\ outRows' = [outRows EXCEPT ![sender[s].job] =
                       IF sender[s].pc = "markSent" THEN "sent" ELSE "error"]
  BY DEF MarkRow
<1>2. outRows \in [Reply -> RowState]
  BY DEF OutTypeInv, OutboundTypeInvariant, OutboundTypeOK
<1>3. QED
  BY <1>1, <1>2, MoveEffect

\* The rows that a step of one of the others leaves alone.
LEMMA RowsKept ==
  ASSUME OutTypeInv, [OutboundStep]_OutboundAll,
         \A r \in Reply : ~InsertReply(r), \A s \in Sender : ~MarkRow(s)
  PROVE  \/ UNCHANGED <<outRows>>
         \/ \E c \in Channel : DeleteChannelOfReplies(c)
  BY DEF OutboundStep, OutboundNext, ApiStep, SenderStep, OutboundAll, outboundVars,
         ReadTicket, EnqueueReply, ReopenByReply, RejectReply, FailReply, DieInReply,
         OthersWrite, ExpireSendLock, StartSend, PrepareConnector, Send, CompleteSend, FailSend, CrashSender

\* Deleting a channel takes the rows of its replies and leaves the others.
LEMMA DeleteEffect ==
  ASSUME OutTypeInv, NEW c \in Channel, DeleteChannelOfReplies(c)
  PROVE  /\ \A r \in Reply : \/ outRows'[r] = outRows[r]
                             \/ outRows'[r] = "none" /\ ~ChannelExists(ReplyTo[r])'
         /\ channels' \subseteq channels
         /\ UNCHANGED <<api, outJobs, sender, arrived, unanswered>>
<1>1. /\ \A r \in Reply : outRows'[r] = IF ChanOf[ReplyTo[r]] = c THEN "none" ELSE outRows[r]
      /\ channels' = channels \ {c}
      /\ UNCHANGED <<api, outJobs, sender, arrived, unanswered>>
  BY DEF DeleteChannelOfReplies, CascadeOutbound, DropChannel, sends
<1>2. QED
  BY <1>1 DEF ChannelExists

\* A row inserted by createMessage has no outcome.
LEMMA InsertEffect ==
  ASSUME OutTypeInv, NEW r \in Reply, InsertReply(r)
  PROVE  /\ api[r].pc = "insert" /\ api'[r].pc = "enqueue"
         /\ outRows'[r] = "stored"
         /\ \A q \in Reply : q # r => outRows'[q] = outRows[q] /\ api'[q] = api[q]
         /\ UNCHANGED <<outJobs, sender, arrived, unanswered, channels>>
<1>1. outRows \in [Reply -> RowState] /\ api \in [Reply -> ApiCall]
  BY DEF OutTypeInv, OutboundTypeInvariant, OutboundTypeOK
<1>2. /\ api[r].pc = "insert" /\ api' = [api EXCEPT ![r].pc = "enqueue"]
      /\ outRows' = [outRows EXCEPT ![r] = "stored"]
      /\ UNCHANGED <<outJobs, sender, arrived, unanswered, channels>>
  BY DEF InsertReply, sends, storeVars
<1>3. QED
  BY <1>1, <1>2, ApiMoveType

\* A platform never takes back what it accepted.
LEMMA ArrivedGrows ==
  ASSUME OutTypeInv, [OutboundStep]_OutboundAll, NEW r \in Reply, NEW a \in Round, arrived[r][a] > 0
  PROVE  arrived'[r][a] > 0
<1>1. ASSUME NEW s \in Sender, Send(s) PROVE arrived'[r][a] > 0
  <2>1. arrived[r][a] \in Nat
    BY Typed
  <2>2. CASE r = sender[s].job /\ a = sender[s].delivery
    <3>1. arrived'[r][a] \in {arrived[r][a], arrived[r][a] + 1}
      BY <1>1, <2>2, SendEffect
    <3>2. QED
      BY <2>1, <3>1
  <2>3. CASE ~(r = sender[s].job /\ a = sender[s].delivery)
    <3>1. arrived'[r][a] = arrived[r][a]
      BY <1>1, <2>3, SendEffect
    <3>2. QED
      BY <3>1
  <2>4. QED
    BY <2>2, <2>3
<1>2. CASE ~ \E s \in Sender : Send(s)
  BY <1>2, StepCases, StartEffect, EndEffect, MoveEffect
     DEF Quiet, EnqueueReply, ExpireSendLock, sends
<1>3. QED
  BY <1>1, <1>2

\* Nothing arrives by a stub.
LEMMA StubStep ==
  ASSUME OutTypeInv, StubsSendNothing, [OutboundStep]_OutboundAll
  PROVE  StubsSendNothing'
<1>1. ASSUME NEW s \in Sender, Send(s), NEW r \in Reply, OnStub(r), NEW a \in Round
      PROVE  arrived'[r][a] = arrived[r][a]
  BY <1>1, SendEffect
<1>2. CASE ~ \E s \in Sender : Send(s)
  <2>1. UNCHANGED arrived
    BY <1>2, StepCases, StartEffect, EndEffect, MoveEffect
       DEF Quiet, EnqueueReply, ExpireSendLock, sends
  <2>2. QED
    BY <2>1 DEF StubsSendNothing, Received
<1>3. CASE \E s \in Sender : Send(s)
  BY <1>1, <1>3 DEF StubsSendNothing, Received
<1>4. QED
  BY <1>2, <1>3

LEMMA SentStep ==
  ASSUME OutTypeInv, ArrivalsFollowSender, StubsSendNothing, SentUnlessStub,
         [OutboundStep]_OutboundAll
  PROVE  SentUnlessStub'
<1>1. ASSUME NEW r \in Reply, ~OnStub(r), outRows'[r] = "sent", outRows[r] = "sent"
      PROVE  Received(r)'
  <2>1. PICK a \in Round : arrived[r][a] > 0
    BY <1>1 DEF SentUnlessStub, Received
  <2>2. QED
    BY <2>1, ArrivedGrows DEF Received
<1>2. ASSUME NEW r \in Reply, ~OnStub(r), NEW s \in Sender, MarkRow(s), sender[s].job = r,
             outRows'[r] = "sent"
      PROVE  Received(r)'
  <2> DEFINE a == sender[s].delivery
  <2>1. sender[s].pc = "markSent" /\ a \in Round /\ UNCHANGED arrived
    BY <1>2, MarkEffect
  <2>2. arrived[r][a] > 0
    BY <1>2, <2>1 DEF ArrivalsFollowSender
  <2> HIDE DEF a
  <2>3. QED
    BY <2>1, <2>2 DEF Received
<1>3. ASSUME NEW r \in Reply, outRows'[r] = "sent", outRows[r] # "sent"
      PROVE  \E s \in Sender : MarkRow(s) /\ sender[s].job = r
  <2>1. CASE \E q \in Reply : InsertReply(q)
    BY <1>3, <2>1, InsertEffect
  <2>2. CASE \E s \in Sender : MarkRow(s)
    BY <1>3, <2>2, MarkEffect
  <2>3. QED
    BY <1>3, <2>1, <2>2, RowsKept, DeleteEffect
<1>4. QED
  BY <1>1, <1>2, <1>3, StubStep DEF SentUnlessStub, StubsSendNothing

\* createMessage ends early, for one reason or another.
BreakOff(r) == RejectReply(r) \/ FailReply(r) \/ DieInReply(r)

\* What the calls of createMessage do to their own call; they leave the others
\* and, but for the insert and the job, everything else.
LEMMA ApiEffect ==
  ASSUME OutTypeInv, NEW r \in Reply
  PROVE  /\ ReadTicket(r) => api[r].pc = "new" /\ api'[r].pc = "insert"
         /\ EnqueueReply(r) => api[r].pc = "enqueue" /\ api'[r].pc \in {"reopen", "ended"}
         /\ ReopenByReply(r) => api[r].pc = "reopen" /\ api'[r].pc = "ended"
         /\ BreakOff(r) => \/ api[r].pc \in {"insert", "reopen"} /\ api'[r].pc = "ended"
                           \/ api'[r].pc \in {"failed", "died"}
         /\ BreakOff(r) => api[r].pc \in {"insert", "enqueue", "reopen"}
         /\ ReadTicket(r) \/ EnqueueReply(r) \/ ReopenByReply(r) \/ BreakOff(r) =>
              /\ \A q \in Reply : q # r => api'[q] = api[q]
              /\ UNCHANGED <<outRows, sender, channels, arrived, unanswered>>
<1>0. api \in [Reply -> ApiCall]
  BY DEF OutTypeInv, OutboundTypeInvariant, OutboundTypeOK
<1>1. ASSUME ReadTicket(r)
      PROVE  /\ api[r].pc = "new" /\ api'[r].pc = "insert"
             /\ \A q \in Reply : q # r => api'[q] = api[q]
  BY <1>0, <1>1 DEF ReadTicket
<1>2. ASSUME EnqueueReply(r)
      PROVE  /\ api[r].pc = "enqueue" /\ api'[r].pc \in {"reopen", "ended"}
             /\ \A q \in Reply : q # r => api'[q] = api[q]
  BY <1>0, <1>2, ApiMoveType DEF EnqueueReply
<1>3. ASSUME ReopenByReply(r)
      PROVE  /\ api[r].pc = "reopen" /\ api'[r].pc = "ended"
             /\ \A q \in Reply : q # r => api'[q] = api[q]
  BY <1>0, <1>3, ApiMoveType DEF ReopenByReply
<1>4. ASSUME BreakOff(r)
      PROVE  /\ \/ api[r].pc \in {"insert", "reopen"} /\ api'[r].pc = "ended"
                \/ api'[r].pc \in {"failed", "died"}
             /\ api[r].pc \in {"insert", "enqueue", "reopen"}
             /\ \A q \in Reply : q # r => api'[q] = api[q]
  BY <1>0, <1>4, ApiMoveType DEF BreakOff, RejectReply, FailReply, DieInReply
<1>5. ReadTicket(r) \/ EnqueueReply(r) \/ ReopenByReply(r) \/ BreakOff(r) =>
        UNCHANGED <<outRows, sender, channels, arrived, unanswered>>
  BY DEF ReadTicket, EnqueueReply, ReopenByReply, BreakOff, RejectReply, FailReply, DieInReply,
         sends, storeVars
<1>6. QED
  BY <1>1, <1>2, <1>3, <1>4, <1>5

\* Rows, calls and jobs stay matched.
LEMMA RecordStep ==
  ASSUME OutTypeInv, SendInv, RecordFits, [OutboundStep]_OutboundAll
  PROVE  RecordFits'
<1> USE DEF RecordFits, RowFits, ChannelExists
<1>t. OutTypeInv /\ SenderOK /\ OutQ!TypeOK
  BY Typed
<1>1. ASSUME NEW r \in Reply, ReadTicket(r) \/ ReopenByReply(r) \/ BreakOff(r)
      PROVE  RecordFits'
  <2>1. UNCHANGED outJobs
    BY <1>1 DEF ReadTicket, ReopenByReply, BreakOff, RejectReply, FailReply, DieInReply
  <2>2. QED
    BY <1>1, <1>t, <2>1, ApiEffect
<1>2. ASSUME NEW r \in Reply, InsertReply(r) PROVE RecordFits'
  <2>1. /\ api[r].pc = "insert" /\ api'[r].pc = "enqueue"
        /\ outRows'[r] = "stored"
        /\ \A q \in Reply : q # r => outRows'[q] = outRows[q] /\ api'[q] = api[q]
        /\ UNCHANGED <<outJobs, sender, channels>>
    BY <1>2, InsertEffect
  <2>2. outJobs[r].st = "unused"
    BY <2>1
  <2>3. \A s \in Sender : sender[s].pc # "idle" => sender[s].job \in Reply /\ sender[s].job # r
    BY <2>2, Typed DEF SendInv, SendersFit
  <2>4. QED
    BY <2>1, <2>2, <2>3
<1>3. ASSUME NEW r \in Reply, EnqueueReply(r) PROVE RecordFits'
  <2>1. /\ api[r].pc = "enqueue" /\ api'[r].pc \in {"reopen", "ended"}
        /\ \A q \in Reply : q # r => api'[q] = api[q]
        /\ UNCHANGED <<outRows, sender, channels>>
    BY <1>3, <1>t, ApiEffect
  <2>2. /\ outJobs'[r].st = "wait"
        /\ \A q \in Reply : q # r => outJobs'[q] = outJobs[q]
    BY <1>3, <1>t, OutQueueEffect DEF EnqueueReply
  <2>3. QED
    BY <2>1, <2>2
<1>4. ASSUME NEW r \in Reply, ExpireSendLock(r) PROVE RecordFits'
  BY <1>4, <1>t, OutQueueEffect DEF ExpireSendLock, storeVars
<1>5. ASSUME NEW s \in Sender, NEW r \in Reply, StartSend(s, r) PROVE RecordFits'
  BY <1>5, <1>t, StartEffect, OutQueueEffect
<1>6. ASSUME NEW s \in Sender, PrepareConnector(s) PROVE RecordFits'
  <2>1. SameReply(s, "send") /\ UNCHANGED <<outJobs, api, outRows, channels>>
    BY <1>6, MoveEffect DEF PrepareConnector
  <2>2. \A v \in Sender : sender'[v].pc = "return" => sender'[v] = sender[v]
    BY <2>1 DEF SameReply
  <2>3. QED
    BY <2>1, <2>2
<1>7. ASSUME NEW s \in Sender, Send(s) PROVE RecordFits'
  <2>1. /\ SameReply(s, "markSent") \/ SameReply(s, "markError")
        /\ UNCHANGED <<outJobs, api, outRows, channels>>
    BY <1>7, SendEffect DEF Send, storeVars
  <2>2. \A v \in Sender : sender'[v].pc = "return" => sender'[v] = sender[v]
    BY <2>1 DEF SameReply
  <2>3. QED
    BY <2>1, <2>2
<1>8. ASSUME NEW s \in Sender, MarkRow(s) PROVE RecordFits'
  <2> DEFINE r == sender[s].job
  <2>1. /\ r \in Reply /\ SameReply(s, "return") /\ outRows'[r] \in {"sent", "error"}
        /\ \A q \in Reply : q # r => outRows'[q] = outRows[q]
        /\ UNCHANGED <<outJobs, api, channels>>
        /\ outRows[r] # "none" /\ sender[s].pc # "idle"
    BY <1>8, MarkEffect
  <2>2. outJobs[r].st # "unused"
    BY <2>1 DEF SendInv, SendersFit
  <2>3. \A v \in Sender : sender'[v].job = sender[v].job
    BY <2>1 DEF SameReply
  <2>4. \A v \in Sender : sender'[v].pc = "return" => outRows'[sender'[v].job] # "stored"
    <3>1. ASSUME NEW v \in Sender, sender'[v].pc = "return"
          PROVE  outRows'[sender[v].job] # "stored"
      <4>1. CASE sender[v].job = r
        BY <2>1, <4>1
      <4>2. CASE sender[v].job # r
        BY <2>1, <3>1, <4>2, Typed DEF SameReply
      <4>3. QED
        BY <4>1, <4>2
    <3>2. QED
      BY <2>3, <3>1
  <2>5. \A q \in Reply : RowFits(q)'
    <3> HIDE DEF r
    <3>1. QED
      BY <2>1, <2>2
  <2>6. QED
    BY <2>4, <2>5
<1>w. ASSUME NEW s \in Sender, CompleteSend(s) \/ FailSend(s) \/ CrashSender(s)
      PROVE  /\ UNCHANGED <<api, outRows, channels>>
             /\ \A v \in Sender : sender'[v].pc = "return" => sender'[v] = sender[v]
  <2>1. /\ UNCHANGED <<api, outRows, channels>> /\ sender'[s].pc = "idle"
        /\ \A v \in Sender : v # s => sender'[v] = sender[v]
    BY <1>w, EndEffect
  <2>2. QED
    BY <2>1
<1>9. ASSUME NEW s \in Sender, CompleteSend(s) PROVE RecordFits'
  <2> DEFINE r == sender[s].job
  <2>1. r \in Reply /\ outRows[r] # "stored" /\ OutQ!Finish(s, r, "done")
    BY <1>9, EndEffect DEF CompleteSend
  <2>2. outJobs[r].st # "unused"
    BY <1>9, EndEffect DEF SendInv, SendersFit
  <2> HIDE DEF r
  <2>3. /\ outJobs'[r].st = "done" \/ outJobs'[r] = outJobs[r]
        /\ \A q \in Reply : q # r => outJobs'[q] = outJobs[q]
    BY <2>1, <1>9, <1>t, OutQueueEffect
  <2>4. QED
    BY <1>9, <1>w, <2>1, <2>2, <2>3
<1>10. ASSUME NEW s \in Sender, FailSend(s) PROVE RecordFits'
  <2> DEFINE r == sender[s].job
  <2>1. r \in Reply /\ OutQ!Finish(s, r, "failed")
    BY <1>10, EndEffect DEF FailSend
  <2>2. outJobs[r].st # "unused"
    BY <1>10, EndEffect DEF SendInv, SendersFit
  <2> HIDE DEF r
  <2>3. /\ outJobs'[r].st = "failed" \/ outJobs'[r] = outJobs[r]
        /\ \A q \in Reply : q # r => outJobs'[q] = outJobs[q]
    BY <2>1, <1>10, <1>t, OutQueueEffect
  <2>4. QED
    BY <1>10, <1>w, <2>1, <2>2, <2>3
<1>11. ASSUME NEW s \in Sender, CrashSender(s) PROVE RecordFits'
  BY <1>11, <1>w DEF CrashSender
<1>12. CASE OthersWrite
  BY <1>12 DEF OthersWrite, outboundVars
<1>13. ASSUME NEW c \in Channel, DeleteChannelOfReplies(c) PROVE RecordFits'
  BY <1>13, <1>t, DeleteEffect, Typed
<1>14. CASE UNCHANGED OutboundAll
  BY <1>14 DEF OutboundAll, outboundVars, storeVars
<1>15. QED
  BY <1>1, <1>2, <1>3, <1>4, <1>5, <1>6, <1>7, <1>8, <1>9, <1>10, <1>11, <1>12, <1>13, <1>14
     DEF OutboundStep, OutboundNext, ApiStep, SenderStep, BreakOff

\* A lock that expired stays counted.
LEMMA StallsGrow ==
  ASSUME OutTypeInv, OutTypeInv', [OutboundStep]_OutboundAll, NEW r \in Reply, outJobs'[r].stalls = 0
  PROVE  outJobs[r].stalls = 0
<1>t. OutQ!TypeOK /\ outJobs[r].stalls \in Nat
  BY Typed
<1>1. CASE UNCHANGED outJobs
  BY <1>1
<1>2. ASSUME NEW q \in Reply, EnqueueReply(q) \/ ExpireSendLock(q) PROVE outJobs[r].stalls = 0
  BY <1>2, <1>t, OutQueueEffect DEF EnqueueReply, ExpireSendLock
<1>3. ASSUME NEW s \in Sender, NEW q \in Reply, StartSend(s, q) PROVE outJobs[r].stalls = 0
  BY <1>3, <1>t, StartEffect, OutQueueEffect
<1>4. ASSUME NEW s \in Sender, CompleteSend(s) \/ FailSend(s) PROVE outJobs[r].stalls = 0
  <2> DEFINE q == sender[s].job
  <2>1. q \in Reply
    BY <1>4, EndEffect
  <2>2. OutQ!Finish(s, q, "done") \/ OutQ!Finish(s, q, "failed")
    BY <1>4 DEF CompleteSend, FailSend
  <2> HIDE DEF q
  <2>3. QED
    BY <2>1, <2>2, <1>t, OutQueueEffect
<1>5. QED
  BY <1>1, <1>2, <1>3, <1>4, StepCases DEF Quiet, PrepareConnector, Send, MarkRow, CrashSender

\* A failure recorded by the first delivery stays so while the lock has not expired.
LEMMA FailedStep ==
  ASSUME OutTypeInv, [OutboundStep]_OutboundAll, NEW r \in Reply, FirstFailed(r),
         outJobs[r].st # "unused", outJobs[r].stalls = 0, outJobs'[r].stalls = 0
  PROVE  FirstFailed(r)'
<1> USE DEF FirstFailed
<1>t. OutQ!TypeOK /\ 0 \in Round
  BY Typed, OutboundAssumption DEF Round
<1>1. CASE Quiet
  BY <1>1 DEF Quiet
<1>2. ASSUME NEW q \in Reply, EnqueueReply(q) PROVE FirstFailed(r)'
  BY <1>2, <1>t, ApiEffect, OutQueueEffect DEF EnqueueReply
<1>3. ASSUME NEW q \in Reply, ExpireSendLock(q) PROVE FirstFailed(r)'
  BY <1>3, <1>t, OutQueueEffect DEF ExpireSendLock, sends
<1>4. ASSUME NEW s \in Sender, NEW q \in Reply, StartSend(s, q) PROVE FirstFailed(r)'
  <2>1. q # r
    BY <1>4, <1>t, StartEffect, OutQueueEffect
  <2>2. outJobs'[r] = outJobs[r]
    BY <1>4, <2>1, <1>t, StartEffect, OutQueueEffect
  <2>3. QED
    BY <1>4, <2>1, <2>2, StartEffect
<1>5. ASSUME NEW s \in Sender, PrepareConnector(s) \/ MarkRow(s) PROVE FirstFailed(r)'
  BY <1>5, MoveEffect DEF SameReply
<1>6. ASSUME NEW s \in Sender, Send(s) PROVE FirstFailed(r)'
  <2>1. sender[s].job # r /\ UNCHANGED outJobs /\ unanswered \subseteq unanswered'
    BY <1>6, SendEffect DEF Send
  <2>2. arrived'[r][0] = arrived[r][0]
    BY <1>6, <2>1, <1>t, SendEffect
  <2>3. SameReply(s, "markSent") \/ SameReply(s, "markError")
    BY <1>6, SendEffect
  <2>4. QED
    BY <2>1, <2>2, <2>3 DEF SameReply
<1>7. ASSUME NEW s \in Sender, CompleteSend(s) \/ FailSend(s) PROVE FirstFailed(r)'
  <2> DEFINE q == sender[s].job
  <2>1. q \in Reply
    BY <1>7, EndEffect
  <2>2. OutQ!Finish(s, q, "done") \/ OutQ!Finish(s, q, "failed")
    BY <1>7 DEF CompleteSend, FailSend
  <2> HIDE DEF q
  <2>3. outJobs'[r].st \in {"done", "failed"} \/ outJobs'[r] = outJobs[r]
    BY <2>1, <2>2, <1>t, OutQueueEffect
  <2>4. QED
    BY <1>7, <2>3, EndEffect
<1>8. ASSUME NEW s \in Sender, CrashSender(s) PROVE FirstFailed(r)'
  BY <1>8, EndEffect DEF CrashSender
<1>9. QED
  BY <1>1, <1>2, <1>3, <1>4, <1>5, <1>6, <1>7, <1>8, StepCases

\* It is so when the worker records the failure: it is alone on the job.
LEMMA FailedStart ==
  ASSUME OutTypeInv, SendInv, ArrivalsFollowSender, NEW s \in Sender, MarkRow(s),
         outRows'[sender[s].job] = "error", outJobs[sender[s].job].stalls = 0,
         NEW r \in Reply, r = sender[s].job
  PROVE  FirstFailed(r)'
<1>1. /\ sender[s].pc = "markError" /\ SameReply(s, "return")
      /\ UNCHANGED <<outJobs, arrived, unanswered>>
  BY MarkEffect
<1>2. sender[s].delivery = 0 /\ outJobs[r].st # "wait"
  BY <1>1, Typed DEF SendInv, SendersFit
<1>3. \A v \in Sender : sender[v].job = r /\ sender[v].pc # "idle" => v = s
  <2>1. \A v \in Sender : sender[v].job = r /\ sender[v].pc # "idle" => sender[v].delivery = 0
    BY Typed DEF SendInv, SendersFit
  <2>2. QED
    BY <1>1, <1>2, <2>1 DEF SendInv, OneSenderPerDelivery
<1>4. arrived[r][0] > 0 => r \in unanswered
  BY <1>1, <1>2 DEF ArrivalsFollowSender
<1>5. \A v \in Sender : sender'[v].job = r => sender'[v].pc \notin {"channel", "send"}
  BY <1>1, <1>3 DEF SameReply
<1>6. QED
  BY <1>1, <1>2, <1>4, <1>5 DEF FirstFailed

LEMMA ErrorsStep ==
  ASSUME OutTypeInv, OutTypeInv', SendInv, ArrivalsFollowSender, RecordFits, ErrorsFit,
         [OutboundStep]_OutboundAll
  PROVE  ErrorsFit'
<1>1. ASSUME NEW r \in Reply, outRows'[r] = "error", outJobs'[r].stalls = 0
      PROVE  FirstFailed(r)'
  <2>1. outJobs[r].stalls = 0
    BY <1>1, StallsGrow
  <2>2. CASE outRows[r] = "error"
    <3>1. FirstFailed(r) /\ outJobs[r].st # "unused"
      BY <2>1, <2>2 DEF ErrorsFit, FirstFailed, RecordFits, RowFits
    <3>2. QED
      BY <1>1, <2>1, <3>1, FailedStep
  <2>3. CASE outRows[r] # "error"
    <3>1. \E s \in Sender : MarkRow(s) /\ sender[s].job = r
      <4>1. CASE \E q \in Reply : InsertReply(q)
        BY <1>1, <2>3, <4>1, InsertEffect
      <4>2. CASE \E s \in Sender : MarkRow(s)
        BY <1>1, <2>3, <4>2, MarkEffect
      <4>3. QED
        BY <1>1, <2>3, <4>1, <4>2, RowsKept, DeleteEffect
    <3>2. QED
      BY <1>1, <2>1, <3>1, FailedStart
  <2>4. QED
    BY <2>2, <2>3
<1>2. QED
  BY <1>1 DEF ErrorsFit, FirstFailed

LEMMA OutboundInvInit == StoreInit /\ OutboundInit => OutboundInv
<1> SUFFICES ASSUME StoreInit, OutboundInit
             PROVE  OutboundInv
  OBVIOUS
<1>1. /\ \A r \in Reply : /\ outJobs[r].st = "unused" /\ outJobs[r].holder = NoSender
                          /\ api[r].pc = "new" /\ outRows[r] = "none"
                          /\ \A a \in Round : arrived[r][a] = 0
      /\ \A s \in Sender : sender[s].pc = "idle"
  BY DEF OutboundInit, OutQ!Init, Resting
<1>2. SendInv
  BY <1>1 DEF SendInv, SendLocksFit, SendersFit, OneSenderPerDelivery, ArrivalsFit
<1>3. ArrivalsFollowSender /\ StubsSendNothing /\ SentUnlessStub /\ RecordFits /\ ErrorsFit
  BY <1>1 DEF ArrivalsFollowSender, StubsSendNothing, Received, SentUnlessStub, RecordFits, RowFits, ErrorsFit
<1>4. QED
  BY <1>2, <1>3 DEF OutboundInv

\* Through any interleaving of API calls, workers, expired locks and deletions,
\* queue, workers, rows and what customers received stay matched.
THEOREM OutboundInvariant == OutboundSpec => [](OutTypeInv /\ OutboundInv)
<1>1. StoreInit /\ OutboundInit => OutTypeInv /\ OutboundInv
  BY OutTypeInit, OutboundInvInit
<1>2. OutTypeInv /\ OutboundInv /\ [OutboundStep]_OutboundAll => (OutTypeInv /\ OutboundInv)'
  <2>1. ASSUME OutTypeInv, OutboundInv, [OutboundStep]_OutboundAll
        PROVE  (OutTypeInv /\ OutboundInv)'
    <3>1. OutTypeInv'
      BY <2>1, OutTypeStep
    <3>2. /\ SendInv' /\ ArrivalsFollowSender' /\ StubsSendNothing' /\ SentUnlessStub'
          /\ RecordFits' /\ ErrorsFit'
      BY <2>1, <3>1, SendInvStep, ArrivalsFollowStep, StubStep, SentStep, RecordStep, ErrorsStep
         DEF OutboundInv
    <3>3. QED
      BY <3>1, <3>2 DEF OutboundInv
  <2>2. QED
    BY <2>1
<1>3. QED
  BY <1>1, <1>2, PTL DEF OutboundSpec, OutboundAllInit

\* A reply marked as sent did reach the platform, on every channel but those
\* of the stub connectors, where it reached nobody.
THEOREM SentRepliesReceived == OutboundSpec => []SentUnlessStub
<1>1. OutboundInv => SentUnlessStub
  BY DEF OutboundInv
<1> QED
  BY OutboundInvariant, <1>1, PTL

\* What a customer received is in the history as long as the channel exists.
THEOREM RepliesOnRecord == OutboundSpec => []ReceivedIsOnRecord
<1>1. OutboundInv => ReceivedIsOnRecord
  BY DEF OutboundInv, SendInv, ArrivalsFit, RecordFits, RowFits, ReceivedIsOnRecord, Received
<1> QED
  BY OutboundInvariant, <1>1, PTL

\* A delivery sends at most once, so a customer gets at most one copy more than
\* locks expired.
THEOREM SentOncePerDelivery == OutboundSpec => []OneSendPerDelivery
<1>1. OutboundInv => OneSendPerDelivery
  BY DEF OutboundInv, SendInv, ArrivalsFit, OneSendPerDelivery
<1> QED
  BY OutboundInvariant, <1>1, PTL

\* A reply shown as failed was not received, lost answers and expired locks
\* aside.
THEOREM ErrorsAreTrue == OutboundSpec => []ErrorWasNotReceived
<1>1. OutTypeInv /\ OutboundInv => ErrorWasNotReceived
  <2> SUFFICES ASSUME OutTypeInv, OutboundInv, NEW r \in Reply, outRows[r] = "error",
                      outJobs[r].stalls = 0, Received(r)
               PROVE  r \in unanswered
    BY Typed DEF ErrorWasNotReceived
  <2>1. PICK a \in Round : arrived[r][a] > 0
    BY DEF Received
  <2>2. a <= 0 /\ a \in Nat
    BY <2>1, Typed DEF OutboundInv, SendInv, ArrivalsFit
  <2>3. a = 0
    BY <2>2
  <2>4. QED
    BY <2>1, <2>3 DEF OutboundInv, ErrorsFit, FirstFailed
<1> QED
  BY OutboundInvariant, <1>1, PTL

\* A job reported done left its outcome in the row.
THEOREM DoneRepliesMarked == OutboundSpec => []DoneIsMarked
<1>1. OutTypeInv /\ OutboundInv => DoneIsMarked
  BY Typed DEF OutboundInv, RecordFits, RowFits, RowState, DoneIsMarked
<1> QED
  BY OutboundInvariant, <1>1, PTL

\* Only a call of createMessage that died or failed before it added the job
\* leaves a reply in the history that nobody will send.
THEOREM StoredRepliesQueued == OutboundSpec => []StoredIsQueued
<1>1. OutTypeInv /\ OutboundInv => StoredIsQueued
  BY Typed DEF OutboundInv, RecordFits, RowFits, OutQ!JobState, StoredIsQueued
<1> QED
  BY OutboundInvariant, <1>1, PTL
=============================================================================
