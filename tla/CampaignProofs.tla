--------------------------- MODULE CampaignProofs ---------------------------
(***************************************************************************)
(* Proofs about Campaign, for any number of recipients, starts, jobs and   *)
(* workers, any batch size and any combination of faults.                  *)
(***************************************************************************)
EXTENDS Campaign, FiniteSetTheorems, TLAPS

QP == INSTANCE JobQueueProofs

\* Every use of the queue keeps its records well formed.
LEMMA QueueType ==
  ASSUME Q!TypeOK, Q!Next
  PROVE  Q!TypeOK'
  BY QP!QueueType, CampaignAssumption
     DEF Q!TypeOK, Q!JobRecord, Q!JobState, Q!Next, Q!Add, Q!Take, Q!Finish, Q!Stall,
         QP!TypeOK, QP!JobRecord, QP!JobState, QP!Next, QP!Add, QP!Take, QP!Finish, QP!Stall

\* A worker has a job unless it is idle, and a recipient in hand while it
\* records an outcome.
Busy ==
  \A w \in Worker :
    /\ IF At(w, "idle") THEN run[w].job = NoJob ELSE run[w].job \in Job
    /\ run[w].pc \in {"markSent", "markFailed", "catch"} => run[w].current \in Recipient

RunOK == run \in [Worker -> Run] /\ Busy

TypeInv == TypeOK /\ Busy

\* A worker that replaces what it knows by a well-formed record stays well
\* formed, and so does every other.
LEMMA RunType ==
  ASSUME RunOK, NEW w \in Worker, NEW new \in Run, run' = [run EXCEPT ![w] = new],
         new.pc # "idle" => new.job \in Job,
         new.pc = "idle" => new.job = NoJob,
         new.pc \in {"markSent", "markFailed", "catch"} => new.current \in Recipient
  PROVE  RunOK'
  BY DEF RunOK, Busy, At

LEMMA GotoType ==
  ASSUME RunOK, NEW w \in Worker, ~At(w, "idle"),
         NEW pc \in Pc \ {"idle", "markSent", "markFailed", "catch"}, Goto(w, pc)
  PROVE  RunOK'
<1> DEFINE new == [run[w] EXCEPT !.pc = pc]
<1>1. new \in Run /\ new.pc = pc /\ new.job \in Job
  BY DEF RunOK, Run, Busy
<1>2. run' = [run EXCEPT ![w] = new]
  BY DEF Goto
<1> HIDE DEF new
<1> QED
  BY <1>1, <1>2, RunType DEF Pc

LEMMA IdleType ==
  ASSUME RunOK, NEW w \in Worker, run' = [run EXCEPT ![w] = Idle]
  PROVE  RunOK'
<1>1. Idle \in Run /\ Idle.pc = "idle" /\ Idle.job = NoJob
  BY DEF Idle, Run, Pc
<1> QED
  BY <1>1, RunType

\* What Record does to the worker and to the rows.
LEMMA RecordType ==
  ASSUME RunOK, NEW w \in Worker, NEW outcome \in {"SENT", "FAILED"}, Record(w, outcome),
         run[w].pc \in {"markSent", "markFailed", "catch"},
         recipients \in [Recipient -> {"NONE", "PENDING", "SENT", "FAILED"}]
  PROVE  /\ RunOK' /\ run'[w].pc \in {"count", "send"}
         /\ \A v \in Worker : v # w => run'[v] = run[v]
         /\ run[w].current \in Recipient
         /\ recipients' \in [Recipient -> {"NONE", "PENDING", "SENT", "FAILED"}]
         /\ recipients' = [recipients EXCEPT ![run[w].current] = outcome]
<1> DEFINE rest == run[w].batch \ {run[w].current}
           pc == IF rest = {} THEN "count" ELSE "send"
           new == [run[w] EXCEPT !.batch = rest, !.current = Nobody, !.pc = pc]
<1>1. rest \in SUBSET Recipient /\ pc \in {"count", "send"} /\ run[w] \in Run
      /\ run[w].job \in Job /\ run[w].current \in Recipient
  BY DEF RunOK, Run, Busy, At
<1>2. run' = [run EXCEPT ![w] = new]
  BY DEF Record
<1>3. new \in Run /\ new.pc \in {"count", "send"} /\ new.job \in Job
  <2> HIDE DEF rest, pc
  <2> QED BY <1>1 DEF Run, Pc
<1> HIDE DEF new
<1>4. RunOK'
  BY <1>2, <1>3, RunType
<1>5. run'[w] = new /\ \A v \in Worker : v # w => run'[v] = run[v]
  BY <1>2 DEF RunOK
<1> QED
  BY <1>1, <1>3, <1>4, <1>5 DEF Record

\* What a call of sendMessage does: the worker goes on as the connector said,
\* whether the recipient got the message or not; only a success can be a stub's,
\* and a lost answer leaves its mark.
Sends(w, r, outcome, got) ==
  /\ outcome = "markSent" => (got <=> Connector # "stub")
  /\ got => Connector # "stub"
  /\ outcome # "markSent" => Connector # "stub" /\ (got => r \in unrecorded')
  /\ attempts' = [attempts EXCEPT ![r] = @ + 1]
  /\ copies' = IF got THEN [copies EXCEPT ![r] = @ + 1] ELSE copies
  /\ unrecorded \subseteq unrecorded' /\ unrecorded' \subseteq unrecorded \cup {r}
  /\ run' = [run EXCEPT ![w] = [@ EXCEPT !.pc = outcome, !.current = r]]
  /\ UNCHANGED <<status, recipients, late, starts, jobs>>

LEMMA SendEffect ==
  ASSUME NEW w \in Worker, SendToNext(w)
  PROVE  \E r \in run[w].batch, outcome \in {"markSent", "markFailed", "catch"}, got \in BOOLEAN :
           Sends(w, r, outcome, got)
<1>1. PICK r \in run[w].batch, end \in SendEnds[Connector] :
        /\ attempts' = [attempts EXCEPT ![r] = @ + 1]
        /\ copies' = IF end \in {"accepted", "unanswered"}
                     THEN [copies EXCEPT ![r] = @ + 1] ELSE copies
        /\ unrecorded' = IF end = "unanswered" THEN unrecorded \cup {r} ELSE unrecorded
        /\ run' = [run EXCEPT ![w] = [@ EXCEPT !.pc = After(end), !.current = r]]
  BY DEF SendToNext
<1>2. UNCHANGED <<status, recipients, late, starts, jobs>>
  BY DEF SendToNext
<1> DEFINE outcome == After(end)
           got == end \in {"accepted", "unanswered"}
<1>3. /\ end \in {"accepted", "refused", "unanswered", "threw", "pretended"}
      /\ end = "pretended" <=> Connector = "stub"
  BY CampaignAssumption DEF SendEnds
<1>4. /\ outcome \in {"markSent", "markFailed", "catch"}
      /\ outcome = "markSent" <=> end \in {"accepted", "pretended"}
  BY <1>3 DEF After
<1>5. Sends(w, r, outcome, got)
  <2> HIDE DEF outcome
  <2>1. run' = [run EXCEPT ![w] = [@ EXCEPT !.pc = outcome, !.current = r]]
    BY <1>1 DEF outcome
  <2> QED
    BY <1>1, <1>2, <1>3, <1>4, <2>1 DEF Sends
<1>6. got \in BOOLEAN
  OBVIOUS
<1> HIDE DEF outcome, got
<1> QED
  BY <1>4, <1>5, <1>6

LEMMA TypeStep == TypeInv /\ [Next]_vars => TypeInv'
<1> SUFFICES ASSUME TypeInv, [Next]_vars
             PROVE  TypeInv'
  OBVIOUS
<1> USE CampaignAssumption DEF rows, sends
<1> DEFINE Rest == /\ status \in {"DRAFT", "SENDING", "COMPLETED", "GONE"}
                   /\ recipients \in [Recipient -> {"NONE", "PENDING", "SENT", "FAILED"}]
                   /\ attempts \in [Recipient -> Nat]
                   /\ copies \in [Recipient -> Nat]
                   /\ starts \in [Start -> {"new", "enqueue", "ended", "lost"}]
                   /\ late \subseteq Recipient
                   /\ unrecorded \subseteq Recipient
<1>a. RunOK /\ Rest /\ Q!TypeOK
  BY DEF TypeInv, TypeOK, RunOK
<1>b. RunOK' /\ Rest' /\ Q!TypeOK' => TypeInv'
  BY DEF TypeInv, TypeOK, RunOK
<1>q. Q!Next => Q!TypeOK'
  BY <1>a, QueueType
<1>u. UNCHANGED jobs => Q!TypeOK'
  BY <1>a DEF Q!TypeOK
<1>r. UNCHANGED run => RunOK'
  BY <1>a DEF RunOK, Busy, At
<1>1. ASSUME NEW r \in Recipient, AddRecipient(r) PROVE TypeInv'
  BY <1>1, <1>a, <1>b, <1>u, <1>r DEF AddRecipient
<1>2. ASSUME NEW s \in Start, StartCampaign(s) \/ LoseStart(s) PROVE TypeInv'
  BY <1>2, <1>a, <1>b, <1>u, <1>r DEF StartCampaign, LoseStart
<1>3. ASSUME NEW s \in Start, NEW j \in Job, EnqueueStart(s, j) PROVE TypeInv'
  BY <1>3, <1>a, <1>b, <1>q, <1>r DEF EnqueueStart, Q!Next
<1>4. CASE DeleteChannel
  BY <1>4, <1>a, <1>b, <1>u, <1>r DEF DeleteChannel
<1>5. ASSUME NEW w \in Worker, NEW j \in Job, StartJob(w, j) PROVE TypeInv'
  <2> DEFINE new == [Idle EXCEPT !.pc = "load", !.job = j]
  <2>1. new \in Run /\ new.pc = "load" /\ new.job = j
    BY DEF Idle, Run, Pc
  <2>2. run' = [run EXCEPT ![w] = new]
    BY <1>5 DEF StartJob
  <2> HIDE DEF new
  <2>3. RunOK'
    BY <2>1, <2>2, <1>a, RunType
  <2> QED
    BY <1>5, <1>a, <1>b, <1>q, <2>3 DEF StartJob, Q!Next
<1>6. ASSUME NEW w \in Worker, LoadBatch(w) PROVE TypeInv'
  <2>1. PICK batch \in SUBSET Pending :
          run' = [run EXCEPT ![w] = [@ EXCEPT !.batch = batch,
                                              !.pc = IF batch = {} THEN "count" ELSE "send"]]
    BY <1>6 DEF LoadBatch
  <2> DEFINE pc == IF batch = {} THEN "count" ELSE "send"
             new == [run[w] EXCEPT !.batch = batch, !.pc = pc]
  <2>2. batch \in SUBSET Recipient /\ pc \in {"count", "send"} /\ run[w] \in Run
        /\ run[w].job \in Job
    BY <1>6, <1>a DEF LoadBatch, RunOK, Busy, At, Pending
  <2>3. run' = [run EXCEPT ![w] = new]
    BY <2>1
  <2>4. new \in Run /\ new.pc \in {"count", "send"} /\ new.job \in Job
    <3> HIDE DEF pc
    <3> QED BY <2>2 DEF Run, Pc
  <2> HIDE DEF new
  <2>5. RunOK'
    BY <2>3, <2>4, <1>a, RunType
  <2> QED
    BY <1>6, <1>a, <1>b, <1>u, <2>5 DEF LoadBatch
<1>7. ASSUME NEW w \in Worker, SendToNext(w) PROVE TypeInv'
  <2>1. PICK r \in run[w].batch, outcome \in {"markSent", "markFailed", "catch"}, got \in BOOLEAN :
          Sends(w, r, outcome, got)
    BY <1>7, SendEffect
  <2> USE DEF Sends
  <2> DEFINE new == [run[w] EXCEPT !.pc = outcome, !.current = r]
  <2>2. run[w] \in Run /\ run[w].job \in Job /\ r \in Recipient
    BY <1>7, <1>a DEF SendToNext, RunOK, Busy, At, Run
  <2>3. run' = [run EXCEPT ![w] = new]
    BY <2>1
  <2>4. new \in Run /\ new.pc = outcome /\ new.job \in Job /\ new.current \in Recipient
    BY <2>2 DEF Run, Pc
  <2> HIDE DEF new
  <2>5. RunOK'
    BY <2>3, <2>4, <1>a, RunType
  <2> QED
    BY <1>7, <1>a, <1>b, <1>u, <2>1, <2>2, <2>5
<1>8. ASSUME NEW w \in Worker, MarkSent(w) \/ MarkFailed(w) \/ MarkCaught(w) PROVE TypeInv'
  <2>1. PICK outcome \in {"SENT", "FAILED"} : Record(w, outcome)
    BY <1>8 DEF MarkSent, MarkFailed, MarkCaught
  <2>2. run[w].pc \in {"markSent", "markFailed", "catch"}
    BY <1>8 DEF MarkSent, MarkFailed, MarkCaught, At
  <2>3. RunOK' /\ recipients' \in [Recipient -> {"NONE", "PENDING", "SENT", "FAILED"}]
    BY <2>1, <2>2, <1>a, RecordType
  <2> QED
    BY <2>1, <2>3, <1>a, <1>b, <1>u DEF Record
<1>9. ASSUME NEW w \in Worker, MarkThrows(w) PROVE TypeInv'
  <2> DEFINE new == [run[w] EXCEPT !.pc = "catch"]
  <2>1. new \in Run /\ new.pc = "catch" /\ new.job \in Job /\ new.current \in Recipient
    BY <1>9, <1>a DEF MarkThrows, RunOK, Run, Busy, At, Pc
  <2>2. run' = [run EXCEPT ![w] = new]
    BY <1>9 DEF MarkThrows, Goto
  <2>3. run[w].current \in Recipient
    BY <2>1
  <2> HIDE DEF new
  <2>4. RunOK'
    BY <2>1, <2>2, <1>a, RunType
  <2> QED
    BY <1>9, <1>a, <1>b, <1>u, <2>3, <2>4 DEF MarkThrows
<1>10. ASSUME NEW w \in Worker, CountRemaining(w) PROVE TypeInv'
  <2>1. RunOK'
    BY <1>10, <1>a, GotoType DEF CountRemaining, At, Pc
  <2> QED
    BY <1>10, <1>a, <1>b, <1>u, <2>1 DEF CountRemaining
<1>11. ASSUME NEW w \in Worker, NEW j \in Job, Requeue(w, j) PROVE TypeInv'
  <2>1. RunOK'
    BY <1>11, <1>a, GotoType DEF Requeue, At, Pc
  <2> QED
    BY <1>11, <1>a, <1>b, <1>q, <2>1 DEF Requeue, Q!Next
<1>12. ASSUME NEW w \in Worker, CompleteCampaign(w) PROVE TypeInv'
  <2>1. RunOK'
    BY <1>12, <1>a, GotoType DEF CompleteCampaign, At, Pc
  <2> QED
    BY <1>12, <1>a, <1>b, <1>u, <2>1 DEF CompleteCampaign
<1>13. ASSUME NEW w \in Worker, CompleteJob(w) \/ FailJob(w) PROVE TypeInv'
  <2>1. run[w].job \in Job
    BY <1>13, <1>a DEF CompleteJob, FailJob, Throws, RunOK, Busy, At
  <2>2. RunOK'
    BY <1>13, <1>a, IdleType DEF CompleteJob, FailJob
  <2> QED
    BY <1>13, <2>1, <2>2, <1>a, <1>b, <1>q DEF CompleteJob, FailJob, Q!Next
<1>14. ASSUME NEW w \in Worker, CrashWorker(w) PROVE TypeInv'
  BY <1>14, <1>a, <1>b, <1>u, IdleType DEF CrashWorker
<1>15. ASSUME NEW j \in Job, ExpireLock(j) PROVE TypeInv'
  BY <1>15, <1>a, <1>b, <1>q, <1>r DEF ExpireLock, Q!Next
<1>16. CASE UNCHANGED vars
  BY <1>16, <1>a, <1>b, <1>u, <1>r DEF vars
<1> QED
  BY <1>1, <1>2, <1>3, <1>4, <1>5, <1>6, <1>7, <1>8, <1>9, <1>10, <1>11, <1>12, <1>13, <1>14,
     <1>15, <1>16 DEF Next, WorkerStep

LEMMA TypeInit == Init => TypeInv
  BY CampaignAssumption
     DEF Init, TypeInv, TypeOK, Busy, At, Idle, Run, Pc, Q!Init, Q!TypeOK, Q!JobRecord,
         Q!JobState

\* Type correctness of the campaign's rows, queue and workers.
THEOREM CampaignTypeCorrect == Spec => []TypeOK
<1>1. TypeInv => TypeOK
  BY DEF TypeInv
<1> QED
  BY TypeInit, TypeStep, <1>1, PTL DEF Spec

-----------------------------------------------------------------------------
\* The steps that neither send nor record an outcome leave every worker where
\* it was or move it somewhere harmless.
LEMMA OtherSteps ==
  ASSUME TypeInv, [Next]_vars,
         \A w \in Worker : ~SendToNext(w) /\ ~MarkSent(w) /\ ~MarkFailed(w) /\ ~MarkCaught(w)
  PROVE  /\ UNCHANGED <<attempts, copies>>
         /\ \A v \in Worker : \/ run'[v] = run[v]
                              \/ run'[v].pc \notin {"markSent", "markFailed"}
<1> USE DEF rows, sends
<1>t. run \in [Worker -> Run]
  BY DEF TypeInv, TypeOK
<1>1. UNCHANGED <<attempts, copies>>
  BY DEF Next, WorkerStep, AddRecipient, StartCampaign, LoseStart, EnqueueStart, DeleteChannel,
         StartJob, LoadBatch, MarkThrows, CountRemaining, Requeue, CompleteCampaign,
         CompleteJob, FailJob, CrashWorker, ExpireLock, vars
<1>2. ASSUME NEW w \in Worker, NEW pc \in Pc, Goto(w, pc), pc \notin {"markSent", "markFailed"}
      PROVE  \A v \in Worker : \/ run'[v] = run[v]
                               \/ run'[v].pc \notin {"markSent", "markFailed"}
  BY <1>2, <1>t DEF Goto, Run
<1>3. ASSUME NEW w \in Worker,
             \/ MarkThrows(w) \/ CountRemaining(w) \/ CompleteCampaign(w)
             \/ \E j \in Job : Requeue(w, j)
      PROVE  \A v \in Worker : \/ run'[v] = run[v]
                               \/ run'[v].pc \notin {"markSent", "markFailed"}
  BY <1>2, <1>3 DEF MarkThrows, CountRemaining, CompleteCampaign, Requeue, Pc
<1>4. ASSUME NEW w \in Worker, run' = [run EXCEPT ![w] = Idle]
      PROVE  \A v \in Worker : \/ run'[v] = run[v]
                               \/ run'[v].pc \notin {"markSent", "markFailed"}
  BY <1>4, <1>t DEF Idle
<1>5. ASSUME NEW w \in Worker, NEW j \in Job, StartJob(w, j)
      PROVE  \A v \in Worker : \/ run'[v] = run[v]
                               \/ run'[v].pc \notin {"markSent", "markFailed"}
  BY <1>5, <1>t DEF StartJob, Idle
<1>6. ASSUME NEW w \in Worker, LoadBatch(w)
      PROVE  \A v \in Worker : \/ run'[v] = run[v]
                               \/ run'[v].pc \notin {"markSent", "markFailed"}
  BY <1>6, <1>t DEF LoadBatch, Run
<1>7. ASSUME NEW w \in Worker, CompleteJob(w) \/ FailJob(w) \/ CrashWorker(w)
      PROVE  run' = [run EXCEPT ![w] = Idle]
  BY <1>7 DEF CompleteJob, FailJob, CrashWorker
<1>8. ASSUME \/ \E r \in Recipient : AddRecipient(r)
             \/ \E s \in Start : StartCampaign(s) \/ LoseStart(s)
                                 \/ \E j \in Job : EnqueueStart(s, j)
             \/ DeleteChannel \/ (\E j \in Job : ExpireLock(j)) \/ UNCHANGED vars
      PROVE  UNCHANGED run
  BY <1>8 DEF AddRecipient, StartCampaign, LoseStart, EnqueueStart, DeleteChannel, ExpireLock,
              vars
<1> QED
  BY <1>1, <1>3, <1>4, <1>5, <1>6, <1>7, <1>8 DEF Next, WorkerStep

\* Only the recording of an outcome gives a recipient one.
LEMMA RowsSettleOnlyByRecord ==
  ASSUME TypeInv, [Next]_vars,
         \A w \in Worker : ~MarkSent(w) /\ ~MarkFailed(w) /\ ~MarkCaught(w)
  PROVE  \A r \in Recipient : recipients'[r] \in {"SENT", "FAILED"} => recipients'[r] = recipients[r]
<1> USE DEF rows, sends
<1>t. recipients \in [Recipient -> {"NONE", "PENDING", "SENT", "FAILED"}]
  BY DEF TypeInv, TypeOK
<1>1. ASSUME NEW r \in Recipient, AddRecipient(r)
      PROVE  \A x \in Recipient : recipients'[x] \in {"SENT", "FAILED"} => recipients'[x] = recipients[x]
  BY <1>1, <1>t DEF AddRecipient
<1>2. DeleteChannel => \A x \in Recipient : recipients'[x] = "NONE"
  BY DEF DeleteChannel
<1>3. (\A r \in Recipient : ~AddRecipient(r)) /\ ~DeleteChannel => UNCHANGED recipients
  BY DEF Next, WorkerStep, StartCampaign, LoseStart, EnqueueStart, StartJob, LoadBatch,
       SendToNext, MarkThrows, CountRemaining, Requeue, CompleteCampaign, CompleteJob, FailJob,
       CrashWorker, ExpireLock, vars
<1> QED
  BY <1>1, <1>2, <1>3

\* A worker is in the catch block only if a send or an update has thrown.
LEMMA CaughtOnlyAfterThrow ==
  ASSUME TypeInv, [Next]_vars,
         \A w \in Worker : /\ ~SendToNext(w) /\ ~MarkSent(w) /\ ~MarkFailed(w)
                           /\ ~MarkCaught(w) /\ ~MarkThrows(w)
  PROVE  \A v \in Worker : run'[v].pc = "catch" => run'[v] = run[v]
<1> USE DEF rows, sends
<1>t. run \in [Worker -> Run]
  BY DEF TypeInv, TypeOK
<1>1. ASSUME NEW w \in Worker,
             CountRemaining(w) \/ CompleteCampaign(w) \/ \E j \in Job : Requeue(w, j)
      PROVE  \A v \in Worker : run'[v].pc = "catch" => run'[v] = run[v]
  <2>1. \E pc \in {"requeue", "complete", "return"} : Goto(w, pc)
    BY <1>1 DEF CountRemaining, CompleteCampaign, Requeue
  <2> QED
    BY <2>1, <1>t DEF Goto, Run
<1>2. ASSUME NEW w \in Worker, CompleteJob(w) \/ FailJob(w) \/ CrashWorker(w)
      PROVE  \A v \in Worker : run'[v].pc = "catch" => run'[v] = run[v]
  BY <1>2, <1>t DEF CompleteJob, FailJob, CrashWorker, Idle
<1>3. ASSUME NEW w \in Worker, NEW j \in Job, StartJob(w, j)
      PROVE  \A v \in Worker : run'[v].pc = "catch" => run'[v] = run[v]
  BY <1>3, <1>t DEF StartJob, Idle
<1>4. ASSUME NEW w \in Worker, LoadBatch(w)
      PROVE  \A v \in Worker : run'[v].pc = "catch" => run'[v] = run[v]
  BY <1>4, <1>t DEF LoadBatch, Run
<1>5. ASSUME \/ \E r \in Recipient : AddRecipient(r)
             \/ \E s \in Start : StartCampaign(s) \/ LoseStart(s)
                                 \/ \E j \in Job : EnqueueStart(s, j)
             \/ DeleteChannel \/ (\E j \in Job : ExpireLock(j)) \/ UNCHANGED vars
      PROVE  UNCHANGED run
  BY <1>5 DEF AddRecipient, StartCampaign, LoseStart, EnqueueStart, DeleteChannel, ExpireLock,
              vars
<1> QED
  BY <1>1, <1>2, <1>3, <1>4, <1>5 DEF Next, WorkerStep

\* No step records SENT for somebody who did not receive the message, but for a
\* stub's.
LEMMA SentStep == TypeInv /\ SentInv /\ [Next]_vars => SentInv'
<1> SUFFICES ASSUME TypeInv, SentInv, [Next]_vars
             PROVE  SentInv'
  OBVIOUS
<1> USE DEF SentInv, SentUnlessStub, At, rows, sends
<1>t. /\ RunOK /\ run \in [Worker -> Run] /\ copies \in [Recipient -> Nat]
      /\ recipients \in [Recipient -> {"NONE", "PENDING", "SENT", "FAILED"}]
      /\ \A w \in Worker : At(w, "markSent") => run[w].current \in Recipient
  BY DEF TypeInv, TypeOK, RunOK, Busy
<1>1. ASSUME NEW w \in Worker, SendToNext(w) PROVE SentInv'
  <2>1. PICK r \in run[w].batch, outcome \in {"markSent", "markFailed", "catch"}, got \in BOOLEAN :
          Sends(w, r, outcome, got)
    BY <1>1, SendEffect
  <2> USE DEF Sends
  <2>2. r \in Recipient /\ run[w] \in Run
    BY <1>t DEF Run
  <2>3. /\ run'[w].pc = outcome /\ run'[w].current = r
        /\ \A v \in Worker : v # w => run'[v] = run[v]
    BY <2>1, <2>2, <1>t DEF Run
  <2>4. \A x \in Recipient : copies[x] > 0 => copies'[x] > 0
    BY <2>1, <2>2, <1>t
  <2>5. outcome = "markSent" /\ Connector # "stub" => copies'[r] > 0
    BY <2>1, <2>2, <1>t
  <2>6. Connector = "stub" => UNCHANGED copies
    BY <2>1
  <2>7. UNCHANGED recipients
    BY <2>1
  <2> HIDE DEF Sends
  <2> QED
    BY <2>2, <2>3, <2>4, <2>5, <2>6, <2>7, <1>t
<1>2. ASSUME NEW w \in Worker, NEW outcome \in {"SENT", "FAILED"}, Record(w, outcome),
             run[w].pc \in {"markSent", "markFailed", "catch"},
             outcome = "SENT" => At(w, "markSent")
      PROVE  SentInv'
  <2>1. /\ run'[w].pc \in {"count", "send"} /\ run[w].current \in Recipient
        /\ \A v \in Worker : v # w => run'[v] = run[v]
        /\ recipients' = [recipients EXCEPT ![run[w].current] = outcome]
    BY <1>2, <1>t, RecordType
  <2>2. UNCHANGED copies
    BY <1>2 DEF Record
  <2>3. \A v \in Worker : run'[v].pc = "markSent" => run'[v] = run[v]
    BY <2>1
  <2>4. SentUnlessStub'
    BY <2>1, <2>2, <1>2, <1>t
  <2>5. ASSUME NEW v \in Worker, run'[v].pc = "markSent", Connector # "stub"
        PROVE  copies'[run'[v].current] > 0
    <3>1. run'[v] = run[v] /\ run[v].pc = "markSent"
      BY <2>3, <2>5
    <3> QED
      BY <2>2, <2>5, <3>1
  <2> QED
    BY <2>2, <2>4, <2>5
<1>3. ASSUME NEW w \in Worker, MarkSent(w) \/ MarkFailed(w) \/ MarkCaught(w) PROVE SentInv'
  BY <1>2, <1>3 DEF MarkSent, MarkFailed, MarkCaught
<1>4. ASSUME \A w \in Worker : ~SendToNext(w) /\ ~MarkSent(w) /\ ~MarkFailed(w) /\ ~MarkCaught(w)
      PROVE  SentInv'
  <2>1. /\ UNCHANGED copies
        /\ \A v \in Worker : run'[v].pc = "markSent" => run'[v] = run[v]
    BY <1>4, OtherSteps
  <2>2. \A r \in Recipient : recipients'[r] = "SENT" => recipients[r] = "SENT"
    BY <1>4, RowsSettleOnlyByRecord
  <2> QED
    BY <2>1, <2>2
<1> QED
  BY <1>1, <1>3, <1>4

\* A recipient marked SENT did receive the message, and did not if the connector
\* is a stub (processCampaign updates the row only after sendMessage reported
\* success).
THEOREM SentMeansReceived == Spec => []SentUnlessStub
<1>1. Init => TypeInv /\ SentInv
  BY TypeInit DEF Init, SentInv, SentUnlessStub, At, Idle
<1>2. (TypeInv /\ SentInv) /\ [Next]_vars => (TypeInv /\ SentInv)'
  BY TypeStep, SentStep
<1>3. SentInv => SentUnlessStub
  BY DEF SentInv
<1> QED
  BY <1>1, <1>2, <1>3, PTL DEF Spec

-----------------------------------------------------------------------------
\* A send adds to the attempts for a recipient, and at most as much to the
\* copies he received; a failure has its reason.
LEMMA SendCounts ==
  ASSUME TypeInv, FailInv, NEW w \in Worker, SendToNext(w)
  PROVE  /\ \A x \in Recipient : copies'[x] <= attempts'[x] /\ (HasReason(x) => HasReason(x)')
         /\ \A v \in Worker : v # w => run'[v] = run[v]
         /\ run'[w].pc \in {"markFailed", "catch"} =>
              run'[w].current \in Recipient /\ HasReason(run[w].current)'
         /\ UNCHANGED recipients
<1>t. /\ run \in [Worker -> Run] /\ attempts \in [Recipient -> Nat]
      /\ copies \in [Recipient -> Nat]
  BY DEF TypeInv, TypeOK
<1>1. PICK r \in run[w].batch, outcome \in {"markSent", "markFailed", "catch"}, got \in BOOLEAN :
        Sends(w, r, outcome, got)
  BY SendEffect
<1>2. r \in Recipient
  BY <1>t DEF Run
<1>3. /\ run'[w].pc = outcome /\ run'[w].current = r
      /\ \A v \in Worker : v # w => run'[v] = run[v]
      /\ UNCHANGED recipients /\ unrecorded \subseteq unrecorded'
  BY <1>1, <1>2, <1>t DEF Run, Sends
<1>4. \A x \in Recipient : copies[x] <= attempts[x]
  BY DEF FailInv
<1>5. ASSUME NEW x \in Recipient
      PROVE  /\ copies'[x] <= attempts'[x]
             /\ copies[x] < attempts[x] => copies'[x] < attempts'[x]
             /\ x = r /\ ~got => copies'[x] < attempts'[x]
  <2>1. copies[x] \in Nat /\ attempts[x] \in Nat /\ copies[x] <= attempts[x]
    BY <1>t, <1>4
  <2>2. /\ attempts'[x] = IF x = r THEN attempts[x] + 1 ELSE attempts[x]
        /\ copies'[x] = IF x = r /\ got THEN copies[x] + 1 ELSE copies[x]
    BY <1>1, <1>t DEF Sends
  <2> QED
    BY <2>1, <2>2
<1>6. \A x \in Recipient : HasReason(x) => HasReason(x)'
  BY <1>3, <1>5 DEF HasReason
<1>7. outcome # "markSent" => HasReason(r)'
  BY <1>1, <1>2, <1>5 DEF HasReason, Sends
<1>8. run'[w].pc \in {"markFailed", "catch"} => HasReason(run[w].current)'
  BY <1>2, <1>3, <1>7 DEF HasReason
<1> QED
  BY <1>2, <1>3, <1>5, <1>6, <1>8

\* No step shows a recipient as FAILED without a reason.
LEMMA FailStep == TypeInv /\ FailInv /\ [Next]_vars => FailInv'
<1> SUFFICES ASSUME TypeInv, FailInv, [Next]_vars
             PROVE  FailInv'
  OBVIOUS
<1> USE DEF rows, sends
<1>t. /\ RunOK /\ run \in [Worker -> Run]
      /\ recipients \in [Recipient -> {"NONE", "PENDING", "SENT", "FAILED"}]
      /\ \A w \in Worker : run[w].pc \in {"markSent", "markFailed", "catch"} =>
           run[w].current \in Recipient
  BY DEF TypeInv, TypeOK, RunOK, Busy
<1>u. \A w \in Worker : run'[w].pc \in {"markFailed", "catch"} => run'[w].current \in Recipient
  BY TypeStep DEF TypeInv, Busy
<1>i. /\ \A r \in Recipient : copies[r] <= attempts[r]
      /\ \A r \in Recipient : recipients[r] = "FAILED" => HasReason(r)
      /\ \A w \in Worker, r \in Recipient :
           run[w].current = r /\ run[w].pc \in {"markFailed", "catch"} => HasReason(r)
  BY DEF FailInv, FailureHasReason, At
<1>b. ASSUME \A r \in Recipient : copies'[r] <= attempts'[r],
             \A r \in Recipient : recipients'[r] = "FAILED" => HasReason(r)',
             \A w \in Worker, r \in Recipient :
               run'[w].current = r /\ run'[w].pc \in {"markFailed", "catch"} => HasReason(r)'
      PROVE  FailInv'
  BY <1>b, <1>u DEF FailInv, FailureHasReason, At, HasReason
<1>1. ASSUME NEW w \in Worker, SendToNext(w) PROVE FailInv'
  <2>0. /\ \A x \in Recipient : copies'[x] <= attempts'[x] /\ (HasReason(x) => HasReason(x)')
        /\ \A v \in Worker : v # w => run'[v] = run[v]
        /\ run'[w].pc \in {"markFailed", "catch"} =>
             run'[w].current \in Recipient /\ HasReason(run[w].current)'
        /\ UNCHANGED recipients
    BY <1>1, SendCounts
  <2>1. ASSUME NEW v \in Worker, NEW r \in Recipient, run'[v].current = r,
               run'[v].pc \in {"markFailed", "catch"}
        PROVE  HasReason(r)'
    <3>1. CASE v = w
      BY <2>0, <2>1, <3>1 DEF HasReason
    <3>2. CASE v # w
      <4>1. run'[v] = run[v]
        BY <2>0, <3>2
      <4> QED
        BY <1>i, <2>0, <2>1, <4>1
    <3> QED BY <3>1, <3>2
  <2>2. \A r \in Recipient : recipients'[r] = "FAILED" => HasReason(r)'
    BY <1>i, <2>0
  <2> QED
    BY <1>b, <2>0, <2>1, <2>2
<1>2. ASSUME NEW w \in Worker, NEW outcome \in {"SENT", "FAILED"}, Record(w, outcome),
             run[w].pc \in {"markSent", "markFailed", "catch"},
             outcome = "FAILED" => run[w].pc \in {"markFailed", "catch"}
      PROVE  FailInv'
  <2>1. /\ run'[w].pc \in {"count", "send"} /\ run[w].current \in Recipient
        /\ \A v \in Worker : v # w => run'[v] = run[v]
        /\ recipients' = [recipients EXCEPT ![run[w].current] = outcome]
    BY <1>2, <1>t, RecordType
  <2>2. UNCHANGED <<attempts, copies, unrecorded>>
    BY <1>2 DEF Record
  <2>3. \A x \in Recipient : HasReason(x) => HasReason(x)'
    BY <2>2 DEF HasReason
  <2>4. outcome = "FAILED" => HasReason(run[w].current)
    BY <1>2, <1>i, <2>1 DEF HasReason
  <2>5. \A r \in Recipient : recipients'[r] = "FAILED" => HasReason(r)
    BY <1>i, <1>t, <2>1, <2>4
  <2>6. \A v \in Worker : run'[v].pc \in {"markFailed", "catch"} => run'[v] = run[v]
    BY <2>1
  <2> QED
    BY <1>b, <1>i, <2>2, <2>3, <2>5, <2>6
<1>3. ASSUME NEW w \in Worker, MarkSent(w) \/ MarkFailed(w) \/ MarkCaught(w) PROVE FailInv'
  BY <1>2, <1>3 DEF MarkSent, MarkFailed, MarkCaught, At
<1>4. ASSUME NEW w \in Worker, MarkThrows(w) PROVE FailInv'
  <2>1. /\ run'[w].pc = "catch" /\ run'[w].current = run[w].current
        /\ \A v \in Worker : v # w => run'[v] = run[v]
    BY <1>4, <1>t DEF MarkThrows, Goto, Run
  <2>2. UNCHANGED <<attempts, copies, recipients>> /\ unrecorded' = unrecorded \cup {run[w].current}
    BY <1>4 DEF MarkThrows
  <2>3. \A x \in Recipient : HasReason(x) \/ x = run[w].current => HasReason(x)'
    BY <2>2 DEF HasReason
  <2>4. ASSUME NEW v \in Worker, NEW r \in Recipient, run'[v].current = r,
               run'[v].pc \in {"markFailed", "catch"}
        PROVE  HasReason(r)'
    <3>1. CASE v = w
      BY <2>1, <2>3, <2>4, <3>1
    <3>2. CASE v # w
      BY <1>i, <2>1, <2>2, <2>3, <2>4, <3>2
    <3> QED BY <3>1, <3>2
  <2> QED
    BY <1>b, <1>i, <2>2, <2>3, <2>4
<1>5. ASSUME \A w \in Worker : /\ ~SendToNext(w) /\ ~MarkSent(w) /\ ~MarkFailed(w)
                               /\ ~MarkCaught(w) /\ ~MarkThrows(w)
      PROVE  FailInv'
  <2>1. /\ UNCHANGED <<attempts, copies>>
        /\ \A v \in Worker : run'[v].pc = "markFailed" => run'[v] = run[v]
    BY <1>5, OtherSteps
  <2>2. \A v \in Worker : run'[v].pc = "catch" => run'[v] = run[v]
    BY <1>5, CaughtOnlyAfterThrow
  <2>3. UNCHANGED unrecorded
    BY <1>5 DEF Next, WorkerStep, AddRecipient, StartCampaign, LoseStart, EnqueueStart,
         DeleteChannel, StartJob, LoadBatch, CountRemaining, Requeue, CompleteCampaign,
         CompleteJob, FailJob, CrashWorker, ExpireLock, vars
  <2>4. \A x \in Recipient : HasReason(x) => HasReason(x)'
    BY <2>1, <2>3 DEF HasReason
  <2>5. \A r \in Recipient : recipients'[r] = "FAILED" => recipients[r] = "FAILED"
    BY <1>5, RowsSettleOnlyByRecord
  <2> QED
    BY <1>b, <1>i, <2>1, <2>2, <2>4, <2>5
<1> QED
  BY <1>1, <1>3, <1>4, <1>5

\* A recipient shown as FAILED was refused by the platform, or his result was
\* lost on the way to his row (the catch blocks of the connectors and of
\* processCampaign's loop).
THEOREM FailedHasReason == Spec => []FailureHasReason
<1>1. Init => TypeInv /\ FailInv
  BY TypeInit DEF Init, FailInv, FailureHasReason, At, Idle
<1>2. (TypeInv /\ FailInv) /\ [Next]_vars => (TypeInv /\ FailInv)'
  BY TypeStep, FailStep
<1>3. FailInv => FailureHasReason
  BY DEF FailInv
<1> QED
  BY <1>1, <1>2, <1>3, PTL DEF Spec

-----------------------------------------------------------------------------
\* A worker that goes on to `pc` did so by that one step; the others stay.
LEMMA GotoOnly ==
  ASSUME TypeInv, NEW w \in Worker, NEW pc \in Pc, Goto(w, pc)
  PROVE  run'[w].pc = pc /\ \A v \in Worker : v # w => run'[v] = run[v]
  BY DEF TypeInv, TypeOK, Goto, Run

\* Only CountRemaining sends a worker to "complete".
LEMMA CompleteOnlyAfterCount ==
  ASSUME TypeInv, [Next]_vars, NEW v \in Worker, run'[v].pc = "complete", run[v].pc # "complete"
  PROVE  CountRemaining(v)
<1> USE DEF rows, sends
<1>t. RunOK /\ run \in [Worker -> Run]
      /\ recipients \in [Recipient -> {"NONE", "PENDING", "SENT", "FAILED"}]
  BY DEF TypeInv, TypeOK, RunOK
<1>1. ASSUME NEW w \in Worker, SendToNext(w) PROVE FALSE
  <2>1. PICK r \in run[w].batch, outcome \in {"markSent", "markFailed", "catch"}, got \in BOOLEAN :
          Sends(w, r, outcome, got)
    BY <1>1, SendEffect
  <2> QED
    BY <1>t, <2>1 DEF Sends, Run
<1>2. ASSUME NEW w \in Worker, MarkSent(w) \/ MarkFailed(w) \/ MarkCaught(w) PROVE FALSE
  <2>1. run'[w].pc \in {"count", "send"} /\ \A u \in Worker : u # w => run'[u] = run[u]
    BY <1>2, <1>t, RecordType DEF MarkSent, MarkFailed, MarkCaught, At
  <2> QED
    BY <2>1
<1>3. ASSUME NEW w \in Worker,
             MarkThrows(w) \/ CompleteCampaign(w) \/ \E j \in Job : Requeue(w, j)
      PROVE  FALSE
  <2>1. Goto(w, "catch") \/ Goto(w, "return")
    BY <1>3 DEF MarkThrows, CompleteCampaign, Requeue
  <2> QED
    BY <2>1, GotoOnly DEF Pc
<1>4. ASSUME NEW w \in Worker, CountRemaining(w) PROVE w = v
  <2>1. Goto(w, "requeue") \/ Goto(w, "complete")
    BY <1>4 DEF CountRemaining
  <2> QED
    BY <2>1, GotoOnly DEF Pc
<1>5. ASSUME NEW w \in Worker, NEW j \in Job, StartJob(w, j) PROVE FALSE
  BY <1>5, <1>t DEF StartJob, Idle
<1>6. ASSUME NEW w \in Worker, LoadBatch(w) PROVE FALSE
  BY <1>6, <1>t DEF LoadBatch, Run
<1>7. ASSUME NEW w \in Worker, CompleteJob(w) \/ FailJob(w) \/ CrashWorker(w) PROVE FALSE
  BY <1>7, <1>t DEF CompleteJob, FailJob, CrashWorker, Idle
<1>8. ASSUME \/ \E r \in Recipient : AddRecipient(r)
             \/ \E s \in Start : StartCampaign(s) \/ LoseStart(s)
                                 \/ \E j \in Job : EnqueueStart(s, j)
             \/ DeleteChannel \/ (\E j \in Job : ExpireLock(j)) \/ UNCHANGED vars
      PROVE  FALSE
  BY <1>8 DEF AddRecipient, StartCampaign, LoseStart, EnqueueStart, DeleteChannel, ExpireLock,
              vars
<1> QED
  BY <1>1, <1>2, <1>3, <1>4, <1>5, <1>6, <1>7, <1>8 DEF Next, WorkerStep

\* Once the campaign was started, nobody who was added in time becomes PENDING.
LEMMA PendingShrinks ==
  ASSUME TypeInv, [Next]_vars
  PROVE  /\ late \subseteq late'
         /\ status # "DRAFT" => Pending' \subseteq Pending \cup late'
<1> USE DEF Pending, rows, sends
<1>t. RunOK /\ recipients \in [Recipient -> {"NONE", "PENDING", "SENT", "FAILED"}]
  BY DEF TypeInv, TypeOK, RunOK
<1>1. ASSUME NEW r \in Recipient, AddRecipient(r)
      PROVE  late \subseteq late' /\ (status # "DRAFT" => Pending' \subseteq Pending \cup late')
  BY <1>1, <1>t DEF AddRecipient
<1>2. CASE DeleteChannel
  BY <1>2 DEF DeleteChannel
<1>3. ASSUME NEW w \in Worker, MarkSent(w) \/ MarkFailed(w) \/ MarkCaught(w)
      PROVE  late' = late /\ Pending' \subseteq Pending
  <2>1. PICK outcome \in {"SENT", "FAILED"} : Record(w, outcome)
    BY <1>3 DEF MarkSent, MarkFailed, MarkCaught
  <2>2. recipients' = [recipients EXCEPT ![run[w].current] = outcome]
    BY <2>1 DEF Record
  <2> QED
    BY <2>1, <2>2, <1>t DEF Record
<1>4. (\A r \in Recipient : ~AddRecipient(r)) /\ ~DeleteChannel
      /\ (\A w \in Worker : ~MarkSent(w) /\ ~MarkFailed(w) /\ ~MarkCaught(w))
      => UNCHANGED <<recipients, late>>
  BY DEF Next, WorkerStep, StartCampaign, LoseStart, EnqueueStart, StartJob, LoadBatch,
         SendToNext, MarkThrows, CountRemaining, Requeue, CompleteCampaign, CompleteJob,
         FailJob, CrashWorker, ExpireLock, vars
<1> QED
  BY <1>1, <1>2, <1>3, <1>4

LEMMA DrainStep == TypeInv /\ DrainInv /\ [Next]_vars => DrainInv'
<1> SUFFICES ASSUME TypeInv, DrainInv, [Next]_vars
             PROVE  DrainInv'
  OBVIOUS
<1> USE CampaignAssumption DEF At, rows, sends
<1>t. /\ run \in [Worker -> Run] /\ Q!TypeOK /\ starts \in [Start -> {"new", "enqueue", "ended", "lost"}]
      /\ \A w \in Worker : ~At(w, "idle") => run[w].job \in Job
  BY DEF TypeInv, TypeOK, Busy
<1>1. ASSUME status' = "DRAFT"
      PROVE  /\ status = "DRAFT"
             /\ UNCHANGED <<starts, jobs, run>>
  <2>0. status = "DRAFT"
    BY <1>1 DEF Next, WorkerStep, AddRecipient, StartCampaign, LoseStart, EnqueueStart,
       DeleteChannel, StartJob, LoadBatch, SendToNext, MarkSent, MarkFailed, MarkCaught, Record,
       MarkThrows, CountRemaining, Requeue, CompleteCampaign, CompleteJob, FailJob,
       CrashWorker, ExpireLock, vars
  <2>1. /\ \A s \in Start : starts[s] # "enqueue"
        /\ \A j \in Job : jobs[j].st = "unused"
        /\ \A w \in Worker : At(w, "idle")
    BY <2>0 DEF DrainInv
  <2>2. \A w \in Worker : ~WorkerStep(w) /\ ~CrashWorker(w)
    BY <2>1 DEF WorkerStep, StartJob, Q!Take, Requeue, LoadBatch, SendToNext, MarkSent,
       MarkFailed, MarkCaught, MarkThrows, CountRemaining, CompleteCampaign, CompleteJob,
       FailJob, Throws, CrashWorker
  <2>3. \A j \in Job : ~ExpireLock(j)
    BY <2>1 DEF ExpireLock, Q!Stall
  <2>4. \A s \in Start : /\ ~StartCampaign(s) /\ ~LoseStart(s)
                         /\ \A j \in Job : ~EnqueueStart(s, j)
    BY <2>1, <1>1 DEF StartCampaign, LoseStart, EnqueueStart
  <2> QED
    BY <1>1, <2>0, <2>2, <2>3, <2>4 DEF Next, AddRecipient, DeleteChannel, vars
<1>2. status # "DRAFT" /\ Pending \subseteq late => (Pending \subseteq late)'
  BY PendingShrinks
<1>3. ASSUME status' = "COMPLETED", status # "COMPLETED"
      PROVE  \E w \in Worker : At(w, "complete") /\ UNCHANGED <<recipients, late>>
  BY <1>3 DEF Next, WorkerStep, AddRecipient, StartCampaign, LoseStart, EnqueueStart,
     DeleteChannel, StartJob, LoadBatch, SendToNext, MarkSent, MarkFailed, MarkCaught, Record,
     MarkThrows, CountRemaining, Requeue, CompleteCampaign, CompleteJob, FailJob,
     CrashWorker, ExpireLock, vars
<1>4. CompletedIsDrained'
  <2>1. CASE status = "COMPLETED"
    BY <2>1, <1>2 DEF DrainInv, CompletedIsDrained
  <2>2. CASE status # "COMPLETED" /\ status' = "COMPLETED"
    BY <2>2, <1>3 DEF DrainInv, CompletedIsDrained, Pending
  <2> QED
    BY <2>1, <2>2 DEF CompletedIsDrained
<1>5. ASSUME NEW w \in Worker, run'[w].pc = "complete"
      PROVE  (Pending \subseteq late)'
  <2>1. CASE At(w, "complete")
    <3>1. status # "DRAFT" /\ Pending \subseteq late
      BY <2>1 DEF DrainInv
    <3> QED
      BY <3>1, <1>2
  <2>2. CASE ~At(w, "complete")
    <3>1. CountRemaining(w)
      BY <1>5, <2>2, CompleteOnlyAfterCount
    <3>2. Pending = {} /\ UNCHANGED <<recipients, late>>
      <4>1. Goto(w, IF Pending # {} THEN "requeue" ELSE "complete")
        BY <3>1 DEF CountRemaining
      <4>2. CASE Pending # {}
        BY <4>1, <4>2, <1>5, GotoOnly DEF Pc
      <4> QED
        BY <4>2, <3>1 DEF CountRemaining
    <3> QED
      BY <3>2 DEF Pending
  <2> QED
    BY <2>1, <2>2
<1> QED
  BY <1>1, <1>4, <1>5 DEF DrainInv

\* A campaign is COMPLETED only when everybody who was added before its start
\* has an outcome, however many jobs of it overlap, crash or fail.
THEOREM CompletedMeansDrained == Spec => []CompletedIsDrained
<1>1. Init => TypeInv /\ DrainInv
  BY TypeInit DEF Init, DrainInv, CompletedIsDrained, At, Idle, Q!Init
<1>2. (TypeInv /\ DrainInv) /\ [Next]_vars => (TypeInv /\ DrainInv)'
  BY TypeStep, DrainStep
<1>3. DrainInv => CompletedIsDrained
  BY DEF DrainInv
<1> QED
  BY <1>1, <1>2, <1>3, PTL DEF Spec

-----------------------------------------------------------------------------
\* Every step uses the queue as it is meant to be used, or leaves it alone.
LEMMA UsesQueue ==
  ASSUME TypeInv, [Next]_vars
  PROVE  [Q!Next]_jobs
<1> USE DEF rows, sends
<1>1. ASSUME NEW w \in Worker, CompleteJob(w) \/ FailJob(w) PROVE Q!Next
  <2>1. run[w].job \in Job
    BY <1>1 DEF TypeInv, Busy, At, CompleteJob, FailJob, Throws
  <2> QED
    BY <1>1, <2>1 DEF CompleteJob, FailJob, Q!Next
<1>2. ASSUME NEW w \in Worker, NEW j \in Job, StartJob(w, j) \/ Requeue(w, j) PROVE Q!Next
  BY <1>2 DEF StartJob, Requeue, Q!Next
<1>3. ASSUME NEW j \in Job, ExpireLock(j) \/ \E s \in Start : EnqueueStart(s, j) PROVE Q!Next
  BY <1>3 DEF ExpireLock, EnqueueStart, Q!Next
<1> QED
  BY <1>1, <1>2, <1>3
     DEF Next, WorkerStep, AddRecipient, StartCampaign, LoseStart, DeleteChannel, LoadBatch,
         SendToNext, MarkSent, MarkFailed, MarkCaught, Record, MarkThrows, CountRemaining,
         CompleteCampaign, CrashWorker, vars

LEMMA LocksStep ==
  ASSUME TypeInv, Q!LockedWhileActive, [Next]_vars
  PROVE  Q!LockedWhileActive'
<1>1. [Q!Next]_jobs /\ Q!TypeOK
  BY UsesQueue DEF TypeInv, TypeOK
<1> QED
  BY <1>1, QP!QueueStep, CampaignAssumption
     DEF Q!LockedWhileActive, Q!TypeOK, Q!JobRecord, Q!JobState, Q!Next, Q!Add, Q!Take,
         Q!Finish, Q!Stall, QP!QueueInv, QP!LockedWhileActive, QP!TypeOK, QP!JobRecord,
         QP!JobState, QP!Next, QP!Add, QP!Take, QP!Finish, QP!Stall

\* Who was unfinished stays so unless it is touched or its handler gets to its end.
LEMMA StaysUnfinished ==
  ASSUME TypeInv, Q!LockedWhileActive, NEW j \in Job, Unfinished(j), jobs'[j] = jobs[j],
         \A w \in Worker : run'[w].pc = "return" /\ run'[w].job = j =>
           run[w].pc = "return" /\ run[w].job = j
  PROVE  Unfinished(j)'
<1>1. jobs[j].st = "active" => jobs[j].holder \in Worker
  BY DEF Q!LockedWhileActive, TypeInv, TypeOK, Q!TypeOK, Q!JobRecord
<1> QED
  BY <1>1 DEF Unfinished, At

LEMMA GoesOnKept ==
  ASSUME TypeInv, StuckInv, UNCHANGED jobs, status' = "SENDING" => status = "SENDING",
         \A s \in Start : starts[s] \in {"enqueue", "lost"} => starts'[s] \in {"enqueue", "lost"},
         \A w \in Worker : run'[w].pc = "return" =>
           run[w].pc = "return" /\ run'[w].job = run[w].job
  PROVE  GoesOn'
<1>1. ASSUME NEW j \in Job, jobs[j].st = "failed" \/ Unfinished(j)
      PROVE  jobs'[j].st = "failed" \/ Unfinished(j)'
  BY <1>1, StaysUnfinished DEF StuckInv
<1> QED
  BY <1>1 DEF StuckInv, GoesOn

\* The queue and the workers after a handler ended.
LEMMA EndedHandler ==
  ASSUME TypeInv, StuckInv, NEW w \in Worker, NEW o \in {"done", "failed"},
         ~At(w, "idle"), Q!Finish(w, run[w].job, o), run' = [run EXCEPT ![w] = Idle],
         UNCHANGED <<status, starts>>, o = "done" => At(w, "return")
  PROVE  GoesOn'
<1> DEFINE j == run[w].job
<1>t. jobs \in [Job -> Q!JobRecord] /\ run \in [Worker -> Run] /\ j \in Job
      /\ NoWorker \notin Worker
  BY CampaignAssumption DEF TypeInv, TypeOK, Q!TypeOK, Busy
<1>1. \A v \in Worker : run'[v].pc = "return" => run'[v] = run[v] /\ v # w
  BY <1>t DEF Idle
<1>2. CASE jobs[j].holder # w
  <2>1. UNCHANGED jobs
    BY <1>2 DEF Q!Finish
  <2> QED
    BY <1>1, <2>1, GoesOnKept
<1>3. CASE jobs[j].holder = w
  <2>1. jobs[j].st = "active"
    BY <1>3, <1>t DEF StuckInv, Q!LockedWhileActive
  <2>2. jobs'[j].st = o /\ \A i \in Job : i # j => jobs'[i] = jobs[i]
    <3> DEFINE new == [jobs[j] EXCEPT !.st = o, !.holder = NoWorker]
    <3>1. jobs' = [jobs EXCEPT ![j] = new] /\ new.st = o
      BY <1>3, <1>t DEF Q!Finish, Q!JobRecord
    <3> HIDE DEF new
    <3> QED
      BY <3>1, <1>t
  <2>3. CASE o = "failed"
    BY <2>2, <2>3, <1>t DEF GoesOn
  <2>4. CASE o = "done"
    <3>1. ~Unfinished(j) /\ jobs[j].st # "failed"
      BY <2>1, <2>4, <1>3 DEF Unfinished
    <3>2. ASSUME NEW i \in Job, jobs[i].st = "failed" \/ Unfinished(i)
          PROVE  jobs'[i].st = "failed" \/ Unfinished(i)'
      <4>1. i # j
        BY <3>1, <3>2
      <4>2. jobs'[i] = jobs[i]
        BY <4>1, <2>2
      <4> QED
        BY <4>2, <3>2, <1>1, StaysUnfinished DEF StuckInv
    <3> QED
      BY <3>2 DEF StuckInv, GoesOn
  <2> QED
    BY <2>3, <2>4
<1> QED
  BY <1>2, <1>3

LEMMA GoesOnStep == TypeInv /\ StuckInv /\ [Next]_vars => GoesOn'
<1> SUFFICES ASSUME TypeInv, StuckInv, [Next]_vars
             PROVE  GoesOn'
  OBVIOUS
<1> USE DEF rows, sends
<1>t. /\ jobs \in [Job -> Q!JobRecord] /\ run \in [Worker -> Run]
      /\ starts \in [Start -> {"new", "enqueue", "ended", "lost"}]
  BY DEF TypeInv, TypeOK, Q!TypeOK
<1>1. ASSUME NEW r \in Recipient, AddRecipient(r) PROVE GoesOn'
  BY <1>1, GoesOnKept DEF AddRecipient
<1>2. CASE DeleteChannel
  BY <1>2 DEF DeleteChannel, GoesOn
<1>3. ASSUME NEW s \in Start, StartCampaign(s) \/ LoseStart(s) PROVE GoesOn'
  BY <1>3, <1>t DEF StartCampaign, LoseStart, GoesOn
\* A job that was added is waiting.
<1>4. ASSUME NEW j \in Job, Q!Add(j) PROVE GoesOn'
  <2>1. jobs'[j].st = "wait"
    BY <1>4, <1>t DEF Q!Add, Q!JobRecord
  <2> QED
    BY <2>1 DEF GoesOn, Unfinished
<1>5. ASSUME NEW j \in Job,
             (\E s \in Start : EnqueueStart(s, j)) \/ \E w \in Worker : Requeue(w, j)
      PROVE  GoesOn'
  BY <1>4, <1>5 DEF EnqueueStart, Requeue
<1>6. ASSUME NEW w \in Worker, NEW j \in Job, StartJob(w, j) PROVE GoesOn'
  <2>1. jobs'[j].st = "active" /\ jobs'[j].holder = w
    <3> DEFINE new == [jobs[j] EXCEPT !.st = "active", !.holder = w]
    <3>1. jobs' = [jobs EXCEPT ![j] = new] /\ new.st = "active" /\ new.holder = w
      BY <1>6, <1>t DEF StartJob, Q!Take, Q!JobRecord
    <3> HIDE DEF new
    <3> QED
      BY <3>1, <1>t
  <2>2. run'[w].pc = "load"
    BY <1>6, <1>t DEF StartJob, Idle
  <2> QED
    BY <2>1, <2>2 DEF GoesOn, Unfinished, At
\* A worker in the middle of its handler.
<1>7. ASSUME NEW w \in Worker, NEW new, run' = [run EXCEPT ![w] = new], new.pc # "return",
             UNCHANGED <<status, starts, jobs>>
      PROVE  GoesOn'
  <2>1. \A v \in Worker : run'[v].pc = "return" => run'[v] = run[v]
    BY <1>7, <1>t
  <2> QED
    BY <1>7, <2>1, GoesOnKept
<1>8. ASSUME NEW w \in Worker, LoadBatch(w) PROVE GoesOn'
  <2>1. PICK batch \in SUBSET Pending :
          run' = [run EXCEPT ![w] = [@ EXCEPT !.batch = batch,
                                              !.pc = IF batch = {} THEN "count" ELSE "send"]]
    BY <1>8 DEF LoadBatch
  <2> DEFINE new == [run[w] EXCEPT !.batch = batch,
                                   !.pc = IF batch = {} THEN "count" ELSE "send"]
  <2>2. run' = [run EXCEPT ![w] = new] /\ new.pc # "return"
    BY <2>1, <1>t DEF Run
  <2> HIDE DEF new
  <2> QED
    BY <2>2, <1>7, <1>8 DEF LoadBatch
<1>9. ASSUME NEW w \in Worker, SendToNext(w) PROVE GoesOn'
  <2>1. PICK r \in run[w].batch, outcome \in {"markSent", "markFailed", "catch"}, got \in BOOLEAN :
          Sends(w, r, outcome, got)
    BY <1>9, SendEffect
  <2> DEFINE new == [run[w] EXCEPT !.pc = outcome, !.current = r]
  <2>2. run' = [run EXCEPT ![w] = new] /\ new.pc # "return"
    BY <2>1, <1>t DEF Run, Sends
  <2> HIDE DEF new
  <2> QED
    BY <2>2, <1>7, <1>9 DEF SendToNext
<1>10. ASSUME NEW w \in Worker, MarkSent(w) \/ MarkFailed(w) \/ MarkCaught(w) PROVE GoesOn'
  <2>1. PICK outcome \in {"SENT", "FAILED"} : Record(w, outcome)
    BY <1>10 DEF MarkSent, MarkFailed, MarkCaught
  <2> DEFINE rest == run[w].batch \ {run[w].current}
             new == [run[w] EXCEPT !.batch = rest, !.current = Nobody,
                                   !.pc = IF rest = {} THEN "count" ELSE "send"]
  <2>2. run' = [run EXCEPT ![w] = new] /\ new.pc # "return"
    BY <2>1, <1>t DEF Record, Run
  <2> HIDE DEF new
  <2> QED
    BY <2>1, <2>2, <1>7 DEF Record
<1>11. ASSUME NEW w \in Worker, NEW pc, pc # "return", Goto(w, pc),
              UNCHANGED <<status, starts, jobs>>
       PROVE  GoesOn'
  <2> DEFINE new == [run[w] EXCEPT !.pc = pc]
  <2>1. run' = [run EXCEPT ![w] = new] /\ new.pc # "return"
    BY <1>11, <1>t DEF Goto, Run
  <2> HIDE DEF new
  <2> QED
    BY <2>1, <1>7, <1>11
<1>12. ASSUME NEW w \in Worker, MarkThrows(w) \/ CountRemaining(w) PROVE GoesOn'
  BY <1>11, <1>12 DEF MarkThrows, CountRemaining
<1>13. ASSUME NEW w \in Worker, CompleteCampaign(w) PROVE GoesOn'
  BY <1>13 DEF CompleteCampaign, GoesOn
<1>14. ASSUME NEW w \in Worker, CompleteJob(w) \/ FailJob(w) PROVE GoesOn'
  BY <1>14, EndedHandler DEF CompleteJob, FailJob, Throws, At
<1>15. ASSUME NEW w \in Worker, CrashWorker(w) PROVE GoesOn'
  <2>1. Idle.pc # "return"
    BY DEF Idle
  <2> QED
    BY <2>1, <1>7, <1>15 DEF CrashWorker
<1>16. ASSUME NEW j \in Job, ExpireLock(j) PROVE GoesOn'
  <2>1. jobs'[j].st \in {"wait", "failed"}
    BY <1>16, <1>t DEF ExpireLock, Q!Stall, Q!JobRecord
  <2> QED
    BY <2>1 DEF GoesOn, Unfinished
<1>17. CASE UNCHANGED vars
  BY <1>17, GoesOnKept DEF vars
<1> QED
  BY <1>1, <1>2, <1>3, <1>5, <1>6, <1>8, <1>9, <1>10, <1>12, <1>13, <1>14, <1>15, <1>16, <1>17
     DEF Next, WorkerStep

\* A campaign that is SENDING has a start or a job to carry it on, or one that
\* was lost or failed, whatever crashes, overlaps or is started again.
THEOREM NeverForgotten == Spec => []NotStuck
<1>1. Init => TypeInv /\ StuckInv
  BY TypeInit, CampaignAssumption DEF Init, StuckInv, GoesOn, Q!LockedWhileActive, Q!Init
<1>2. (TypeInv /\ StuckInv) /\ [Next]_vars => (TypeInv /\ StuckInv)'
  BY TypeStep, LocksStep, GoesOnStep DEF StuckInv
<1>3. StuckInv => NotStuck
  BY DEF StuckInv, GoesOn, NotStuck, Unfinished
<1> QED
  BY <1>1, <1>2, <1>3, PTL DEF Spec

-----------------------------------------------------------------------------
(* Nobody is written to more often than the campaign was set going.  The   *)
(* argument counts: a waiting job or a working worker can send to a        *)
(* recipient at most once more, each step hands that right on, uses it up  *)
(* or drops it, and only a start and a redelivery create a new one.        *)

\* Cardinalities of sets that a step changes by at most one element.
LEMMA Fewer ==
  ASSUME NEW S, IsFiniteSet(S), NEW T, T \subseteq S
  PROVE  IsFiniteSet(T) /\ Cardinality(T) \in Nat /\ Cardinality(S) \in Nat
         /\ Cardinality(T) <= Cardinality(S)
  BY FS_Subset, FS_CardinalityType

LEMMA OneMore ==
  ASSUME NEW S, IsFiniteSet(S), NEW x, NEW T, T \subseteq S \cup {x}
  PROVE  Cardinality(T) <= Cardinality(S) + 1
<1>1. IsFiniteSet(S \cup {x}) /\ Cardinality(S \cup {x}) <= Cardinality(S) + 1
      /\ Cardinality(S) \in Nat
  BY FS_AddElement, FS_CardinalityType
<1>2. Cardinality(T) <= Cardinality(S \cup {x}) /\ Cardinality(T) \in Nat
      /\ Cardinality(S \cup {x}) \in Nat
  BY <1>1, Fewer
<1> QED
  BY <1>1, <1>2

LEMMA OneFewer ==
  ASSUME NEW S, IsFiniteSet(S), NEW x \in S, NEW T, T \subseteq S \ {x}
  PROVE  Cardinality(T) + 1 <= Cardinality(S)
<1>1. IsFiniteSet(S \ {x}) /\ Cardinality(S \ {x}) = Cardinality(S) - 1
      /\ Cardinality(S) \in Nat
  BY FS_RemoveElement, FS_CardinalityType
<1>2. Cardinality(T) <= Cardinality(S \ {x}) /\ Cardinality(T) \in Nat
  BY <1>1, Fewer
<1> QED
  BY <1>1, <1>2

\* All that is counted is finite.
LEMMA AllFinite ==
  /\ IsFiniteSet(Waiting) /\ IsFiniteSet(Working)
  /\ \A r : IsFiniteSet(JobsFor(r)) /\ IsFiniteSet(WorkersFor(r))
<1>1. Waiting \subseteq Job /\ Working \subseteq Worker
  BY DEF Waiting, Working
<1>2. \A r : JobsFor(r) \subseteq Job /\ WorkersFor(r) \subseteq Worker
  BY DEF JobsFor, WorkersFor, Waiting, Working
<1> QED
  BY <1>1, <1>2, Fewer, FiniteAssumption

-----------------------------------------------------------------------------
(* Rounds.                                                                 *)

Ended == {s \in Start : starts[s] = "ended"}

GivenOutAgain == {d \in Job \X (1..MaxStalled) : d[2] <= jobs[d[1]].stalls}

LEMMA PairsFinite == IsFiniteSet(Job \X (1..MaxStalled))
<1>1. IsFiniteSet(1..MaxStalled)
  BY FS_Interval, CampaignAssumption
<1> QED
  BY <1>1, FS_Product, FiniteAssumption

LEMMA RoundsFinite ==
  /\ IsFiniteSet(Ended) /\ IsFiniteSet(GivenOutAgain)
  /\ Rounds = Cardinality(Ended) + Cardinality(GivenOutAgain)
  /\ Rounds \in Nat
<1>1. IsFiniteSet(Job \X (1..MaxStalled))
  BY PairsFinite
<1>2. GivenOutAgain \subseteq Job \X (1..MaxStalled) /\ Ended \subseteq Start
  BY DEF GivenOutAgain, Ended
<1>3. IsFiniteSet(Ended) /\ IsFiniteSet(GivenOutAgain)
      /\ Cardinality(Ended) \in Nat /\ Cardinality(GivenOutAgain) \in Nat
  BY <1>1, <1>2, Fewer, FiniteAssumption
<1>4. Rounds = Cardinality(Ended) + Cardinality(GivenOutAgain)
  BY DEF Rounds, Ended, GivenOutAgain
<1> QED
  BY <1>3, <1>4

LEMMA RoundsNat == Rounds \in Nat
  BY RoundsFinite

LEMMA NextRoundsNat == Rounds' \in Nat
<1>1. IsFiniteSet(Job \X (1..MaxStalled))
  BY PairsFinite
<1>2. GivenOutAgain' \subseteq Job \X (1..MaxStalled) /\ Ended' \subseteq Start
  BY DEF GivenOutAgain, Ended
<1>3. Cardinality(GivenOutAgain') \in Nat /\ Cardinality(Ended') \in Nat
  BY <1>1, <1>2, Fewer, FiniteAssumption
<1> QED
  BY <1>3 DEF Rounds, Ended, GivenOutAgain

\* No use of the queue but an expired lock changes how often a job was given out.
LEMMA StallsKept ==
  ASSUME Q!TypeOK, NEW j \in Job,
         \/ Q!Add(j)
         \/ \E w \in Worker : Q!Take(w, j) \/ \E o \in {"done", "failed"} : Q!Finish(w, j, o)
  PROVE  \A i \in Job : jobs'[i].stalls = jobs[i].stalls
<1>t. jobs \in [Job -> Q!JobRecord]
  BY DEF Q!TypeOK
<1>1. CASE Q!Add(j)
  BY <1>t, <1>1 DEF Q!JobRecord, Q!Add
<1>2. ASSUME NEW w \in Worker, Q!Take(w, j)
      PROVE  \A i \in Job : jobs'[i].stalls = jobs[i].stalls
  <2> DEFINE new == [jobs[j] EXCEPT !.st = "active", !.holder = w]
  <2>1. jobs' = [jobs EXCEPT ![j] = new] /\ new.stalls = jobs[j].stalls
    BY <1>t, <1>2 DEF Q!JobRecord, Q!Take
  <2> HIDE DEF new
  <2> QED
    BY <1>t, <2>1
<1>3. ASSUME NEW w \in Worker, NEW o \in {"done", "failed"}, Q!Finish(w, j, o)
      PROVE  \A i \in Job : jobs'[i].stalls = jobs[i].stalls
  <2> DEFINE new == [jobs[j] EXCEPT !.st = o, !.holder = NoWorker]
  <2>1. new.stalls = jobs[j].stalls
    BY <1>t DEF Q!JobRecord
  <2>2. jobs' = jobs \/ jobs' = [jobs EXCEPT ![j] = new]
    BY <1>3 DEF Q!Finish
  <2> HIDE DEF new
  <2> QED
    BY <1>t, <2>1, <2>2
<1> QED
  BY <1>1, <1>2, <1>3

LEMMA SameStalls ==
  ASSUME UNCHANGED starts, \A i \in Job : jobs'[i].stalls = jobs[i].stalls
  PROVE  Rounds' = Rounds
<1>1. Ended' = Ended /\ GivenOutAgain' = GivenOutAgain
  BY DEF Ended, GivenOutAgain
<1> QED
  BY <1>1 DEF Rounds, Ended, GivenOutAgain

\* A start that adds its job is a round more.
LEMMA StartIsRound ==
  ASSUME starts \in [Start -> {"new", "enqueue", "ended", "lost"}], Q!TypeOK,
         NEW s \in Start, NEW j \in Job, EnqueueStart(s, j)
  PROVE  Rounds' = Rounds + 1
<1>1. s \notin Ended /\ Ended' = Ended \cup {s}
  BY DEF EnqueueStart, Ended
<1>2. \A i \in Job : jobs'[i].stalls = jobs[i].stalls
  BY StallsKept DEF EnqueueStart
<1>3. GivenOutAgain' = GivenOutAgain
  BY <1>2 DEF GivenOutAgain
<1>4. Cardinality(Ended') = Cardinality(Ended) + 1
  BY <1>1, RoundsFinite, FS_AddElement
<1>5. Rounds' = Cardinality(Ended') + Cardinality(GivenOutAgain')
  BY DEF Rounds, Ended, GivenOutAgain
<1>6. Cardinality(Ended) \in Nat /\ Cardinality(GivenOutAgain) \in Nat
  BY RoundsFinite, FS_CardinalityType
<1> QED
  BY <1>3, <1>4, <1>5, <1>6, RoundsFinite

\* A job that is given out again is a round more; one that is given up is none.
LEMMA StallIsRound ==
  ASSUME Q!TypeOK, NEW j \in Job, ExpireLock(j)
  PROVE  /\ Waiting' \subseteq Waiting \cup {j}
         /\ \/ Rounds' = Rounds + 1
            \/ Rounds' = Rounds /\ Waiting' \subseteq Waiting
<1>1. /\ jobs[j].st = "active" /\ jobs[j] \in Q!JobRecord
      /\ \A i \in Job \ {j} : jobs'[i] = jobs[i]
      /\ UNCHANGED starts
  BY DEF ExpireLock, Q!Stall, Q!TypeOK
<1>2. Ended' = Ended
  BY <1>1 DEF Ended
<1>3. Waiting' \subseteq Waiting \cup {j}
  BY <1>1 DEF Waiting
<1>4. Rounds' = Cardinality(Ended') + Cardinality(GivenOutAgain')
  BY DEF Rounds, Ended, GivenOutAgain
<1>5. Cardinality(Ended) \in Nat /\ Cardinality(GivenOutAgain) \in Nat
  BY RoundsFinite, FS_CardinalityType
<1>6. CASE jobs[j].stalls < MaxStalled
  <2> DEFINE n == jobs[j].stalls + 1
  <2>1. jobs'[j].stalls = n /\ n \in 1..MaxStalled /\ jobs[j].stalls \in Nat
    BY <1>1, <1>6, CampaignAssumption DEF ExpireLock, Q!Stall, Q!TypeOK, Q!JobRecord
  <2>2. <<j, n>> \notin GivenOutAgain
    BY <2>1 DEF GivenOutAgain
  <2>3. GivenOutAgain' = GivenOutAgain \cup {<<j, n>>}
    <3>1. ASSUME NEW d \in Job \X (1..MaxStalled)
          PROVE  d \in GivenOutAgain' <=> d \in GivenOutAgain \/ d = <<j, n>>
      <4>1. CASE d[1] # j
        BY <1>1, <4>1 DEF GivenOutAgain
      <4>2. CASE d[1] = j
        <5>1. d = <<j, d[2]>> /\ d[2] \in 1..MaxStalled
          BY <4>2
        <5>2. d[2] <= n <=> d[2] <= jobs[j].stalls \/ d[2] = n
          BY <2>1, <5>1, CampaignAssumption
        <5> QED
          BY <2>1, <4>2, <5>1, <5>2 DEF GivenOutAgain
      <4> QED
        BY <4>1, <4>2
    <3>2. GivenOutAgain \subseteq Job \X (1..MaxStalled)
          /\ GivenOutAgain' \subseteq Job \X (1..MaxStalled)
          /\ <<j, n>> \in Job \X (1..MaxStalled)
      BY <2>1 DEF GivenOutAgain
    <3> QED
      BY <3>1, <3>2
  <2> HIDE DEF n
  <2>4. Cardinality(GivenOutAgain') = Cardinality(GivenOutAgain) + 1
    BY <2>2, <2>3, RoundsFinite, FS_AddElement
  <2> QED
    BY <1>2, <1>3, <1>4, <1>5, <2>4, RoundsFinite
<1>7. CASE ~(jobs[j].stalls < MaxStalled)
  <2>1. jobs'[j].stalls = jobs[j].stalls /\ jobs'[j].st = "failed"
    BY <1>7 DEF ExpireLock, Q!Stall, Q!TypeOK
  <2>2. Rounds' = Rounds
    BY <1>1, <2>1, SameStalls
  <2>3. Waiting' \subseteq Waiting
    BY <1>1, <2>1 DEF Waiting
  <2> QED
    BY <1>3, <2>2, <2>3, RoundsFinite
<1> QED
  BY <1>6, <1>7

-----------------------------------------------------------------------------
(* RowsInv: what holds of the rows and the batches.                        *)

\* RowsInv after a step that leaves attempts alone, makes no row go but with
\* the channel, puts only rows in batches and only recorders hold somebody.
LEMMA RowsKept ==
  ASSUME RowsInv, UNCHANGED attempts, status = "GONE" => status' = "GONE",
         status' # "GONE" =>
           \A r \in Recipient : recipients'[r] = "NONE" => recipients[r] = "NONE",
         \A w \in Worker : \A r \in Recipient :
           r \in run'[w].batch => r \in run[w].batch \/ recipients[r] # "NONE",
         \A w \in Worker : \/ run'[w].current = run[w].current
                                /\ (run[w].pc \in {"markSent", "markFailed", "catch"} =>
                                     run'[w].pc \in {"markSent", "markFailed", "catch"})
                          \/ run'[w].current = Nobody
  PROVE  RowsInv'
<1>1. \A w \in Worker :
        run'[w].pc \notin {"markSent", "markFailed", "catch"} => run'[w].current = Nobody
  BY DEF RowsInv
<1>2. ASSUME status' # "GONE", NEW r \in Recipient, recipients'[r] = "NONE"
      PROVE  attempts'[r] = 0 /\ \A w \in Worker : r \notin run'[w].batch
  <2>1. recipients[r] = "NONE" /\ status # "GONE"
    BY <1>2
  <2> QED
    BY <2>1 DEF RowsInv
<1> QED
  BY <1>1, <1>2 DEF RowsInv

LEMMA RowsStep == TypeInv /\ RowsInv /\ [Next]_vars => RowsInv'
<1> SUFFICES ASSUME TypeInv, RowsInv, [Next]_vars
             PROVE  RowsInv'
  OBVIOUS
<1> USE DEF rows, sends
<1>t. /\ RunOK /\ run \in [Worker -> Run]
      /\ recipients \in [Recipient -> {"NONE", "PENDING", "SENT", "FAILED"}]
      /\ attempts \in [Recipient -> Nat]
  BY DEF TypeInv, TypeOK, RunOK
<1>1. ASSUME NEW r \in Recipient, AddRecipient(r) PROVE RowsInv'
  BY <1>1, <1>t, RowsKept DEF AddRecipient
<1>2. ASSUME NEW s \in Start,
             StartCampaign(s) \/ LoseStart(s) \/ \E j \in Job : EnqueueStart(s, j)
      PROVE  RowsInv'
  BY <1>2, RowsKept DEF StartCampaign, LoseStart, EnqueueStart
<1>3. CASE DeleteChannel
  BY <1>3, RowsKept DEF DeleteChannel
<1>4. ASSUME NEW j \in Job, ExpireLock(j) PROVE RowsInv'
  BY <1>4, RowsKept DEF ExpireLock
\* A worker that starts a job or ends one.
<1>5. ASSUME NEW w \in Worker, NEW new, new.batch = {}, new.current = Nobody,
             run' = [run EXCEPT ![w] = new], UNCHANGED <<rows, sends>>
      PROVE  RowsInv'
  <2>1. \A v \in Worker : run'[v] = IF v = w THEN new ELSE run[v]
    BY <1>5, <1>t
  <2> QED
    BY <1>5, <2>1, RowsKept
<1>6. Idle.batch = {} /\ Idle.current = Nobody
  BY DEF Idle
<1>7. ASSUME NEW w \in Worker, NEW j \in Job, StartJob(w, j) PROVE RowsInv'
  <2> DEFINE new == [Idle EXCEPT !.pc = "load", !.job = j]
  <2>1. new.batch = {} /\ new.current = Nobody
    BY DEF Idle
  <2>2. run' = [run EXCEPT ![w] = new]
    BY <1>7 DEF StartJob
  <2> HIDE DEF new
  <2> QED
    BY <1>5, <1>7, <2>1, <2>2 DEF StartJob
<1>8. ASSUME NEW w \in Worker, CompleteJob(w) \/ FailJob(w) \/ CrashWorker(w) PROVE RowsInv'
  BY <1>5, <1>6, <1>8 DEF CompleteJob, FailJob, CrashWorker
<1>9. ASSUME NEW w \in Worker, LoadBatch(w) PROVE RowsInv'
  <2>1. PICK batch \in SUBSET Pending :
          run' = [run EXCEPT ![w] = [@ EXCEPT !.batch = batch,
                                              !.pc = IF batch = {} THEN "count" ELSE "send"]]
    BY <1>9 DEF LoadBatch
  <2>2. /\ run'[w].batch = batch /\ run'[w].current = run[w].current
        /\ \A v \in Worker : v # w => run'[v] = run[v]
    BY <2>1, <1>t DEF Run
  <2>3. run[w].pc = "load" /\ UNCHANGED <<rows, attempts>>
    BY <1>9 DEF LoadBatch, At
  <2> QED
    BY <2>2, <2>3, RowsKept DEF Pending
<1>10. ASSUME NEW w \in Worker, SendToNext(w) PROVE RowsInv'
  <2>1. PICK x \in run[w].batch, outcome \in {"markSent", "markFailed", "catch"}, got \in BOOLEAN :
          Sends(w, x, outcome, got)
    BY <1>10, SendEffect
  <2> USE DEF Sends
  <2>2. UNCHANGED <<status, recipients>>
    BY <1>10 DEF SendToNext
  <2>3. /\ run'[w].pc = outcome /\ run'[w].batch = run[w].batch
        /\ \A v \in Worker : v # w => run'[v] = run[v]
    BY <2>1, <1>t DEF Run
  <2>4. \A r \in Recipient : r # x => attempts'[r] = attempts[r]
    BY <2>1, <1>t
  <2> QED
    BY <2>1, <2>2, <2>3, <2>4 DEF RowsInv
<1>11. ASSUME NEW w \in Worker, MarkSent(w) \/ MarkFailed(w) \/ MarkCaught(w) PROVE RowsInv'
  <2>1. PICK outcome \in {"SENT", "FAILED"} : Record(w, outcome)
    BY <1>11 DEF MarkSent, MarkFailed, MarkCaught
  <2>2. /\ run'[w].batch \subseteq run[w].batch /\ run'[w].current = Nobody
        /\ \A v \in Worker : v # w => run'[v] = run[v]
    BY <2>1, <1>t DEF Record, Run
  <2>3. UNCHANGED <<status, attempts>>
        /\ \A r \in Recipient : recipients'[r] = "NONE" => recipients[r] = "NONE"
    BY <2>1, <1>t DEF Record
  <2> QED
    BY <2>2, <2>3, RowsKept
<1>12. ASSUME NEW w \in Worker, NEW pc \in Pc, Goto(w, pc),
              run[w].pc \in {"markSent", "markFailed", "catch"} => pc = "catch",
              UNCHANGED <<recipients, attempts>>, status = "GONE" => status' = "GONE"
       PROVE  RowsInv'
  <2>1. /\ run'[w].pc = pc /\ run'[w].batch = run[w].batch /\ run'[w].current = run[w].current
        /\ \A v \in Worker : v # w => run'[v] = run[v]
    BY <1>12, <1>t DEF Goto, Run
  <2> QED
    BY <1>12, <2>1, RowsKept
<1>13. ASSUME NEW w \in Worker, MarkThrows(w) PROVE RowsInv'
  BY <1>12, <1>13 DEF MarkThrows, Pc
<1>14. ASSUME NEW w \in Worker, CountRemaining(w) PROVE RowsInv'
  BY <1>12, <1>14 DEF CountRemaining, Pc, At
<1>15. ASSUME NEW w \in Worker, NEW j \in Job, Requeue(w, j) PROVE RowsInv'
  BY <1>12, <1>15 DEF Requeue, Pc, At
<1>16. ASSUME NEW w \in Worker, CompleteCampaign(w) PROVE RowsInv'
  BY <1>12, <1>16 DEF CompleteCampaign, Pc, At
<1>17. CASE UNCHANGED vars
  BY <1>17, RowsKept DEF vars
<1> QED
  BY <1>1, <1>2, <1>3, <1>4, <1>7, <1>8, <1>9, <1>10, <1>11, <1>13, <1>14, <1>15, <1>16, <1>17
     DEF Next, WorkerStep

-----------------------------------------------------------------------------
(* SendsInv: the counting.                                                 *)

\* The numbers that SendsInv adds up.
LEMMA Numbers ==
  /\ Cardinality(Waiting) \in Nat /\ Cardinality(Working) \in Nat /\ Rounds \in Nat
  /\ \A r : Cardinality(JobsFor(r)) \in Nat /\ Cardinality(WorkersFor(r)) \in Nat
  BY AllFinite, RoundsFinite, FS_CardinalityType

\* A step that sends nothing and after which nobody may send what he might not
\* have sent before.
LEMMA Quiet ==
  ASSUME TypeInv, SendsInv, UNCHANGED attempts, Rounds' >= Rounds, Waiting' \subseteq Waiting,
         \A r \in Recipient : recipients'[r] = "PENDING" => recipients[r] = "PENDING",
         Working' \subseteq Working,
         \A w \in Working', r \in Recipient :
           run'[w].current # r /\ (r \in run'[w].batch \/ recipients'[r] = "PENDING") =>
             run[w].current # r /\ (r \in run[w].batch \/ recipients[r] = "PENDING")
  PROVE  SendsInv'
<1>t. attempts \in [Recipient -> Nat]
  BY DEF TypeInv, TypeOK
<1>1. Cardinality(Waiting') <= Cardinality(Waiting) /\ Cardinality(Working') <= Cardinality(Working)
      /\ Cardinality(Waiting') \in Nat /\ Cardinality(Working') \in Nat
  BY AllFinite, Fewer
<1>2. ASSUME NEW r \in Recipient
      PROVE  /\ Cardinality(JobsFor(r)') <= Cardinality(JobsFor(r))
             /\ Cardinality(WorkersFor(r)') <= Cardinality(WorkersFor(r))
             /\ Cardinality(JobsFor(r)') \in Nat /\ Cardinality(WorkersFor(r)') \in Nat
  <2>1. JobsFor(r)' \subseteq JobsFor(r) /\ WorkersFor(r)' \subseteq WorkersFor(r)
    BY DEF JobsFor, WorkersFor
  <2> QED
    BY <2>1, AllFinite, Fewer
<1>3. Rounds' \in Nat
  BY RoundsNat, NextRoundsNat
<1> QED
  BY <1>t, <1>1, <1>2, <1>3, Numbers DEF SendsInv

LEMMA QuietWorker ==
  ASSUME TypeInv, RowsInv, SendsInv, NEW w \in Worker, NEW new,
         run' = [run EXCEPT ![w] = new], UNCHANGED attempts, Rounds' >= Rounds,
         Waiting' \subseteq Waiting,
         \A r \in Recipient : recipients'[r] = "PENDING" => recipients[r] = "PENDING",
         new.pc \notin {"idle", "return"} =>
           /\ run[w].pc \notin {"idle", "return"}
           /\ \A r \in Recipient :
                new.current # r /\ (r \in new.batch \/ recipients'[r] = "PENDING") =>
                  run[w].current # r /\ (r \in run[w].batch \/ recipients[r] = "PENDING")
  PROVE  SendsInv'
<1>1. \A v \in Worker : run'[v] = IF v = w THEN new ELSE run[v]
  BY DEF TypeInv, TypeOK
<1>2. Working' \subseteq Working
  BY <1>1 DEF Working
<1>3. ASSUME NEW v \in Working', NEW r \in Recipient,
             run'[v].current # r, r \in run'[v].batch \/ recipients'[r] = "PENDING"
      PROVE  run[v].current # r /\ (r \in run[v].batch \/ recipients[r] = "PENDING")
  BY <1>1, <1>3 DEF Working
<1>4. \A v \in Working', r \in Recipient :
        run'[v].current # r /\ (r \in run'[v].batch \/ recipients'[r] = "PENDING") =>
          run[v].current # r /\ (r \in run[v].batch \/ recipients[r] = "PENDING")
  BY <1>3
<1> QED
  BY <1>2, <1>4, Quiet

\* A job that joins the queue with a new round to its name.
LEMMA NewRound ==
  ASSUME TypeInv, SendsInv, NEW j \in Job, UNCHANGED <<attempts, recipients, run>>,
         Waiting' \subseteq Waiting \cup {j}, Rounds' >= Rounds + 1
  PROVE  SendsInv'
<1>t. attempts \in [Recipient -> Nat]
  BY DEF TypeInv, TypeOK
<1>n. Rounds \in Nat /\ Rounds' \in Nat
  BY RoundsNat, NextRoundsNat
<1>1. Working' = Working
  BY DEF Working
<1>2. IsFiniteSet(Waiting')
  BY AllFinite, FS_AddElement, FS_Subset
<1>3. Cardinality(Waiting') <= Cardinality(Waiting) + 1 /\ Cardinality(Waiting') \in Nat
  BY <1>2, AllFinite, OneMore, FS_CardinalityType
<1>4. ASSUME NEW r \in Recipient
      PROVE  attempts'[r] + Cardinality(JobsFor(r)') + Cardinality(WorkersFor(r)') <= Rounds'
  <2>1. JobsFor(r)' \subseteq JobsFor(r) \cup {j} /\ WorkersFor(r)' = WorkersFor(r)
    BY <1>1 DEF JobsFor, WorkersFor
  <2>2. IsFiniteSet(JobsFor(r)')
    BY <2>1, AllFinite, FS_AddElement, FS_Subset
  <2>3. Cardinality(JobsFor(r)') <= Cardinality(JobsFor(r)) + 1 /\ Cardinality(JobsFor(r)') \in Nat
    BY <2>1, <2>2, AllFinite, OneMore, FS_CardinalityType
  <2>4. attempts[r] + Cardinality(JobsFor(r)) + Cardinality(WorkersFor(r)) <= Rounds
    BY DEF SendsInv
  <2> QED
    BY <2>1, <2>3, <2>4, <1>n, <1>t, Numbers
<1>5. Cardinality(Waiting) + Cardinality(Working) <= Rounds
  BY DEF SendsInv
<1>6. Cardinality(Waiting') + Cardinality(Working') <= Rounds'
  BY <1>1, <1>3, <1>5, <1>n, Numbers
<1> QED
  BY <1>4, <1>6 DEF SendsInv

\* A worker that takes over a waiting job takes over what the job may send.
LEMMA TakenOver ==
  ASSUME TypeInv, SendsInv, NEW w \in Worker, NEW j \in Job, StartJob(w, j)
  PROVE  SendsInv'
<1>t. attempts \in [Recipient -> Nat] /\ run \in [Worker -> Run] /\ Q!TypeOK
  BY DEF TypeInv, TypeOK
<1>1. /\ UNCHANGED <<attempts, recipients, starts>>
      /\ run[w].pc = "idle" /\ jobs[j].st = "wait"
      /\ \A i \in Job \ {j} : jobs'[i] = jobs[i]
      /\ jobs'[j].st = "active"
  BY <1>t DEF StartJob, rows, sends, At, Q!Take, Q!TypeOK, Q!JobRecord
<1>2. Rounds' = Rounds
  BY <1>1, <1>t, StallsKept, SameStalls DEF StartJob
<1>3. /\ run'[w].batch = {}
      /\ \A v \in Worker : v # w => run'[v] = run[v]
  BY <1>t DEF StartJob, Idle
<1>4. j \in Waiting /\ w \notin Working
  BY <1>1 DEF Waiting, Working
<1>5. /\ Waiting' \subseteq Waiting \ {j} /\ Working' \subseteq Working \cup {w}
      /\ Working \subseteq Worker
  BY <1>1, <1>3 DEF Waiting, Working
<1>6. /\ Cardinality(Waiting') + 1 <= Cardinality(Waiting)
      /\ Cardinality(Working') <= Cardinality(Working) + 1
      /\ Cardinality(Waiting') \in Nat /\ Cardinality(Working') \in Nat
  <2>1. IsFiniteSet(Waiting') /\ IsFiniteSet(Working')
    BY <1>5, AllFinite, FS_AddElement, FS_Subset
  <2> QED
    BY <2>1, <1>4, <1>5, AllFinite, OneMore, OneFewer, FS_CardinalityType
<1>7. ASSUME NEW r \in Recipient
      PROVE  attempts'[r] + Cardinality(JobsFor(r)') + Cardinality(WorkersFor(r)') <= Rounds'
  <2>1. attempts[r] + Cardinality(JobsFor(r)) + Cardinality(WorkersFor(r)) <= Rounds
    BY DEF SendsInv
  <2>2. CASE recipients[r] = "PENDING"
    <3>1. /\ j \in JobsFor(r) /\ JobsFor(r)' \subseteq JobsFor(r) \ {j}
          /\ WorkersFor(r)' \subseteq WorkersFor(r) \cup {w}
      BY <2>2, <1>1, <1>3, <1>4, <1>5 DEF JobsFor, WorkersFor
    <3>2. IsFiniteSet(JobsFor(r)') /\ IsFiniteSet(WorkersFor(r)')
      BY <3>1, AllFinite, FS_AddElement, FS_Subset
    <3>3. /\ Cardinality(JobsFor(r)') + 1 <= Cardinality(JobsFor(r))
          /\ Cardinality(WorkersFor(r)') <= Cardinality(WorkersFor(r)) + 1
          /\ Cardinality(JobsFor(r)') \in Nat /\ Cardinality(WorkersFor(r)') \in Nat
      BY <3>1, <3>2, AllFinite, OneMore, OneFewer, FS_CardinalityType
    <3> QED
      BY <2>1, <3>3, <1>1, <1>2, <1>t, Numbers
  <2>3. CASE recipients[r] # "PENDING"
    <3>1. JobsFor(r)' \subseteq JobsFor(r) /\ WorkersFor(r)' \subseteq WorkersFor(r)
      BY <2>3, <1>1, <1>3, <1>5 DEF JobsFor, WorkersFor
    <3>2. /\ Cardinality(JobsFor(r)') <= Cardinality(JobsFor(r))
          /\ Cardinality(WorkersFor(r)') <= Cardinality(WorkersFor(r))
          /\ Cardinality(JobsFor(r)') \in Nat /\ Cardinality(WorkersFor(r)') \in Nat
      BY <3>1, AllFinite, Fewer
    <3> QED
      BY <2>1, <3>2, <1>1, <1>2, <1>t, Numbers
  <2> QED
    BY <2>2, <2>3
<1>8. Cardinality(Waiting) + Cardinality(Working) <= Rounds
  BY DEF SendsInv
<1>9. Cardinality(Waiting') + Cardinality(Working') <= Rounds'
  BY <1>2, <1>6, <1>8, Numbers
<1> QED
  BY <1>7, <1>9 DEF SendsInv

\* A worker that adds the job for the next batch hands over to it.
LEMMA HandedOver ==
  ASSUME TypeInv, RowsInv, SendsInv, NEW w \in Worker, NEW j \in Job, Requeue(w, j)
  PROVE  SendsInv'
<1>t. attempts \in [Recipient -> Nat] /\ run \in [Worker -> Run] /\ Q!TypeOK
      /\ Nobody \notin Recipient
  BY CampaignAssumption DEF TypeInv, TypeOK
<1>1. /\ UNCHANGED <<attempts, recipients, starts>>
      /\ run[w].pc = "requeue" /\ run[w].current = Nobody
      /\ \A i \in Job \ {j} : jobs'[i] = jobs[i]
  BY <1>t DEF Requeue, rows, sends, At, Q!Add, Q!TypeOK, RowsInv
<1>2. Rounds' = Rounds
  BY <1>1, <1>t, StallsKept, SameStalls DEF Requeue
<1>3. /\ run'[w].pc = "return"
      /\ \A v \in Worker : v # w => run'[v] = run[v]
  BY <1>t DEF Requeue, Goto, Run
<1>4. w \in Working
  BY <1>1 DEF Working
<1>5. /\ Waiting' \subseteq Waiting \cup {j} /\ Working' \subseteq Working \ {w}
      /\ Working \subseteq Worker
  BY <1>1, <1>3 DEF Waiting, Working
<1>6. /\ Cardinality(Waiting') <= Cardinality(Waiting) + 1
      /\ Cardinality(Working') + 1 <= Cardinality(Working)
      /\ Cardinality(Waiting') \in Nat /\ Cardinality(Working') \in Nat
  <2>1. IsFiniteSet(Waiting') /\ IsFiniteSet(Working')
    BY <1>5, AllFinite, FS_AddElement, FS_Subset
  <2> QED
    BY <2>1, <1>4, <1>5, AllFinite, OneMore, OneFewer, FS_CardinalityType
<1>7. ASSUME NEW r \in Recipient
      PROVE  attempts'[r] + Cardinality(JobsFor(r)') + Cardinality(WorkersFor(r)') <= Rounds'
  <2>1. attempts[r] + Cardinality(JobsFor(r)) + Cardinality(WorkersFor(r)) <= Rounds
    BY DEF SendsInv
  <2>2. CASE recipients[r] = "PENDING"
    <3>1. /\ w \in WorkersFor(r) /\ JobsFor(r)' \subseteq JobsFor(r) \cup {j}
          /\ WorkersFor(r)' \subseteq WorkersFor(r) \ {w}
      BY <2>2, <1>t, <1>1, <1>3, <1>4, <1>5 DEF JobsFor, WorkersFor
    <3>2. IsFiniteSet(JobsFor(r)') /\ IsFiniteSet(WorkersFor(r)')
      BY <3>1, AllFinite, FS_AddElement, FS_Subset
    <3>3. /\ Cardinality(JobsFor(r)') <= Cardinality(JobsFor(r)) + 1
          /\ Cardinality(WorkersFor(r)') + 1 <= Cardinality(WorkersFor(r))
          /\ Cardinality(JobsFor(r)') \in Nat /\ Cardinality(WorkersFor(r)') \in Nat
      BY <3>1, <3>2, AllFinite, OneMore, OneFewer, FS_CardinalityType
    <3> QED
      BY <2>1, <3>3, <1>1, <1>2, <1>t, Numbers
  <2>3. CASE recipients[r] # "PENDING"
    <3>1. JobsFor(r)' \subseteq JobsFor(r) /\ WorkersFor(r)' \subseteq WorkersFor(r)
      BY <2>3, <1>1, <1>3, <1>5 DEF JobsFor, WorkersFor
    <3>2. /\ Cardinality(JobsFor(r)') <= Cardinality(JobsFor(r))
          /\ Cardinality(WorkersFor(r)') <= Cardinality(WorkersFor(r))
          /\ Cardinality(JobsFor(r)') \in Nat /\ Cardinality(WorkersFor(r)') \in Nat
      BY <3>1, AllFinite, Fewer
    <3> QED
      BY <2>1, <3>2, <1>1, <1>2, <1>t, Numbers
  <2> QED
    BY <2>2, <2>3
<1>8. Cardinality(Waiting) + Cardinality(Working) <= Rounds
  BY DEF SendsInv
<1>9. Cardinality(Waiting') + Cardinality(Working') <= Rounds'
  BY <1>2, <1>6, <1>8, Numbers
<1> QED
  BY <1>7, <1>9 DEF SendsInv

\* A worker that sends to a recipient has used up its right to.
LEMMA UsedUp ==
  ASSUME TypeInv, RowsInv, SendsInv, NEW w \in Worker, SendToNext(w)
  PROVE  SendsInv'
<1>t. attempts \in [Recipient -> Nat] /\ run \in [Worker -> Run] /\ Nobody \notin Recipient
  BY CampaignAssumption DEF TypeInv, TypeOK
<1>1. PICK x \in run[w].batch, outcome \in {"markSent", "markFailed", "catch"}, got \in BOOLEAN :
        Sends(w, x, outcome, got)
  BY SendEffect
<1>s. /\ attempts' = [attempts EXCEPT ![x] = @ + 1]
      /\ run' = [run EXCEPT ![w] = [@ EXCEPT !.pc = outcome, !.current = x]]
  BY <1>1 DEF Sends
<1> USE <1>s
<1>2. /\ UNCHANGED <<recipients, starts, jobs>>
      /\ run[w].pc = "send" /\ run[w].current = Nobody /\ x \in Recipient
  BY <1>t DEF SendToNext, rows, At, RowsInv, Run
<1>3. /\ run'[w].pc = outcome /\ run'[w].current = x /\ run'[w].batch = run[w].batch
      /\ \A v \in Worker : v # w => run'[v] = run[v]
  BY <1>1, <1>t DEF Run
<1>4. Rounds' = Rounds /\ Waiting' = Waiting
  BY <1>2, SameStalls DEF Waiting
<1>5. Working' = Working /\ Working \subseteq Worker
  <2>1. \A v \in Worker : run'[v].pc \notin {"idle", "return"} <=> run[v].pc \notin {"idle", "return"}
    BY <1>2, <1>3
  <2> QED
    BY <2>1 DEF Working
<1>6. ASSUME NEW r \in Recipient
      PROVE  attempts'[r] + Cardinality(JobsFor(r)') + Cardinality(WorkersFor(r)') <= Rounds'
  <2>1. attempts[r] + Cardinality(JobsFor(r)) + Cardinality(WorkersFor(r)) <= Rounds
    BY DEF SendsInv
  <2>2. JobsFor(r)' = JobsFor(r)
    BY <1>2, <1>4 DEF JobsFor
  <2>3. CASE r # x
    <3>1. WorkersFor(r)' \subseteq WorkersFor(r)
      BY <1>t, <1>2, <1>3, <1>5 DEF WorkersFor
    <3>2. Cardinality(WorkersFor(r)') <= Cardinality(WorkersFor(r))
          /\ Cardinality(WorkersFor(r)') \in Nat
      BY <3>1, AllFinite, Fewer
    <3>3. attempts'[r] = attempts[r]
      BY <1>1, <1>t, <2>3
    <3> QED
      BY <2>1, <2>2, <3>2, <3>3, <1>4, <1>t, Numbers
  <2>4. CASE r = x
    <3>1. w \in WorkersFor(r) /\ WorkersFor(r)' \subseteq WorkersFor(r) \ {w}
      BY <2>4, <1>t, <1>2, <1>3, <1>5 DEF WorkersFor, Working
    <3>2. IsFiniteSet(WorkersFor(r)')
      BY <3>1, AllFinite, FS_Subset
    <3>3. Cardinality(WorkersFor(r)') + 1 <= Cardinality(WorkersFor(r))
          /\ Cardinality(WorkersFor(r)') \in Nat
      BY <3>1, <3>2, AllFinite, OneFewer, FS_CardinalityType
    <3>4. attempts'[r] = attempts[r] + 1
      BY <1>1, <1>2, <1>t, <2>4
    <3> QED
      BY <2>1, <2>2, <3>3, <3>4, <1>4, <1>t, Numbers
  <2> QED
    BY <2>3, <2>4
<1> QED
  BY <1>4, <1>5, <1>6 DEF SendsInv

LEMMA SendsStep == TypeInv /\ RowsInv /\ SendsInv /\ [Next]_vars => SendsInv'
<1> SUFFICES ASSUME TypeInv, RowsInv, SendsInv, [Next]_vars
             PROVE  SendsInv'
  OBVIOUS
<1> USE DEF rows, sends
<1>t. /\ RunOK /\ run \in [Worker -> Run] /\ Q!TypeOK
      /\ recipients \in [Recipient -> {"NONE", "PENDING", "SENT", "FAILED"}]
      /\ attempts \in [Recipient -> Nat]
      /\ starts \in [Start -> {"new", "enqueue", "ended", "lost"}]
  BY DEF TypeInv, TypeOK, RunOK
<1>n. Rounds \in Nat /\ Rounds' \in Nat
  BY RoundsNat, NextRoundsNat
<1>j. UNCHANGED jobs => Waiting' = Waiting
  BY DEF Waiting
<1>s. UNCHANGED <<jobs, starts>> => Rounds' = Rounds
  BY SameStalls
<1>w. UNCHANGED run => Working' = Working
  BY DEF Working
\* The addition itself, for a step after which one set may have grown by one.
<1>a. ASSUME Cardinality(Waiting') + Cardinality(Working') <= Rounds',
             \A r \in Recipient :
               attempts'[r] + Cardinality(JobsFor(r)') + Cardinality(WorkersFor(r)') <= Rounds'
      PROVE  SendsInv'
  BY <1>a DEF SendsInv
<1>1. ASSUME NEW x \in Recipient, AddRecipient(x) PROVE SendsInv'
  <2>1. /\ recipients[x] = "NONE" /\ status # "GONE" /\ UNCHANGED <<attempts, jobs, run, starts>>
        /\ recipients' = [recipients EXCEPT ![x] = "PENDING"]
    BY <1>1 DEF AddRecipient
  <2>2. attempts[x] = 0
    BY <2>1 DEF RowsInv
  <2>3. Waiting' = Waiting /\ Working' = Working /\ Rounds' = Rounds
    BY <2>1, <1>j, <1>s, <1>w
  <2>4. ASSUME NEW r \in Recipient, r # x
        PROVE  JobsFor(r)' = JobsFor(r) /\ WorkersFor(r)' = WorkersFor(r)
    BY <2>1, <2>3, <2>4, <1>t DEF JobsFor, WorkersFor
  <2>5. /\ Cardinality(JobsFor(x)') <= Cardinality(Waiting)
        /\ Cardinality(WorkersFor(x)') <= Cardinality(Working)
        /\ Cardinality(JobsFor(x)') \in Nat /\ Cardinality(WorkersFor(x)') \in Nat
    <3>1. JobsFor(x)' \subseteq Waiting /\ WorkersFor(x)' \subseteq Working
      BY <2>3 DEF JobsFor, WorkersFor
    <3> QED
      BY <3>1, AllFinite, Fewer
  <2> QED
    <3>1. ASSUME NEW r \in Recipient
          PROVE  attempts'[r] + Cardinality(JobsFor(r)') + Cardinality(WorkersFor(r)') <= Rounds'
      <4>1. CASE r # x
        BY <2>1, <2>3, <2>4, <4>1 DEF SendsInv
      <4>2. CASE r = x
        BY <2>1, <2>2, <2>3, <2>5, <4>2, <1>n, Numbers DEF SendsInv
      <4> QED BY <4>1, <4>2
    <3> QED
      BY <1>a, <2>3, <3>1 DEF SendsInv
<1>2. ASSUME NEW s \in Start, StartCampaign(s) \/ LoseStart(s) PROVE SendsInv'
  <2>1. UNCHANGED <<attempts, recipients, jobs, run>> /\ Ended' = Ended
    BY <1>2, <1>t DEF StartCampaign, LoseStart, Ended
  <2>2. Rounds' = Rounds
    BY <2>1 DEF Rounds, Ended
  <2> QED
    BY <2>1, <2>2, <1>n, <1>j, <1>w, Quiet
<1>3. ASSUME NEW s \in Start, NEW j \in Job, EnqueueStart(s, j) PROVE SendsInv'
  <2>1. UNCHANGED <<attempts, recipients, run>> /\ Waiting' \subseteq Waiting \cup {j}
    BY <1>3, <1>t DEF EnqueueStart, Q!Add, Waiting, Q!TypeOK
  <2>2. Rounds' >= Rounds + 1
    BY <1>3, <1>t, <1>n, StartIsRound
  <2> QED
    BY <2>1, <2>2, NewRound
<1>4. CASE DeleteChannel
  <2>1. UNCHANGED <<attempts, jobs, run, starts>>
        /\ \A r \in Recipient : recipients'[r] # "PENDING"
    BY <1>4 DEF DeleteChannel
  <2>2. Rounds' >= Rounds
    BY <2>1, <1>s, <1>n
  <2>3. \A w \in Working', r \in Recipient :
           run'[w].current # r /\ (r \in run'[w].batch \/ recipients'[r] = "PENDING") =>
             run[w].current # r /\ (r \in run[w].batch \/ recipients[r] = "PENDING")
    BY <2>1
  <2> QED
    BY <2>1, <2>2, <2>3, <1>j, <1>w, Quiet
<1>5. ASSUME NEW j \in Job, ExpireLock(j) PROVE SendsInv'
  <2>1. UNCHANGED <<attempts, recipients, run>>
    BY <1>5 DEF ExpireLock
  <2>2. /\ Waiting' \subseteq Waiting \cup {j} /\ Rounds' >= Rounds
        /\ Waiting' \subseteq Waiting \/ Rounds' >= Rounds + 1
    BY <1>5, <1>t, <1>n, StallIsRound
  <2>3. CASE Waiting' \subseteq Waiting
    <3>1. \A w \in Working', r \in Recipient :
             run'[w].current # r /\ (r \in run'[w].batch \/ recipients'[r] = "PENDING") =>
               run[w].current # r /\ (r \in run[w].batch \/ recipients[r] = "PENDING")
      BY <2>1
    <3> QED
      BY <2>1, <2>2, <2>3, <3>1, <1>w, Quiet
  <2>4. CASE Rounds' >= Rounds + 1
    BY <2>1, <2>2, <2>4, NewRound
  <2> QED
    BY <2>2, <2>3, <2>4
<1>6. ASSUME NEW w \in Worker, NEW j \in Job, StartJob(w, j) \/ Requeue(w, j) PROVE SendsInv'
  BY <1>6, TakenOver, HandedOver
<1>7. ASSUME NEW w \in Worker, SendToNext(w) PROVE SendsInv'
  BY <1>7, UsedUp
<1>8. ASSUME NEW w \in Worker, LoadBatch(w) PROVE SendsInv'
  <2>1. PICK batch \in SUBSET Pending :
          run' = [run EXCEPT ![w] = [@ EXCEPT !.batch = batch,
                                              !.pc = IF batch = {} THEN "count" ELSE "send"]]
    BY <1>8 DEF LoadBatch
  <2>2. run[w].pc = "load" /\ run[w].current = Nobody
        /\ UNCHANGED <<recipients, attempts, jobs, starts>>
    BY <1>8 DEF LoadBatch, At, RowsInv
  <2> DEFINE new == [run[w] EXCEPT !.batch = batch,
                                   !.pc = IF batch = {} THEN "count" ELSE "send"]
  <2>3. run' = [run EXCEPT ![w] = new] /\ new.batch = batch /\ new.current = Nobody
    BY <2>1, <2>2, <1>t DEF Run
  <2> HIDE DEF new
  <2>4. \A r \in Recipient :
          new.current # r /\ (r \in new.batch \/ recipients'[r] = "PENDING") =>
            run[w].current # r /\ (r \in run[w].batch \/ recipients[r] = "PENDING")
    BY <2>2, <2>3 DEF Pending
  <2>5. Waiting' \subseteq Waiting /\ Rounds' >= Rounds
    BY <2>2, <1>j, <1>s, <1>n
  <2>6. \A r \in Recipient : recipients'[r] = "PENDING" => recipients[r] = "PENDING"
    BY <2>2
  <2>7. run[w].pc \notin {"idle", "return"}
    BY <2>2
  <2> QED
    BY <2>2, <2>3, <2>4, <2>5, <2>6, <2>7, QuietWorker
<1>9. ASSUME NEW w \in Worker, MarkSent(w) \/ MarkFailed(w) \/ MarkCaught(w) PROVE SendsInv'
  <2>1. PICK outcome \in {"SENT", "FAILED"} : Record(w, outcome)
    BY <1>9 DEF MarkSent, MarkFailed, MarkCaught
  <2>2. run[w].pc \in {"markSent", "markFailed", "catch"} /\ run[w].current \in Recipient
    BY <1>9, <1>t DEF MarkSent, MarkFailed, MarkCaught, At, RunOK, Busy
  <2> DEFINE rest == run[w].batch \ {run[w].current}
             new == [run[w] EXCEPT !.batch = rest, !.current = Nobody,
                                   !.pc = IF rest = {} THEN "count" ELSE "send"]
  <2>3. run' = [run EXCEPT ![w] = new] /\ new.batch = rest
    BY <2>1, <1>t DEF Record, Run
  <2> HIDE DEF new
  <2>4. UNCHANGED <<attempts, jobs, starts>>
        /\ \A r \in Recipient : recipients'[r] = "PENDING" =>
             recipients[r] = "PENDING" /\ r # run[w].current
    BY <2>1, <2>2, <1>t DEF Record
  <2>5. \A r \in Recipient :
          new.current # r /\ (r \in new.batch \/ recipients'[r] = "PENDING") =>
            run[w].current # r /\ (r \in run[w].batch \/ recipients[r] = "PENDING")
    BY <2>3, <2>4
  <2>6. Waiting' \subseteq Waiting /\ Rounds' >= Rounds
    BY <2>4, <1>j, <1>s, <1>n
  <2>7. run[w].pc \notin {"idle", "return"}
    BY <2>2
  <2> QED
    BY <2>3, <2>4, <2>5, <2>6, <2>7, QuietWorker
<1>10. ASSUME NEW w \in Worker, NEW pc \in Pc, Goto(w, pc), run[w].pc \notin {"idle", "return"},
              UNCHANGED <<recipients, attempts, jobs, starts>>
       PROVE  SendsInv'
  <2> DEFINE new == [run[w] EXCEPT !.pc = pc]
  <2>1. run' = [run EXCEPT ![w] = new] /\ new.batch = run[w].batch
        /\ new.current = run[w].current
    BY <1>10, <1>t DEF Goto, Run
  <2> HIDE DEF new
  <2>2. \A r \in Recipient :
          new.current # r /\ (r \in new.batch \/ recipients'[r] = "PENDING") =>
            run[w].current # r /\ (r \in run[w].batch \/ recipients[r] = "PENDING")
    BY <2>1, <1>10
  <2>3. Waiting' \subseteq Waiting /\ Rounds' >= Rounds
    BY <1>10, <1>j, <1>s, <1>n
  <2>4. \A r \in Recipient : recipients'[r] = "PENDING" => recipients[r] = "PENDING"
    BY <1>10
  <2> QED
    BY <2>1, <2>2, <2>3, <2>4, <1>10, QuietWorker
<1>11. ASSUME NEW w \in Worker,
              MarkThrows(w) \/ CountRemaining(w) \/ CompleteCampaign(w)
       PROVE  SendsInv'
  BY <1>10, <1>11 DEF MarkThrows, CountRemaining, CompleteCampaign, At, Pc
<1>12. ASSUME NEW w \in Worker, run' = [run EXCEPT ![w] = Idle],
              UNCHANGED <<recipients, attempts, starts>>, Waiting' \subseteq Waiting,
              \A i \in Job : jobs'[i].stalls = jobs[i].stalls
       PROVE  SendsInv'
  <2>1. Rounds' >= Rounds
    BY <1>12, <1>n, SameStalls
  <2>2. Idle.pc = "idle"
    BY DEF Idle
  <2> QED
    BY <2>1, <2>2, <1>12, QuietWorker
<1>13. ASSUME NEW w \in Worker, CompleteJob(w) \/ FailJob(w) PROVE SendsInv'
  <2>1. PICK o \in {"done", "failed"} : Q!Finish(w, run[w].job, o)
    BY <1>13 DEF CompleteJob, FailJob
  <2>2. run[w].pc # "idle"
    BY <1>13 DEF CompleteJob, FailJob, Throws, At
  <2>3. run[w].job \in Job
    BY <2>2, <1>t DEF RunOK, Busy, At
  <2>4. \A i \in Job : jobs'[i].stalls = jobs[i].stalls
    BY <2>1, <2>3, <1>t, StallsKept
  <2>5. Waiting' \subseteq Waiting
    <3> DEFINE new == [jobs[run[w].job] EXCEPT !.st = o, !.holder = NoWorker]
    <3>1. new.st = o
      BY <2>3, <1>t DEF Q!TypeOK, Q!JobRecord
    <3>2. jobs' = jobs \/ jobs' = [jobs EXCEPT ![run[w].job] = new]
      BY <2>1 DEF Q!Finish
    <3> HIDE DEF new
    <3> QED
      BY <3>1, <3>2, <1>t DEF Waiting, Q!TypeOK
  <2> QED
    BY <1>12, <1>13, <2>4, <2>5 DEF CompleteJob, FailJob
<1>14. ASSUME NEW w \in Worker, CrashWorker(w) PROVE SendsInv'
  BY <1>12, <1>14, <1>j DEF CrashWorker
<1>15. CASE UNCHANGED vars
  <2>1. UNCHANGED <<attempts, recipients, jobs, run, starts>>
    BY <1>15 DEF vars
  <2>2. Waiting' = Waiting /\ Working' = Working /\ Rounds' = Rounds
        /\ \A r : JobsFor(r)' = JobsFor(r) /\ WorkersFor(r)' = WorkersFor(r)
    BY <2>1, <1>j, <1>s, <1>w DEF JobsFor, WorkersFor
  <2> QED
    BY <2>1, <2>2 DEF SendsInv
<1> QED
  BY <1>1, <1>2, <1>3, <1>4, <1>5, <1>6, <1>7, <1>8, <1>9, <1>11, <1>13, <1>14, <1>15
     DEF Next, WorkerStep

\* At first nobody was written to and nothing is under way.
LEMMA SendsInit == Init => RowsInv /\ SendsInv
<1> SUFFICES ASSUME Init
             PROVE  RowsInv /\ SendsInv
  OBVIOUS
<1>1. RowsInv
  BY DEF Init, RowsInv, Idle
<1>2. Waiting = {} /\ Working = {}
  BY DEF Init, Waiting, Working, Idle, Q!Init
<1>3. \A r \in Recipient : JobsFor(r) = {} /\ WorkersFor(r) = {} /\ attempts[r] = 0
  BY <1>2 DEF JobsFor, WorkersFor, Init
<1>4. Cardinality({}) = 0
  BY FS_EmptySet
<1> QED
  BY <1>1, <1>2, <1>3, <1>4, RoundsFinite DEF SendsInv

\* Nobody is written to more often than startCampaign added a job for the
\* campaign or one of its jobs was given out a second time.
THEOREM SendsBounded == Spec => []SendsAreExplained
<1>1. Init => TypeInv /\ RowsInv /\ SendsInv
  BY TypeInit, SendsInit
<1>2. (TypeInv /\ RowsInv /\ SendsInv) /\ [Next]_vars => (TypeInv /\ RowsInv /\ SendsInv)'
  BY TypeStep, RowsStep, SendsStep
<1>3. TypeInv /\ SendsInv => SendsAreExplained
  <2>1. ASSUME TypeInv, SendsInv, NEW r \in Recipient
        PROVE  attempts[r] <= Rounds
    <3>1. attempts[r] \in Nat
      BY <2>1 DEF TypeInv, TypeOK
    <3>2. attempts[r] + Cardinality(JobsFor(r)) + Cardinality(WorkersFor(r)) <= Rounds
      BY <2>1 DEF SendsInv
    <3> QED
      BY <3>1, <3>2, Numbers
  <2> QED
    BY <2>1 DEF SendsAreExplained
<1> QED
  BY <1>1, <1>2, <1>3, PTL DEF Spec

-----------------------------------------------------------------------------
(* HandsInv: an outcome and a hand on a recipient are each paid for.       *)

\* A step that writes to nobody, takes nobody in hand and gives no outcome.
LEMMA HandsKept ==
  ASSUME TypeInv, HandsInv, UNCHANGED attempts,
         \A w \in Worker : run'[w].current = run[w].current \/ run'[w].current = Nobody,
         \A r \in Recipient : Settled(r)' => Settled(r)
  PROVE  HandsInv'
<1> SUFFICES ASSUME NEW r \in Recipient
             PROVE  Cardinality(InHand(r)') + (IF Settled(r)' THEN 1 ELSE 0) <= attempts'[r]
  BY DEF HandsInv
<1>1. InHand(r)' \subseteq InHand(r) /\ IsFiniteSet(InHand(r))
  <2>1. InHand(r) \subseteq Worker
    BY DEF InHand
  <2>2. InHand(r)' \subseteq InHand(r)
    BY CampaignAssumption DEF InHand
  <2> QED
    BY <2>1, <2>2, Fewer, FiniteAssumption
<1>2. /\ Cardinality(InHand(r)') <= Cardinality(InHand(r))
      /\ Cardinality(InHand(r)') \in Nat /\ Cardinality(InHand(r)) \in Nat
  BY <1>1, Fewer
<1>3. attempts[r] \in Nat /\ attempts'[r] = attempts[r]
  BY DEF TypeInv, TypeOK
<1>4. Cardinality(InHand(r)) + (IF Settled(r) THEN 1 ELSE 0) <= attempts[r]
  BY DEF HandsInv
<1>5. Settled(r)' => Settled(r)
  OBVIOUS
<1> QED
  BY <1>2, <1>3, <1>4, <1>5

\* A send pays for the hand it takes.
LEMMA HandsSend ==
  ASSUME TypeInv, RowsInv, HandsInv, NEW w \in Worker, SendToNext(w)
  PROVE  HandsInv'
<1>t. /\ attempts \in [Recipient -> Nat] /\ run \in [Worker -> Run]
  BY DEF TypeInv, TypeOK
<1>1. PICK x \in run[w].batch, outcome \in {"markSent", "markFailed", "catch"}, got \in BOOLEAN :
        Sends(w, x, outcome, got)
  BY SendEffect
<1>s. /\ attempts' = [attempts EXCEPT ![x] = @ + 1]
      /\ run' = [run EXCEPT ![w] = [@ EXCEPT !.pc = outcome, !.current = x]]
  BY <1>1 DEF Sends
<1> USE <1>s
<1>2. UNCHANGED recipients /\ run[w].current = Nobody
  BY DEF SendToNext, rows, RowsInv, At
<1>3. /\ run'[w].current = x /\ x \in Recipient
      /\ \A v \in Worker : v # w => run'[v] = run[v]
  BY <1>1, <1>t DEF Run
<1> SUFFICES ASSUME NEW r \in Recipient
             PROVE  Cardinality(InHand(r)') + (IF Settled(r)' THEN 1 ELSE 0) <= attempts'[r]
  BY DEF HandsInv
<1>4. Cardinality(InHand(r)) + (IF Settled(r) THEN 1 ELSE 0) <= attempts[r]
  BY DEF HandsInv
<1>5. Settled(r)' = Settled(r)
  BY <1>2 DEF Settled
<1>6. InHand(r) \subseteq Worker /\ IsFiniteSet(InHand(r))
  BY Fewer, FiniteAssumption DEF InHand
<1>7. CASE r = x
  <2>1. InHand(r)' \subseteq InHand(r) \cup {w} /\ InHand(r)' \subseteq Worker
    BY <1>3 DEF InHand
  <2>2. Cardinality(InHand(r)') <= Cardinality(InHand(r)) + 1
    BY <2>1, <1>6, OneMore
  <2>3. Cardinality(InHand(r)') \in Nat /\ Cardinality(InHand(r)) \in Nat
    BY <2>1, <1>6, Fewer, FiniteAssumption
  <2>4. attempts'[r] = attempts[r] + 1 /\ attempts[r] \in Nat
    BY <1>1, <1>7, <1>t
  <2> QED
    BY <2>2, <2>3, <2>4, <1>4, <1>5
<1>8. CASE r # x
  <2>1. InHand(r)' = InHand(r)
    BY <1>2, <1>3, <1>8, CampaignAssumption DEF InHand
  <2>2. attempts'[r] = attempts[r]
    BY <1>1, <1>8, <1>t
  <2> QED
    BY <2>1, <2>2, <1>4, <1>5
<1> QED
  BY <1>7, <1>8

\* What a worker that records an outcome has in hand, and that it lets it go.
LEMMA RecordLetsGo ==
  ASSUME TypeInv, NEW w \in Worker, NEW outcome \in {"SENT", "FAILED"}, Record(w, outcome),
         run[w].pc \in {"markSent", "markFailed", "catch"}
  PROVE  /\ run[w].current \in Recipient /\ run'[w].current = Nobody
         /\ \A v \in Worker : v # w => run'[v] = run[v]
         /\ recipients' = [recipients EXCEPT ![run[w].current] = outcome]
         /\ recipients[run[w].current] # "NONE"
         /\ UNCHANGED <<status, late, attempts, starts, jobs>>
<1>t. run \in [Worker -> Run]
  BY DEF TypeInv, TypeOK
<1>1. run[w].current \in Recipient
  BY DEF TypeInv, Busy
<1>2. run'[w].current = Nobody /\ \A v \in Worker : v # w => run'[v] = run[v]
  BY <1>t DEF Record, Run
<1> QED
  BY <1>1, <1>2 DEF Record, sends

\* An outcome takes over the place of the hand that recorded it.
LEMMA HandsRecord ==
  ASSUME TypeInv, HandsInv, NEW w \in Worker, NEW outcome \in {"SENT", "FAILED"},
         Record(w, outcome), run[w].pc \in {"markSent", "markFailed", "catch"}
  PROVE  HandsInv'
<1> DEFINE x == run[w].current
<1>t. /\ attempts \in [Recipient -> Nat]
      /\ recipients \in [Recipient -> {"NONE", "PENDING", "SENT", "FAILED"}]
  BY DEF TypeInv, TypeOK
<1>1. /\ x \in Recipient /\ run'[w].current = Nobody
      /\ \A v \in Worker : v # w => run'[v] = run[v]
      /\ recipients' = [recipients EXCEPT ![x] = outcome]
      /\ UNCHANGED attempts
  BY RecordLetsGo
<1> SUFFICES ASSUME NEW r \in Recipient
             PROVE  Cardinality(InHand(r)') + (IF Settled(r)' THEN 1 ELSE 0) <= attempts'[r]
  BY DEF HandsInv
<1>2. Cardinality(InHand(r)) + (IF Settled(r) THEN 1 ELSE 0) <= attempts[r]
  BY DEF HandsInv
<1>3. InHand(r) \subseteq Worker /\ IsFiniteSet(InHand(r)) /\ InHand(r)' \subseteq InHand(r)
  <2>1. InHand(r) \subseteq Worker /\ InHand(r)' \subseteq InHand(r)
    BY <1>1, CampaignAssumption DEF InHand
  <2> QED
    BY <2>1, Fewer, FiniteAssumption
<1>4. attempts'[r] = attempts[r] /\ attempts[r] \in Nat
  BY <1>1, <1>t
<1>5. CASE r = x
  <2>1. w \in InHand(r) /\ InHand(r)' \subseteq InHand(r) \ {w}
    BY <1>1, <1>3, <1>5, CampaignAssumption DEF InHand
  <2>2. Cardinality(InHand(r)') + 1 <= Cardinality(InHand(r))
    BY <2>1, <1>3, OneFewer
  <2>3. Cardinality(InHand(r)') \in Nat /\ Cardinality(InHand(r)) \in Nat
    BY <1>3, Fewer
  <2> QED
    BY <2>2, <2>3, <1>2, <1>4
<1>6. CASE r # x
  <2>1. Settled(r)' = Settled(r)
    BY <1>1, <1>6, <1>t DEF Settled
  <2>2. /\ Cardinality(InHand(r)') <= Cardinality(InHand(r))
        /\ Cardinality(InHand(r)') \in Nat /\ Cardinality(InHand(r)) \in Nat
    BY <1>3, Fewer
  <2> QED
    BY <2>1, <2>2, <1>2, <1>4
<1> QED
  BY <1>5, <1>6

\* No other step takes somebody in hand.
LEMMA HandsOnlyBySend ==
  ASSUME TypeInv, [Next]_vars,
         \A w \in Worker : ~SendToNext(w) /\ ~MarkSent(w) /\ ~MarkFailed(w) /\ ~MarkCaught(w)
  PROVE  \A v \in Worker : run'[v].current = run[v].current \/ run'[v].current = Nobody
<1> USE DEF rows, sends
<1>t. run \in [Worker -> Run]
  BY DEF TypeInv, TypeOK
<1>1. ASSUME NEW w \in Worker, NEW pc \in Pc, Goto(w, pc)
      PROVE  \A v \in Worker : run'[v].current = run[v].current
  BY <1>1, <1>t DEF Goto, Run
<1>2. ASSUME NEW w \in Worker,
             \/ MarkThrows(w) \/ CountRemaining(w) \/ CompleteCampaign(w)
             \/ \E j \in Job : Requeue(w, j)
      PROVE  \A v \in Worker : run'[v].current = run[v].current
  BY <1>1, <1>2 DEF MarkThrows, CountRemaining, CompleteCampaign, Requeue, Pc
<1>3. ASSUME NEW w \in Worker, CompleteJob(w) \/ FailJob(w) \/ CrashWorker(w)
      PROVE  \A v \in Worker : run'[v].current = run[v].current \/ run'[v].current = Nobody
  BY <1>3, <1>t DEF CompleteJob, FailJob, CrashWorker, Idle
<1>4. ASSUME NEW w \in Worker, NEW j \in Job, StartJob(w, j)
      PROVE  \A v \in Worker : run'[v].current = run[v].current \/ run'[v].current = Nobody
  BY <1>4, <1>t DEF StartJob, Idle
<1>5. ASSUME NEW w \in Worker, LoadBatch(w)
      PROVE  \A v \in Worker : run'[v].current = run[v].current
  BY <1>5, <1>t DEF LoadBatch, Run
<1>6. ASSUME \/ \E r \in Recipient : AddRecipient(r)
             \/ \E s \in Start : StartCampaign(s) \/ LoseStart(s)
                                 \/ \E j \in Job : EnqueueStart(s, j)
             \/ DeleteChannel \/ (\E j \in Job : ExpireLock(j)) \/ UNCHANGED vars
      PROVE  UNCHANGED run
  BY <1>6 DEF AddRecipient, StartCampaign, LoseStart, EnqueueStart, DeleteChannel, ExpireLock,
              vars
<1> QED
  BY <1>2, <1>3, <1>4, <1>5, <1>6 DEF Next, WorkerStep

LEMMA HandsStep == TypeInv /\ RowsInv /\ HandsInv /\ [Next]_vars => HandsInv'
<1> SUFFICES ASSUME TypeInv, RowsInv, HandsInv, [Next]_vars
             PROVE  HandsInv'
  OBVIOUS
<1>1. ASSUME NEW w \in Worker, SendToNext(w) PROVE HandsInv'
  BY <1>1, HandsSend
<1>2. ASSUME NEW w \in Worker, MarkSent(w) \/ MarkFailed(w) \/ MarkCaught(w) PROVE HandsInv'
  BY <1>2, HandsRecord DEF MarkSent, MarkFailed, MarkCaught, At
<1>3. ASSUME \A w \in Worker :
               ~SendToNext(w) /\ ~MarkSent(w) /\ ~MarkFailed(w) /\ ~MarkCaught(w)
      PROVE  HandsInv'
  <2>1. UNCHANGED attempts
    BY <1>3, OtherSteps
  <2>2. \A v \in Worker : run'[v].current = run[v].current \/ run'[v].current = Nobody
    BY <1>3, HandsOnlyBySend
  <2>3. \A r \in Recipient : Settled(r)' => Settled(r)
    BY <1>3, RowsSettleOnlyByRecord DEF Settled
  <2> QED
    BY <2>1, <2>2, <2>3, HandsKept
<1> QED
  BY <1>1, <1>2, <1>3

LEMMA HandsInit == Init => HandsInv
<1> SUFFICES ASSUME Init, NEW r \in Recipient
             PROVE  Cardinality(InHand(r)) + (IF Settled(r) THEN 1 ELSE 0) <= attempts[r]
  BY DEF HandsInv
<1>1. InHand(r) = {} /\ ~Settled(r) /\ attempts[r] = 0
  BY CampaignAssumption DEF Init, InHand, Settled, Idle
<1> QED
  BY <1>1, FS_EmptySet

-----------------------------------------------------------------------------
(* The refinement: a campaign is a Mailing.                                *)

MailingInv == TypeInv /\ RowsInv /\ SendsInv /\ DrainInv /\ HandsInv

\* A recipient in hand who has an outcome already was written to twice, so
\* the campaign was set going twice.
LEMMA SecondOutcome ==
  ASSUME MailingInv, NEW w \in Worker, NEW r \in Recipient, run[w].current = r, Settled(r)
  PROVE  Rounds > 1
<1>1. w \in InHand(r) /\ IsFiniteSet(InHand(r))
  <2>1. InHand(r) \subseteq Worker
    BY DEF InHand
  <2> QED
    BY <2>1, Fewer, FiniteAssumption DEF InHand
<1>2. Cardinality(InHand(r)) >= 1
  <2>1. Cardinality(InHand(r)) = Cardinality(InHand(r) \ {w}) + 1
        /\ Cardinality(InHand(r) \ {w}) \in Nat
    <3>1. IsFiniteSet(InHand(r) \ {w}) /\ Cardinality(InHand(r) \ {w}) = Cardinality(InHand(r)) - 1
      BY <1>1, FS_RemoveElement
    <3> QED
      BY <1>1, <3>1, FS_CardinalityType
  <2> QED
    BY <2>1
<1>3. Cardinality(InHand(r)) + 1 <= attempts[r] /\ Cardinality(InHand(r)) \in Nat
  BY <1>1, FS_CardinalityType DEF MailingInv, HandsInv
<1>4. attempts[r] + Cardinality(JobsFor(r)) + Cardinality(WorkersFor(r)) <= Rounds
      /\ attempts[r] \in Nat
  BY DEF MailingInv, SendsInv, TypeInv, TypeOK
<1> QED
  BY <1>2, <1>3, <1>4, Numbers

\* Nothing is done for a campaign before its start.
LEMMA NothingBeforeStart ==
  ASSUME DrainInv
  PROVE  /\ \A w \in Worker : ~At(w, "idle") => status # "DRAFT"
         /\ \A s \in Start : starts[s] = "enqueue" => status # "DRAFT"
         /\ \A j \in Job : jobs[j].st = "active" => status # "DRAFT"
  BY DEF DrainInv

\* Recording an outcome settles the recipient in hand.
LEMMA RecordSettles ==
  ASSUME MailingInv, NEW w \in Worker, NEW outcome \in {"SENT", "FAILED"}, Record(w, outcome),
         run[w].pc \in {"markSent", "markFailed", "catch"}
  PROVE  M!Next
<1> DEFINE r == run[w].current
<1>1. /\ r \in Recipient /\ recipients[r] # "NONE"
      /\ recipients' = [recipients EXCEPT ![r] = outcome]
      /\ UNCHANGED <<status, late, starts, jobs>>
  BY RecordLetsGo DEF MailingInv
<1>2. Rounds' = Rounds
  BY <1>1, SameStalls
<1>3. status # "DRAFT"
  BY NothingBeforeStart DEF MailingInv, At
<1>4. recipients[r] = "PENDING" \/ Rounds > 1
  <2>1. recipients[r] \in {"NONE", "PENDING", "SENT", "FAILED"}
    BY <1>1 DEF MailingInv, TypeInv, TypeOK
  <2>2. CASE Settled(r)
    BY <1>1, <2>2, SecondOutcome
  <2> QED
    BY <1>1, <2>1, <2>2 DEF Settled
<1>5. M!Settle(r)
  BY <1>1, <1>2, <1>3, <1>4 DEF M!Settle
<1> QED
  BY <1>1, <1>5 DEF M!Next

\* Steps that do not touch the rows or the rounds.
LEMMA MailingStutters ==
  ASSUME UNCHANGED <<rows, starts>>, \A i \in Job : jobs'[i].stalls = jobs[i].stalls
  PROVE  UNCHANGED <<status, recipients, late, Rounds>>
<1>1. Rounds' = Rounds
  BY SameStalls
<1> QED
  BY <1>1 DEF rows

LEMMA MailingStep ==
  MailingInv /\ [Next]_vars => [M!Next]_<<status, recipients, late, Rounds>>
<1> SUFFICES ASSUME MailingInv, [Next]_vars
             PROVE  M!Next \/ UNCHANGED <<status, recipients, late, Rounds>>
  OBVIOUS
<1> USE DEF rows, sends
<1>t. /\ Q!TypeOK /\ DrainInv /\ TypeInv
      /\ starts \in [Start -> {"new", "enqueue", "ended", "lost"}]
      /\ status \in {"DRAFT", "SENDING", "COMPLETED", "GONE"}
      /\ \A w \in Worker : ~At(w, "idle") => run[w].job \in Job
  BY DEF MailingInv, TypeInv, TypeOK, Busy
<1>s. UNCHANGED <<starts, jobs>> => Rounds' = Rounds
  BY SameStalls
<1>1. ASSUME NEW r \in Recipient, AddRecipient(r) PROVE M!Next
  BY <1>1, <1>s DEF AddRecipient, M!Next, M!Enrol
<1>2. ASSUME NEW s \in Start, StartCampaign(s) \/ LoseStart(s)
      PROVE  M!Next \/ UNCHANGED <<status, recipients, late, Rounds>>
  <2>1. Ended' = Ended /\ jobs' = jobs
    BY <1>2, <1>t DEF StartCampaign, LoseStart, Ended
  <2>2. Rounds' = Rounds
    BY <2>1 DEF Rounds, Ended
  <2> QED
    BY <1>2, <2>2 DEF StartCampaign, LoseStart, M!Next, M!Launch
<1>3. ASSUME NEW s \in Start, NEW j \in Job, EnqueueStart(s, j) PROVE M!Next
  <2>1. Rounds' = Rounds + 1
    BY <1>3, <1>t, StartIsRound
  <2>2. status # "DRAFT"
    BY <1>3, <1>t, NothingBeforeStart DEF EnqueueStart
  <2> QED
    BY <1>3, <2>1, <2>2 DEF EnqueueStart, M!Next, M!Round
<1>4. CASE DeleteChannel
  BY <1>4, <1>s DEF DeleteChannel, M!Next, M!Abandon
<1>5. ASSUME NEW w \in Worker, NEW j \in Job, StartJob(w, j) \/ Requeue(w, j)
      PROVE  UNCHANGED <<status, recipients, late, Rounds>>
  BY <1>5, <1>t, StallsKept, MailingStutters DEF StartJob, Requeue
<1>6. ASSUME NEW w \in Worker, MarkSent(w) \/ MarkFailed(w) \/ MarkCaught(w) PROVE M!Next
  BY <1>6, RecordSettles DEF MarkSent, MarkFailed, MarkCaught, At
<1>7. ASSUME NEW w \in Worker,
             \/ LoadBatch(w) \/ SendToNext(w) \/ MarkThrows(w) \/ CountRemaining(w)
             \/ CrashWorker(w)
      PROVE  UNCHANGED <<status, recipients, late, Rounds>>
  BY <1>7, <1>s DEF LoadBatch, SendToNext, MarkThrows, CountRemaining, CrashWorker
<1>8. ASSUME NEW w \in Worker, CompleteJob(w) \/ FailJob(w)
      PROVE  UNCHANGED <<status, recipients, late, Rounds>>
  <2>1. PICK o \in {"done", "failed"} : Q!Finish(w, run[w].job, o)
    BY <1>8 DEF CompleteJob, FailJob
  <2>2. run[w].job \in Job
    BY <1>8, <1>t DEF CompleteJob, FailJob, Throws, At
  <2> QED
    BY <1>8, <1>t, <2>1, <2>2, StallsKept, MailingStutters DEF CompleteJob, FailJob
\* Who completes the campaign saw that nobody was left; a second completion
\* changes nothing.
<1>9. ASSUME NEW w \in Worker, CompleteCampaign(w)
      PROVE  M!Next \/ UNCHANGED <<status, recipients, late, Rounds>>
  <2>1. /\ status \in {"SENDING", "COMPLETED"} /\ Pending \subseteq late
        /\ status' = "COMPLETED" /\ UNCHANGED <<recipients, late>> /\ Rounds' = Rounds
    <3>1. At(w, "complete") /\ status # "GONE"
      BY <1>9 DEF CompleteCampaign
    <3>2. Pending \subseteq late /\ status # "DRAFT"
      BY <3>1, <1>t, NothingBeforeStart DEF DrainInv, At
    <3> QED
      BY <1>9, <1>s, <1>t, <3>1, <3>2 DEF CompleteCampaign
  <2>2. CASE status = "SENDING"
    BY <2>1, <2>2 DEF M!Next, M!Close, Pending
  <2> QED
    BY <2>1, <2>2
<1>10. ASSUME NEW j \in Job, ExpireLock(j)
       PROVE  M!Next \/ UNCHANGED <<status, recipients, late, Rounds>>
  <2>1. status # "DRAFT" /\ UNCHANGED <<status, recipients, late>>
    BY <1>10, <1>t, NothingBeforeStart DEF ExpireLock, Q!Stall
  <2>2. Rounds' = Rounds + 1 \/ Rounds' = Rounds
    BY <1>10, <1>t, StallIsRound
  <2> QED
    BY <2>1, <2>2 DEF M!Next, M!Round
<1>11. CASE UNCHANGED vars
  BY <1>11, <1>s DEF vars
<1> QED
  BY <1>1, <1>2, <1>3, <1>4, <1>5, <1>6, <1>7, <1>8, <1>9, <1>10, <1>11 DEF Next, WorkerStep

\* A campaign with nothing set going yet is a mailing without a round.
LEMMA MailingInit == Init => M!Init
<1> SUFFICES ASSUME Init
             PROVE  M!Init
  OBVIOUS
<1>1. Ended = {}
  BY DEF Init, Ended
<1>2. GivenOutAgain = {}
  BY CampaignAssumption DEF Init, GivenOutAgain, Q!Init
<1>3. Rounds = 0
  BY <1>1, <1>2, RoundsFinite, FS_EmptySet
<1> QED
  BY <1>3 DEF Init, M!Init

\* The rows of a campaign behave as the abstract Mailing says: outcomes are
\* final within a round, nobody waits again, and it closes only when nobody
\* enrolled in time is left waiting.
THEOREM CampaignIsMailing == Spec => ImplementsMailing
<1>1. Init => MailingInv
  <2>1. Init => DrainInv
    BY DEF Init, DrainInv, CompletedIsDrained, At, Idle, Q!Init
  <2> QED
    BY <2>1, TypeInit, SendsInit, HandsInit DEF MailingInv
<1>2. MailingInv /\ [Next]_vars => MailingInv'
  BY TypeStep, RowsStep, SendsStep, DrainStep, HandsStep DEF MailingInv
<1>3. Init => M!Init
  BY MailingInit
<1>4. MailingInv /\ [Next]_vars => [M!Next]_<<status, recipients, late, Rounds>>
  BY MailingStep
<1> QED
  BY <1>1, <1>2, <1>3, <1>4, PTL DEF Spec, ImplementsMailing, M!Spec
=============================================================================
