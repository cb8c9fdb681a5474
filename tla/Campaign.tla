------------------------------ MODULE Campaign ------------------------------
(***************************************************************************)
(* One marketing campaign: CampaignsService (addRecipients, startCampaign) *)
(* in the API process, the "campaigns" queue and processCampaign, the      *)
(* handler of the campaign workers.                                        *)
(*                                                                         *)
(* A job sends to at most BatchSize recipients that are still PENDING,     *)
(* records the outcome of each, counts what is left, and then either adds  *)
(* a job for the next batch or marks the campaign COMPLETED.  Nothing in   *)
(* the code keeps two jobs of one campaign from running side by side.      *)
(***************************************************************************)
EXTENDS FiniteSets, Naturals

CONSTANTS
  Recipient,    \* rows of model CampaignRecipient, present or yet to be added
  Start,        \* calls of startCampaign
  Job,          \* jobs of the campaigns queue; their number bounds the run
  Worker,
  NoWorker,
  NoJob,
  Nobody,       \* no recipient in hand
  MaxStalled,
  BatchSize,    \* BATCH_SIZE of the worker
  Connector,    \* the channel's connector: a "stub" (WhatsApp, Twitter, LinkedIn,
                \* mock), one as the worker finds it, "blank" for want of init()
                \* (Facebook, Instagram, Telegram, e-mail), or one made "ready"
  Faults        \* which of "api", "crash", "expire", "db", "queue", "refuse",
                \* "lostAnswer", "delete", and the call of addRecipients after
                \* the start ("lateAdd"), may happen

ASSUME CampaignAssumption ==
  /\ NoWorker \notin Worker
  /\ NoJob \notin Job
  /\ Nobody \notin Recipient
  /\ MaxStalled \in Nat
  /\ BatchSize \in Nat \ {0}
  /\ Connector \in {"ready", "blank", "stub"}
  /\ Faults \subseteq {"api", "crash", "expire", "db", "queue", "refuse", "lostAnswer",
                       "lateAdd", "delete"}

ASSUME FiniteAssumption == IsFiniteSet(Start) /\ IsFiniteSet(Job) /\ IsFiniteSet(Worker)

VARIABLES
  status,      \* campaign.status, "GONE" once the channel was deleted
  recipients,  \* status of each recipient, "NONE" if it has no row
  attempts,    \* how often the worker called sendMessage for a recipient
  copies,      \* how often the platform accepted the message for a recipient
  starts,      \* where each call of startCampaign stands
  jobs,        \* the campaigns queue
  run,         \* what each worker is doing
  late,        \* history, read by no action: recipients added after the start
  unrecorded   \* history, read by no action: recipients whose result did not get
               \* to their row, for the update failed or the answer was lost

Q == INSTANCE JobQueue

vars == <<status, recipients, attempts, copies, starts, jobs, run, late, unrecorded>>

rows == <<status, recipients, late, unrecorded>>

sends == <<attempts, copies>>

Pc == {"idle", "load", "send", "markSent", "markFailed", "catch", "count",
       "requeue", "complete", "return"}

Run == [pc : Pc, job : Job \cup {NoJob}, batch : SUBSET Recipient,
        current : Recipient \cup {Nobody}]

Idle == [pc |-> "idle", job |-> NoJob, batch |-> {}, current |-> Nobody]

TypeOK ==
  /\ status \in {"DRAFT", "SENDING", "COMPLETED", "GONE"}
  /\ recipients \in [Recipient -> {"NONE", "PENDING", "SENT", "FAILED"}]
  /\ attempts \in [Recipient -> Nat]
  /\ copies \in [Recipient -> Nat]
  /\ starts \in [Start -> {"new", "enqueue", "ended", "lost"}]
  /\ Q!TypeOK
  /\ run \in [Worker -> Run]
  /\ late \subseteq Recipient
  /\ unrecorded \subseteq Recipient

Init ==
  /\ status = "DRAFT"
  /\ recipients = [r \in Recipient |-> "NONE"]
  /\ attempts = [r \in Recipient |-> 0]
  /\ copies = [r \in Recipient |-> 0]
  /\ starts = [s \in Start |-> "new"]
  /\ Q!Init
  /\ run = [w \in Worker |-> Idle]
  /\ late = {}
  /\ unrecorded = {}

Pending == {r \in Recipient : recipients[r] = "PENDING"}

At(w, pc) == run[w].pc = pc

Goto(w, pc) == run' = [run EXCEPT ![w].pc = pc]

-----------------------------------------------------------------------------
(* CampaignsService.                                                       *)

\* addRecipients inserts its rows one by one (Promise.all of creates); it does
\* not look at the status of the campaign.
AddRecipient(r) ==
  /\ status # "GONE"
  /\ status = "DRAFT" \/ "lateAdd" \in Faults
  /\ recipients[r] = "NONE"
  /\ recipients' = [recipients EXCEPT ![r] = "PENDING"]
  /\ late' = IF status = "DRAFT" THEN late ELSE late \cup {r}
  /\ UNCHANGED <<status, unrecorded, sends, starts, jobs, run>>

\* startCampaign does not look at the status either: it can be called again.
StartCampaign(s) ==
  /\ starts[s] = "new"
  /\ status # "GONE"
  /\ status' = "SENDING"
  /\ starts' = [starts EXCEPT ![s] = "enqueue"]
  /\ UNCHANGED <<recipients, late, unrecorded, sends, jobs, run>>

EnqueueStart(s, j) ==
  /\ starts[s] = "enqueue"
  /\ Q!Add(j)
  /\ starts' = [starts EXCEPT ![s] = "ended"]
  /\ UNCHANGED <<rows, sends, run>>

\* The API process dies, or Redis is down, after the status was written.
LoseStart(s) ==
  /\ "api" \in Faults
  /\ starts[s] = "enqueue"
  /\ starts' = [starts EXCEPT ![s] = "lost"]
  /\ UNCHANGED <<rows, sends, jobs, run>>

\* Deleting the channel deletes its campaigns and their recipients.
DeleteChannel ==
  /\ "delete" \in Faults
  /\ status # "GONE"
  /\ status' = "GONE"
  /\ recipients' = [r \in Recipient |-> "NONE"]
  /\ UNCHANGED <<late, unrecorded, sends, starts, jobs, run>>

-----------------------------------------------------------------------------
(* processCampaign.                                                        *)

StartJob(w, j) ==
  /\ At(w, "idle")
  /\ Q!Take(w, j)
  /\ run' = [run EXCEPT ![w] = [Idle EXCEPT !.pc = "load", !.job = j]]
  /\ UNCHANGED <<rows, sends, starts>>

\* Mutant of LoadBatch: the filter on PENDING is missing.
LoadAnyBatch(w) ==
  /\ At(w, "load")
  /\ status # "GONE"
  /\ \E batch \in SUBSET {r \in Recipient : recipients[r] # "NONE"} :
       /\ Cardinality(batch) <= BatchSize
       /\ run' = [run EXCEPT ![w] =
                    [@ EXCEPT !.batch = batch,
                              !.pc = IF batch = {} THEN "count" ELSE "send"]]
  /\ UNCHANGED <<rows, sends, starts, jobs>>

\* The batch: as many PENDING recipients as there are, up to BatchSize, in no
\* particular order.
LoadBatch(w) ==
  /\ At(w, "load")
  /\ status # "GONE"
  /\ \E batch \in SUBSET Pending :
       /\ \/ batch = Pending /\ Cardinality(batch) <= BatchSize
          \/ Cardinality(batch) = BatchSize
       /\ run' = [run EXCEPT ![w] =
                    [@ EXCEPT !.batch = batch,
                              !.pc = IF batch = {} THEN "count" ELSE "send"]]
  /\ UNCHANGED <<rows, sends, starts, jobs>>

\* What sendMessage comes to: how the worker goes on, and whether the platform
\* accepted the message.  A stub reports success and calls no platform; a
\* connector without its configuration throws or is refused; one that waits in
\* vain for the platform's answer reports a failure, accepted or not.
SendEnds ==
  [ready |-> {"accepted", "refused", "unanswered"},
   blank |-> {"refused", "threw"},
   stub  |-> {"pretended"}]

After(end) ==
  CASE end \in {"accepted", "pretended"} -> "markSent"
    [] end \in {"refused", "unanswered"} -> "markFailed"
    [] end = "threw" -> "catch"

SendToNext(w) ==
  /\ At(w, "send")
  /\ \E r \in run[w].batch, end \in SendEnds[Connector] :
       /\ end = "refused" => Connector = "blank" \/ "refuse" \in Faults
       /\ end = "unanswered" => "lostAnswer" \in Faults
       /\ attempts' = [attempts EXCEPT ![r] = @ + 1]
       /\ copies' = IF end \in {"accepted", "unanswered"}
                    THEN [copies EXCEPT ![r] = @ + 1] ELSE copies
       /\ unrecorded' = IF end = "unanswered" THEN unrecorded \cup {r} ELSE unrecorded
       /\ run' = [run EXCEPT ![w] = [@ EXCEPT !.pc = After(end), !.current = r]]
  /\ UNCHANGED <<status, recipients, late, starts, jobs>>

\* recipient.update, then on to the next recipient of the batch or the count.
Record(w, outcome) ==
  /\ recipients[run[w].current] # "NONE"
  /\ recipients' = [recipients EXCEPT ![run[w].current] = outcome]
  /\ LET rest == run[w].batch \ {run[w].current} IN
       run' = [run EXCEPT ![w] =
                 [@ EXCEPT !.batch = rest, !.current = Nobody,
                           !.pc = IF rest = {} THEN "count" ELSE "send"]]
  /\ UNCHANGED <<status, late, unrecorded, sends, starts, jobs>>

\* Mutant of MarkSent: a success is recorded as a failure.
MarkSentAsFailed(w) == At(w, "markSent") /\ Record(w, "FAILED")

MarkSent(w) == At(w, "markSent") /\ Record(w, "SENT")

\* Mutant of MarkFailed: result.success is not looked at.
MarkFailedAsSent(w) == At(w, "markFailed") /\ Record(w, "SENT")

MarkFailed(w) == At(w, "markFailed") /\ Record(w, "FAILED")

\* The catch block of the loop also catches a failed update of the row: a
\* message that was sent is then recorded as FAILED.
MarkThrows(w) ==
  /\ run[w].pc \in {"markSent", "markFailed"}
  /\ "db" \in Faults \/ recipients[run[w].current] = "NONE"
  /\ Goto(w, "catch")
  /\ unrecorded' = unrecorded \cup {run[w].current}
  /\ UNCHANGED <<status, recipients, late, sends, starts, jobs>>

MarkCaught(w) == At(w, "catch") /\ Record(w, "FAILED")

\* Mutant of CountRemaining: the campaign ends with its first batch.
CountNothing(w) ==
  /\ At(w, "count")
  /\ Goto(w, "complete")
  /\ UNCHANGED <<rows, sends, starts, jobs>>

CountRemaining(w) ==
  /\ At(w, "count")
  /\ Goto(w, IF Pending # {} THEN "requeue" ELSE "complete")
  /\ UNCHANGED <<rows, sends, starts, jobs>>

\* Mutant of Requeue: the job for the next batch is not added.
RequeueNothing(w, j) ==
  /\ At(w, "requeue")
  /\ Goto(w, "return")
  /\ UNCHANGED <<rows, sends, starts, jobs>>

\* job.queue.add: either a job is added or, with "queue", the call throws.  (In
\* BullMQ the queue that a worker's job knows has no public add, so that the
\* call most likely always throws; that it succeeds is kept as the worker's
\* evident intent, and is what lets a second batch run at all.)
Requeue(w, j) ==
  /\ At(w, "requeue")
  /\ Q!Add(j)
  /\ Goto(w, "return")
  /\ UNCHANGED <<rows, sends, starts>>

\* Mutant of CompleteCampaign: a recipient's status written to the campaign.
CompleteCampaignAsSent(w) ==
  /\ At(w, "complete")
  /\ status # "GONE"
  /\ status' = "SENT"
  /\ Goto(w, "return")
  /\ UNCHANGED <<recipients, late, unrecorded, sends, starts, jobs>>

CompleteCampaign(w) ==
  /\ At(w, "complete")
  /\ status # "GONE"
  /\ status' = "COMPLETED"
  /\ Goto(w, "return")
  /\ UNCHANGED <<recipients, late, unrecorded, sends, starts, jobs>>

CompleteJob(w) ==
  /\ At(w, "return")
  /\ Q!Finish(w, run[w].job, "done")
  /\ run' = [run EXCEPT ![w] = Idle]
  /\ UNCHANGED <<rows, sends, starts>>

\* The calls outside the loop's catch block that throw, for want of the row,
\* of the database or of the queue.
Throws(w) ==
  \/ run[w].pc \in {"load", "complete"} /\ status = "GONE"
  \/ At(w, "catch") /\ recipients[run[w].current] = "NONE"
  \/ "db" \in Faults /\ run[w].pc \in {"load", "catch", "count", "complete"}
  \/ "queue" \in Faults /\ At(w, "requeue")

\* Rethrown by the handler: the job is failed for good.
FailJob(w) ==
  /\ Throws(w)
  /\ Q!Finish(w, run[w].job, "failed")
  /\ run' = [run EXCEPT ![w] = Idle]
  /\ UNCHANGED <<rows, sends, starts>>

CrashWorker(w) ==
  /\ "crash" \in Faults
  /\ ~At(w, "idle")
  /\ run' = [run EXCEPT ![w] = Idle]
  /\ UNCHANGED <<rows, sends, starts, jobs>>

Abandoned(j) == jobs[j].st = "active" /\ run[jobs[j].holder].job # j

ExpireLock(j) ==
  /\ Abandoned(j) \/ "expire" \in Faults
  /\ Q!Stall(j)
  /\ UNCHANGED <<rows, sends, starts, run>>

-----------------------------------------------------------------------------
WorkerStep(w) ==
  \/ \E j \in Job : StartJob(w, j) \/ Requeue(w, j)
  \/ LoadBatch(w) \/ SendToNext(w)
  \/ MarkSent(w) \/ MarkFailed(w) \/ MarkThrows(w) \/ MarkCaught(w)
  \/ CountRemaining(w) \/ CompleteCampaign(w) \/ CompleteJob(w) \/ FailJob(w)

Next ==
  \/ \E r \in Recipient : AddRecipient(r)
  \/ \E s \in Start : \/ StartCampaign(s) \/ LoseStart(s)
                      \/ \E j \in Job : EnqueueStart(s, j)
  \/ DeleteChannel
  \/ \E w \in Worker : WorkerStep(w) \/ CrashWorker(w)
  \/ \E j \in Job : ExpireLock(j)

Spec == Init /\ [][Next]_vars

\* The API process finishes what it began, workers and the stalled checker
\* keep running.  Nobody is obliged to add recipients or to start.
Fairness ==
  /\ \A s \in Start : WF_vars(\E j \in Job : EnqueueStart(s, j))
  /\ \A w \in Worker : WF_vars(WorkerStep(w))
  /\ \A j \in Job : WF_vars(Abandoned(j) /\ ExpireLock(j))

FairSpec == Spec /\ Fairness

-----------------------------------------------------------------------------
(* Properties.                                                             *)

\* A recipient marked SENT did receive the message, whatever crashed, expired
\* or ran twice, unless the connector is a stub: then nobody marked SENT did.
SentUnlessStub ==
  \A r \in Recipient : recipients[r] = "SENT" => (copies[r] > 0 <=> Connector # "stub")

\* A campaign marked COMPLETED has nobody left to send to of those who were
\* added in time, even when two jobs of it ran side by side: who is not PENDING
\* when one of them counts never becomes PENDING again.  (addRecipients does
\* not look at the status; who is added between the count and the end stays
\* PENDING for good.)
CompletedIsDrained == status = "COMPLETED" => Pending \subseteq late

\* A campaign that is SENDING has somebody to finish it: a start about to add
\* its job, or a job that is queued or running; or else a job that failed or a
\* start whose job was lost tells why not.
NotStuck ==
  status = "SENDING" =>
    \/ \E s \in Start : starts[s] \in {"enqueue", "lost"}
    \/ \E j \in Job : jobs[j].st \in {"wait", "active", "failed"}

\* How often the campaign was set going: once by each start that added its job
\* and once by each job that was given out again.
Rounds == Cardinality({s \in Start : starts[s] = "ended"})
          + Cardinality({d \in Job \X (1..MaxStalled) : d[2] <= jobs[d[1]].stalls})

\* Nobody is written to more often than the campaign was set going, however
\* many batches, workers and jobs overlap and wherever a worker died: started
\* once and nothing run twice, everybody is written to at most once.
SendsAreExplained == \A r \in Recipient : attempts[r] <= Rounds

\* A recipient shown as FAILED was refused at least once (by no stub), or his
\* result was lost: the platform's answer did not come back, or the update of
\* the row failed.  A success is never turned into a failure for any other
\* reason.
HasReason(r) == (Connector # "stub" /\ copies[r] < attempts[r]) \/ r \in unrecorded

FailureHasReason == \A r \in Recipient : recipients[r] = "FAILED" => HasReason(r)

\* A campaign that was started completes, or its channel was deleted, the job of
\* a start was lost, or a job failed; there is no other way to be SENDING for good.
EveryStartCompletes ==
  status = "SENDING" ~>
    \/ status \in {"COMPLETED", "GONE"}
    \/ \E s \in Start : starts[s] = "lost"
    \/ \E j \in Job : jobs[j].st = "failed"

\* If the platform refuses nobody, a completed campaign reached everybody.
CompletedReachedAll ==
  status = "COMPLETED" => \A r \in Recipient : recipients[r] # "FAILED"

\* What the rows show is a Mailing: jobs, batches, workers and their faults
\* change nothing that one round after another could not change.
M == INSTANCE Mailing WITH rounds <- Rounds

ImplementsMailing == M!Spec

-----------------------------------------------------------------------------
(* The inductive invariants behind SentUnlessStub, FailureHasReason,       *)
(* SendsAreExplained, CompletedIsDrained, NotStuck and ImplementsMailing.  *)

\* A worker records SENT only for a recipient whose message was accepted, or,
\* with a stub, was sent to nobody.
SentInv ==
  /\ SentUnlessStub
  /\ Connector = "stub" => \A r \in Recipient : copies[r] = 0
  /\ \A w \in Worker :
       At(w, "markSent") /\ Connector # "stub" => copies[run[w].current] > 0

\* A worker records FAILED only for a recipient that was refused, or whose
\* result was lost.
FailInv ==
  /\ FailureHasReason
  /\ \A r \in Recipient : copies[r] <= attempts[r]
  /\ \A w \in Worker : run[w].pc \in {"markFailed", "catch"} => HasReason(run[w].current)

\* The jobs and workers that may still send something.
Waiting == {j \in Job : jobs[j].st = "wait"}

Working == {w \in Worker : run[w].pc \notin {"idle", "return"}}

\* Those of them that may still send to r: his row is PENDING or he is in the
\* batch, and the worker does not have him in hand.
JobsFor(r) == {j \in Waiting : recipients[r] = "PENDING"}

WorkersFor(r) ==
  {w \in Working : run[w].current # r /\ (r \in run[w].batch \/ recipients[r] = "PENDING")}

\* A worker has a recipient in hand only while it records an outcome, a batch
\* holds rows, and nobody was written to before he had a row.
RowsInv ==
  /\ \A w \in Worker :
       run[w].pc \notin {"markSent", "markFailed", "catch"} => run[w].current = Nobody
  /\ status # "GONE" =>
       \A r \in Recipient : recipients[r] = "NONE" =>
         attempts[r] = 0 /\ \A w \in Worker : r \notin run[w].batch

\* There are never more jobs and workers under way than rounds, and what was
\* sent to a recipient and what may still be sent to him fit in the rounds.
SendsInv ==
  /\ Cardinality(Waiting) + Cardinality(Working) <= Rounds
  /\ \A r \in Recipient :
       attempts[r] + Cardinality(JobsFor(r)) + Cardinality(WorkersFor(r)) <= Rounds

\* Nothing runs before the start, and a worker that is about to complete the
\* campaign has seen that nobody was left.
DrainInv ==
  /\ CompletedIsDrained
  /\ \A w \in Worker : At(w, "complete") => Pending \subseteq late
  /\ status = "DRAFT" =>
       /\ \A s \in Start : starts[s] # "enqueue"
       /\ \A j \in Job : jobs[j].st = "unused"
       /\ \A w \in Worker : At(w, "idle")

\* Something is still to come of a job: it is waiting, or its handler has not
\* got to its end, or died before that.
Unfinished(j) ==
  \/ jobs[j].st = "wait"
  \/ jobs[j].st = "active" /\ ~(At(jobs[j].holder, "return") /\ run[jobs[j].holder].job = j)

\* A handler that is about to return has added the job for the next batch or
\* completed the campaign: what keeps a SENDING campaign going is another job.
GoesOn ==
  status = "SENDING" =>
    \/ \E s \in Start : starts[s] \in {"enqueue", "lost"}
    \/ \E j \in Job : jobs[j].st = "failed" \/ Unfinished(j)

StuckInv == Q!LockedWhileActive /\ GoesOn

\* Who has an outcome was written to once for it and once more by each worker
\* that has him in hand: an outcome is overwritten only in a later round.
InHand(r) == {w \in Worker : run[w].current = r}

Settled(r) == recipients[r] \in {"SENT", "FAILED"}

HandsInv ==
  \A r \in Recipient :
    Cardinality(InHand(r)) + (IF Settled(r) THEN 1 ELSE 0) <= attempts[r]
=============================================================================
