--------------------------- MODULE JobQueueProofs ---------------------------
(***************************************************************************)
(* Facts about the job queue that the proofs of every pipeline use.        *)
(***************************************************************************)
EXTENDS JobQueue, TLAPS

\* Every use of the queue keeps its records well formed.
LEMMA QueueType ==
  ASSUME NoWorker \notin Worker, MaxStalled \in Nat, TypeOK, Next
  PROVE  TypeOK'
<1> USE DEF TypeOK, JobRecord, JobState
<1>1. ASSUME NEW j \in Job, Add(j) PROVE TypeOK'
  BY <1>1 DEF Add
<1>2. ASSUME NEW j \in Job, Stall(j) PROVE TypeOK'
  BY <1>2 DEF Stall
<1>3. ASSUME NEW j \in Job, NEW w \in Worker, Take(w, j) PROVE TypeOK'
  BY <1>3 DEF Take
<1>4. ASSUME NEW j \in Job, NEW w \in Worker, NEW outcome \in {"done", "failed"},
             Finish(w, j, outcome)
      PROVE  TypeOK'
  BY <1>4 DEF Finish
<1> QED
  BY <1>1, <1>2, <1>3, <1>4 DEF Next

\* What the queue operations do to the job records, in terms of the old ones.
LEMMA QueueEffect ==
  ASSUME NoWorker \notin Worker, MaxStalled \in Nat, TypeOK, NEW j \in Job
  PROVE  /\ Add(j) =>
              /\ jobs[j].st = "unused" /\ jobs'[j].st = "wait"
              /\ jobs'[j].stalls = jobs[j].stalls /\ jobs'[j].holder = jobs[j].holder
         /\ Stall(j) =>
              /\ jobs[j].st = "active" /\ jobs'[j].st \in {"wait", "failed"}
              /\ jobs'[j].stalls >= jobs[j].stalls /\ jobs'[j].holder = NoWorker
              /\ jobs'[j].st = "wait" => jobs'[j].stalls > jobs[j].stalls
         /\ \A w \in Worker : Take(w, j) =>
              /\ jobs[j].st = "wait" /\ jobs'[j].st = "active"
              /\ jobs'[j].stalls = jobs[j].stalls /\ jobs'[j].holder = w
         /\ \A w \in Worker, outcome \in {"done", "failed"} :
              Finish(w, j, outcome) =>
                IF jobs[j].holder = w
                THEN /\ jobs'[j].st = outcome /\ jobs'[j].holder = NoWorker
                     /\ jobs'[j].stalls = jobs[j].stalls
                ELSE jobs'[j] = jobs[j]
         /\ Add(j) \/ Stall(j)
            \/ (\E w \in Worker : Take(w, j) \/ Finish(w, j, "done")
                                  \/ Finish(w, j, "failed"))
            => \A d \in Job : d # j => jobs'[d] = jobs[d]
<1> USE DEF TypeOK, JobRecord, JobState
<1>1. Add(j) =>
        /\ jobs[j].st = "unused" /\ jobs'[j].st = "wait"
        /\ jobs'[j].stalls = jobs[j].stalls /\ jobs'[j].holder = jobs[j].holder
        /\ \A d \in Job : d # j => jobs'[d] = jobs[d]
  BY DEF Add
<1>2. Stall(j) =>
        /\ jobs[j].st = "active" /\ jobs'[j].st \in {"wait", "failed"}
        /\ jobs'[j].stalls >= jobs[j].stalls /\ jobs'[j].holder = NoWorker
        /\ jobs'[j].st = "wait" => jobs'[j].stalls > jobs[j].stalls
        /\ \A d \in Job : d # j => jobs'[d] = jobs[d]
  BY DEF Stall
<1>3. ASSUME NEW w \in Worker, Take(w, j)
      PROVE  /\ jobs[j].st = "wait" /\ jobs'[j].st = "active"
             /\ jobs'[j].stalls = jobs[j].stalls /\ jobs'[j].holder = w
             /\ \A d \in Job : d # j => jobs'[d] = jobs[d]
  BY <1>3 DEF Take
<1>4. ASSUME NEW w \in Worker, NEW outcome \in {"done", "failed"}, Finish(w, j, outcome)
      PROVE  /\ IF jobs[j].holder = w
                THEN /\ jobs'[j].st = outcome /\ jobs'[j].holder = NoWorker
                     /\ jobs'[j].stalls = jobs[j].stalls
                ELSE jobs'[j] = jobs[j]
             /\ \A d \in Job : d # j => jobs'[d] = jobs[d]
  BY <1>4 DEF Finish
<1> QED
  BY <1>1, <1>2, <1>3, <1>4

-----------------------------------------------------------------------------
QueueInv == TypeOK /\ LockedWhileActive

LEMMA QueueStep ==
  ASSUME NoWorker \notin Worker, MaxStalled \in Nat, QueueInv, [Next]_jobs
  PROVE  QueueInv'
<1> USE DEF QueueInv
<1>1. TypeOK'
  <2>1. CASE Next
    BY <2>1, QueueType
  <2>2. CASE UNCHANGED jobs
    BY <2>2 DEF TypeOK
  <2> QED
    BY <2>1, <2>2
<1>2. ASSUME NEW j \in Job, Add(j) \/ Stall(j) PROVE LockedWhileActive'
  BY <1>2, QueueEffect DEF LockedWhileActive
<1>3. ASSUME NEW j \in Job, NEW w \in Worker, Take(w, j) PROVE LockedWhileActive'
  BY <1>3, QueueEffect DEF LockedWhileActive
<1>4. ASSUME NEW j \in Job, NEW w \in Worker, NEW outcome \in {"done", "failed"},
             Finish(w, j, outcome)
      PROVE  LockedWhileActive'
  BY <1>4, QueueEffect DEF LockedWhileActive
<1>5. ASSUME UNCHANGED jobs PROVE LockedWhileActive'
  BY <1>5 DEF LockedWhileActive
<1>6. LockedWhileActive'
  BY <1>2, <1>3, <1>4, <1>5 DEF Next
<1> QED
  BY <1>1, <1>6
=============================================================================
