------------------------------ MODULE JobQueue ------------------------------
(***************************************************************************)
(* A job queue as the API process and the workers of this repository use   *)
(* it.  The API adds jobs with the library Bull (@nestjs/bull), the        *)
(* workers take them with its successor BullMQ, by the same queue name;    *)
(* both are outside src/ and are taken as ends of one queue.  What is      *)
(* stated here is the contract the code relies on:                         *)
(*                                                                         *)
(*   - queue.add() makes a job available (no `attempts` option is ever     *)
(*     given, so a job that throws is failed at once and never retried);   *)
(*   - a worker takes one job at a time and holds its lock;                *)
(*   - when the handler returns or throws, the job is completed or failed, *)
(*     provided the worker still holds the lock;                           *)
(*   - a job whose lock expired (its worker died, or could not renew it)   *)
(*     goes back to the queue at most MaxStalled times, then it is failed. *)
(*                                                                         *)
(* A job is therefore delivered at least once, and to more than one worker *)
(* at a time when a lock expires under a worker that is still running.     *)
(***************************************************************************)
EXTENDS Naturals

CONSTANTS
  Job,         \* job identifiers; each is added at most once
  Worker,      \* worker processes
  NoWorker,    \* holder of a job nobody works on: not a member of Worker
  MaxStalled   \* BullMQ's maxStalledCount (1 unless configured), in Nat

VARIABLE jobs

JobState == {"unused", "wait", "active", "done", "failed"}

JobRecord == [st : JobState, stalls : 0..MaxStalled, holder : Worker \cup {NoWorker}]

TypeOK == jobs \in [Job -> JobRecord]

Init == jobs = [j \in Job |-> [st |-> "unused", stalls |-> 0, holder |-> NoWorker]]

-----------------------------------------------------------------------------
\* Producer: queue.add(name, data, opts).
Add(j) ==
  /\ jobs[j].st = "unused"
  /\ jobs' = [jobs EXCEPT ![j].st = "wait"]

\* A worker fetches a job and locks it.
Take(w, j) ==
  /\ jobs[j].st = "wait"
  /\ jobs' = [jobs EXCEPT ![j] = [@ EXCEPT !.st = "active", !.holder = w]]

\* The handler returned ("done") or threw ("failed"); a worker that lost the
\* lock changes nothing.
Finish(w, j, outcome) ==
  jobs' = IF jobs[j].holder = w
          THEN [jobs EXCEPT ![j] = [@ EXCEPT !.st = outcome, !.holder = NoWorker]]
          ELSE jobs

\* The lock of an active job expired.
Stall(j) ==
  /\ jobs[j].st = "active"
  /\ jobs' = [jobs EXCEPT ![j] =
                IF @.stalls < MaxStalled
                THEN [st |-> "wait", stalls |-> @.stalls + 1, holder |-> NoWorker]
                ELSE [st |-> "failed", stalls |-> @.stalls, holder |-> NoWorker]]

Next ==
  \E j \in Job :
    \/ Add(j)
    \/ Stall(j)
    \/ \E w \in Worker : \/ Take(w, j)
                         \/ \E outcome \in {"done", "failed"} : Finish(w, j, outcome)

Spec == Init /\ [][Next]_jobs

-----------------------------------------------------------------------------
\* A job is locked exactly while it is being worked on: a crash or an expired
\* lock never leaves it locked by nobody's worker.
LockedWhileActive == \A j \in Job : jobs[j].st = "active" <=> jobs[j].holder # NoWorker
=============================================================================
