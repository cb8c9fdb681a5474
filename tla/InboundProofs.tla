---------------------------- MODULE InboundProofs ----------------------------
(***************************************************************************)
(* Proofs about Inbound, for any number of events, workers, conversations  *)
(* and deliveries, and any combination of faults.                          *)
(***************************************************************************)
EXTENDS Inbound, TLAPS

QP == INSTANCE JobQueueProofs WITH Job <- Event, jobs <- inJobs

\* Every use of the queue keeps its records well formed.
LEMMA QueueType ==
  ASSUME InQ!TypeOK, InQ!Next
  PROVE  InQ!TypeOK'
  BY QP!QueueType, InboundAssumption
     DEF InQ!TypeOK, InQ!JobRecord, InQ!JobState, InQ!Next, InQ!Add, InQ!Take, InQ!Finish,
         InQ!Stall, QP!TypeOK, QP!JobRecord, QP!JobState, QP!Next, QP!Add, QP!Take, QP!Finish,
         QP!Stall

\* A worker that is not idle has a job.
Busy == \A w \in Worker : IF At(w, "idle") THEN run[w].job = NoEvent ELSE run[w].job \in Event

RunOK == run \in [Worker -> Run] /\ Busy

TypeInv == TypeInvariant /\ Busy

\* A handler that goes on to its next call stays well formed.
LEMMA GotoType ==
  ASSUME RunOK, NEW w \in Worker, ~At(w, "idle"), NEW pc \in Pc \ {"idle"}, Goto(w, pc)
  PROVE  RunOK'
<1> DEFINE new == [run[w] EXCEPT !.pc = pc]
<1>1. new \in Run /\ new.pc # "idle" /\ new.job = run[w].job
  BY DEF RunOK, Run
<1> HIDE DEF new
<1>2. run' = [run EXCEPT ![w] = new]
  BY DEF new, Goto
<1> QED
  BY <1>1, <1>2 DEF RunOK, Busy, At

\* So does one that also remembers the status it read.
LEMMA SeenType ==
  ASSUME RunOK, NEW w \in Worker, ~At(w, "idle"), NEW pc \in Pc \ {"idle"},
         NEW status \in TicketStatus \cup {"NONE"},
         run' = [run EXCEPT ![w] = [@ EXCEPT !.pc = pc, !.seen = status]]
  PROVE  RunOK'
<1> DEFINE new == [run[w] EXCEPT !.pc = pc, !.seen = status]
<1>1. new \in Run /\ new.pc # "idle" /\ new.job = run[w].job
  BY DEF RunOK, Run
<1> HIDE DEF new
<1>2. run' = [run EXCEPT ![w] = new]
  BY DEF new
<1> QED
  BY <1>1, <1>2 DEF RunOK, Busy, At

\* So does a worker that is done with its job, one way or another.
LEMMA IdleType ==
  ASSUME RunOK, NEW w \in Worker, run' = [run EXCEPT ![w] = Idle]
  PROVE  RunOK'
<1>1. Idle \in Run /\ Idle.pc = "idle" /\ Idle.job = NoEvent
  BY InboundAssumption DEF Idle, Run, Pc, Delivery
<1> QED
  BY <1>1 DEF RunOK, Busy, At

LEMMA TypeStep == TypeInv /\ [InboundStep]_InboundAll => TypeInv'
<1> SUFFICES ASSUME TypeInv, [InboundStep]_InboundAll
             PROVE  TypeInv'
  OBVIOUS
<1> USE InboundAssumption, StoreAssumption DEF storeVars
<1> DEFINE Rest == /\ StoreTypeOK
                   /\ inRows \in [Event -> [Delivery -> Nat]]
                   /\ parsed \subseteq Event
                   /\ notices \subseteq Event \X Delivery
<1>a. RunOK /\ Rest /\ InQ!TypeOK
  BY DEF TypeInv, TypeInvariant, InboundTypeOK, RunOK
<1>b. RunOK' /\ Rest' /\ InQ!TypeOK' => TypeInv'
  BY DEF TypeInv, TypeInvariant, InboundTypeOK, RunOK
<1>q. InQ!Next => InQ!TypeOK'
  BY <1>a, QueueType
<1>u. UNCHANGED inJobs => InQ!TypeOK'
  BY <1>a DEF InQ!TypeOK
<1>r. UNCHANGED run => RunOK'
  BY <1>a DEF RunOK, Busy, At
<1>s. UNCHANGED storeVars => StoreTypeOK'
  BY <1>a DEF StoreTypeOK
<1>t. \A w \in Worker : ~At(w, "idle") =>
        run[w].job \in Event /\ ThreadIn(w) \in Thread /\ run[w].delivery \in Delivery
  BY <1>a DEF RunOK, Busy, At, ThreadIn, Run
<1>1. ASSUME NEW e \in Event, HandleWebhook(e) \/ QueueEvent(e) PROVE TypeInv'
  <2>1. CASE HandleWebhook(e)
    BY <2>1, <1>a, <1>b, <1>u, <1>r, <1>s DEF HandleWebhook
  <2>2. CASE QueueEvent(e)
    BY <2>2, <1>a, <1>b, <1>q, <1>r, <1>s DEF QueueEvent, InQ!Next
  <2> QED
    BY <1>1, <2>1, <2>2
<1>2. ASSUME NEW e \in Event, ExpireLock(e) PROVE TypeInv'
  BY <1>2, <1>a, <1>b, <1>q, <1>r, <1>s DEF ExpireLock, InQ!Next
<1>3. ASSUME NEW w \in Worker, NEW e \in Event, StartJob(w, e) PROVE TypeInv'
  <2> DEFINE new == [pc |-> "channel", job |-> e, delivery |-> inJobs[e].stalls, seen |-> "NONE"]
  <2>1. new \in Run
    BY <1>a DEF InQ!TypeOK, InQ!JobRecord, Delivery, Run, Pc
  <2>2. run' = [run EXCEPT ![w] = new] /\ new.job \in Event /\ new.pc # "idle"
    BY <1>3 DEF StartJob
  <2> HIDE DEF new
  <2>3. RunOK'
    BY <1>a, <2>1, <2>2 DEF RunOK, Busy, At
  <2> QED
    BY <1>3, <1>a, <1>b, <1>q, <1>s, <2>3 DEF StartJob, InQ!Next
<1>4. ASSUME NEW w \in Worker, FindChannel(w) PROVE TypeInv'
  <2>1. RunOK'
    BY <1>4, <1>a, GotoType DEF FindChannel, At, Pc
  <2> QED
    BY <1>4, <1>a, <1>b, <1>u, <1>s, <2>1 DEF FindChannel
<1>5. ASSUME NEW w \in Worker, FindCustomer(w) PROVE TypeInv'
  <2>1. RunOK'
    BY <1>5, <1>a, GotoType DEF FindCustomer, At, Pc
  <2> QED
    BY <1>5, <1>a, <1>b, <1>u, <1>s, <2>1 DEF FindCustomer
<1>6. ASSUME NEW w \in Worker, CreateCustomer(w) PROVE TypeInv'
  <2>1. RunOK' /\ ~At(w, "idle")
    BY <1>6, <1>a, GotoType DEF CreateCustomer, At, Pc
  <2>2. StoreTypeOK'
    BY <1>6, <1>a, <1>t, <2>1 DEF CreateCustomer, InsertCustomer, StoreTypeOK
  <2> QED
    BY <1>6, <1>a, <1>b, <1>u, <2>1, <2>2 DEF CreateCustomer
<1>7. ASSUME NEW w \in Worker, TouchCustomer(w) PROVE TypeInv'
  <2>1. RunOK'
    BY <1>7, <1>a, GotoType DEF TouchCustomer, At, Pc
  <2> QED
    BY <1>7, <1>a, <1>b, <1>u, <1>s, <2>1 DEF TouchCustomer
<1>8. ASSUME NEW w \in Worker, FindTicket(w) PROVE TypeInv'
  <2> DEFINE row == tickets[ThreadIn(w)]
             next == CASE row.status = "NONE" -> "newTicket"
                       [] row.status # "NONE" /\ row.linked -> "message"
                       [] row.status # "NONE" /\ ~row.linked -> "link"
  <2>1. ~At(w, "idle")
    BY <1>8 DEF FindTicket, At
  <2>2. row.status \in TicketStatus \cup {"NONE"} /\ row.linked \in BOOLEAN
    BY <1>a, <1>t, <2>1 DEF StoreTypeOK, TicketRow
  <2>3. next \in Pc \ {"idle"}
    BY <2>2 DEF Pc
  <2>4. run' = [run EXCEPT ![w] = [@ EXCEPT !.seen = row.status, !.pc = next]]
    BY <1>8 DEF FindTicket
  <2> HIDE DEF row, next
  <2>5. run' = [run EXCEPT ![w] = [@ EXCEPT !.pc = next, !.seen = row.status]]
    BY <2>4
  <2>6. RunOK'
    BY <1>a, <2>1, <2>2, <2>3, <2>5, SeenType
  <2> QED
    BY <1>8, <1>a, <1>b, <1>u, <1>s, <2>6 DEF FindTicket
<1>9. ASSUME NEW w \in Worker, CreateTicket(w) PROVE TypeInv'
  <2>1. RunOK' /\ ~At(w, "idle")
    BY <1>9, <1>a, SeenType DEF CreateTicket, At, Pc, TicketStatus
  <2>2. StoreTypeOK'
    BY <1>9, <1>a, <1>t, <2>1 DEF CreateTicket, InsertTicket, StoreTypeOK, TicketRow, TicketStatus
  <2> QED
    BY <1>9, <1>a, <1>b, <1>u, <2>1, <2>2 DEF CreateTicket
<1>10. ASSUME NEW w \in Worker, LinkTicket(w) PROVE TypeInv'
  <2>1. RunOK' /\ ~At(w, "idle")
    BY <1>10, <1>a, GotoType DEF LinkTicket, At, Pc
  <2>2. StoreTypeOK'
    BY <1>10, <1>a, <1>t, <2>1 DEF LinkTicket, LinkCustomer, StoreTypeOK, TicketRow
  <2> QED
    BY <1>10, <1>a, <1>b, <1>u, <2>1, <2>2 DEF LinkTicket
<1>11. ASSUME NEW w \in Worker, CreateMessage(w) PROVE TypeInv'
  <2>1. RunOK' /\ ~At(w, "idle")
    BY <1>11, <1>a, GotoType DEF CreateMessage, At, Pc
  <2>2. inRows' \in [Event -> [Delivery -> Nat]]
    BY <1>11, <1>a, <1>t, <2>1 DEF CreateMessage
  <2> QED
    BY <1>11, <1>a, <1>b, <1>u, <1>s, <2>1, <2>2 DEF CreateMessage
<1>12. ASSUME NEW w \in Worker, CreateNotification(w) PROVE TypeInv'
  <2>1. RunOK' /\ ~At(w, "idle")
    BY <1>12, <1>a, GotoType DEF CreateNotification, At, Pc
  <2>2. (notices \subseteq Event \X Delivery)'
    BY <1>12, <1>a, <1>t, <2>1 DEF CreateNotification
  <2> QED
    BY <1>12, <1>a, <1>b, <1>u, <1>s, <2>1, <2>2 DEF CreateNotification
<1>13. ASSUME NEW w \in Worker, ReopenTicket(w) PROVE TypeInv'
  <2>1. RunOK' /\ ~At(w, "idle")
    BY <1>13, <1>a, GotoType DEF ReopenTicket, At, Pc
  <2>2. StoreTypeOK'
    BY <1>13, <1>a, <1>t, <2>1 DEF ReopenTicket, SetStatus, StoreTypeOK, TicketRow, TicketStatus
  <2> QED
    BY <1>13, <1>a, <1>b, <1>u, <2>1, <2>2 DEF ReopenTicket
<1>14. ASSUME NEW w \in Worker, CompleteJob(w) PROVE TypeInv'
  <2>1. run[w].job \in Event
    BY <1>14, <1>t DEF CompleteJob, At
  <2> QED
    BY <1>14, <2>1, <1>a, <1>b, <1>q, <1>s, IdleType DEF CompleteJob, InQ!Next
<1>15. ASSUME NEW w \in Worker, FailJob(w) PROVE TypeInv'
  <2>1. run[w].job \in Event
    BY <1>15, <1>t DEF FailJob, Rejected, At
  <2> QED
    BY <1>15, <2>1, <1>a, <1>b, <1>q, <1>s, IdleType DEF FailJob, InQ!Next
<1>16. ASSUME NEW w \in Worker, CrashWorker(w) PROVE TypeInv'
  BY <1>16, <1>a, <1>b, <1>u, <1>s, IdleType DEF CrashWorker
<1>17. ASSUME NEW c \in Channel, DeleteChannel(c) PROVE TypeInv'
  <2>1. StoreTypeOK'
    BY <1>17, <1>a DEF DeleteChannel, DropChannel, StoreTypeOK, NoRow, TicketRow
  <2>2. inRows' \in [Event -> [Delivery -> Nat]]
    BY <1>17, <1>a DEF DeleteChannel, CascadeInbound
  <2> QED
    BY <1>17, <1>a, <1>b, <1>u, <1>r, <2>1, <2>2 DEF DeleteChannel, CascadeInbound
<1>18. CASE StaffWrites
  <2>1. StoreTypeOK'
    BY <1>18, <1>a DEF StaffWrites, StoreTypeOK
  <2> QED
    BY <1>18, <1>a, <1>b, <1>u, <1>r, <2>1 DEF StaffWrites, inboundVars
<1>19. CASE UNCHANGED InboundAll
  BY <1>19, <1>a, <1>b, <1>u, <1>r, <1>s DEF InboundAll, inboundVars
<1> QED
  BY <1>1, <1>2, <1>3, <1>4, <1>5, <1>6, <1>7, <1>8, <1>9, <1>10, <1>11, <1>12,
     <1>13, <1>14, <1>15, <1>16, <1>17, <1>18, <1>19
     DEF InboundStep, InboundNext, WorkerStep

LEMMA TypeInit == StoreInit /\ InboundInit => TypeInv
  BY InboundAssumption
     DEF StoreInit, InboundInit, TypeInv, Busy, At, TypeInvariant, StoreTypeOK, InboundTypeOK,
         NoRow, TicketRow, Idle, Run, Pc, Delivery, InQ!Init, InQ!TypeOK, InQ!JobRecord,
         InQ!JobState

\* Type correctness of the inbound pipeline's tables, queue and workers.
THEOREM InboundTypeCorrect == InboundSpec => []TypeInvariant
<1>1. TypeInv => TypeInvariant
  BY DEF TypeInv
<1> QED
  BY TypeInit, TypeStep, <1>1, PTL DEF InboundSpec, InboundAllInit

-----------------------------------------------------------------------------
(* The inductive invariant InboundInv.                                     *)

\* The steps of a handler between taking its job and giving it back.
Progress(w) ==
  \/ FindChannel(w) \/ FindCustomer(w) \/ CreateCustomer(w) \/ TouchCustomer(w)
  \/ FindTicket(w) \/ CreateTicket(w) \/ LinkTicket(w)
  \/ CreateMessage(w) \/ CreateNotification(w) \/ ReopenTicket(w)

\* Such a step stays with the job and delivery it began with.
SameJob(w) ==
  /\ ~At(w, "idle")
  /\ run'[w].pc # "idle"
  /\ run'[w].job = run[w].job
  /\ run'[w].delivery = run[w].delivery
  /\ \A v \in Worker : v # w => run'[v] = run[v]

LEMMA ProgressKeepsJob ==
  ASSUME TypeInv, NEW w \in Worker, Progress(w)
  PROVE  SameJob(w) /\ UNCHANGED inJobs
<1> USE DEF TypeInv, TypeInvariant, InboundTypeOK, SameJob, At, Goto, Run
<1>1. CASE FindChannel(w)
  BY <1>1 DEF FindChannel
<1>2. CASE FindCustomer(w)
  BY <1>2 DEF FindCustomer
<1>3. CASE CreateCustomer(w)
  BY <1>3 DEF CreateCustomer
<1>4. CASE TouchCustomer(w)
  BY <1>4 DEF TouchCustomer
<1>5. CASE FindTicket(w)
  <2> DEFINE row == tickets[ThreadIn(w)]
             next == CASE row.status = "NONE" -> "newTicket"
                       [] row.status # "NONE" /\ row.linked -> "message"
                       [] row.status # "NONE" /\ ~row.linked -> "link"
  <2>1. run' = [run EXCEPT ![w] = [@ EXCEPT !.seen = row.status, !.pc = next]]
    BY <1>5 DEF FindTicket
  <2>2. next # "idle"
    <3>1. row.linked \in BOOLEAN
      BY <1>5, InboundAssumption DEF StoreTypeOK, TicketRow, ThreadIn, FindTicket, Busy
    <3> QED BY <3>1
  <2>3. ~At(w, "idle") /\ UNCHANGED inJobs
    BY <1>5 DEF FindTicket
  <2> HIDE DEF row, next
  <2> QED
    BY <2>1, <2>2, <2>3
<1>6. CASE CreateTicket(w)
  BY <1>6 DEF CreateTicket
<1>7. CASE LinkTicket(w)
  BY <1>7 DEF LinkTicket
<1>8. CASE CreateMessage(w)
  BY <1>8 DEF CreateMessage
<1>9. CASE CreateNotification(w)
  BY <1>9 DEF CreateNotification
<1>10. CASE ReopenTicket(w)
  BY <1>10 DEF ReopenTicket
<1> QED
  BY <1>1, <1>2, <1>3, <1>4, <1>5, <1>6, <1>7, <1>8, <1>9, <1>10 DEF Progress

\* What the queue operations do to the job records, in terms of the old ones.
LEMMA QueueEffect ==
  ASSUME InQ!TypeOK, NEW e \in Event
  PROVE  /\ InQ!Add(e) =>
              /\ inJobs[e].st = "unused" /\ inJobs'[e].st = "wait"
              /\ inJobs'[e].stalls = inJobs[e].stalls /\ inJobs'[e].holder = inJobs[e].holder
         /\ InQ!Stall(e) =>
              /\ inJobs[e].st = "active" /\ inJobs'[e].st \in {"wait", "failed"}
              /\ inJobs'[e].stalls >= inJobs[e].stalls /\ inJobs'[e].holder = NoWorker
              /\ inJobs'[e].st = "wait" => inJobs'[e].stalls > inJobs[e].stalls
         /\ \A w \in Worker : InQ!Take(w, e) =>
              /\ inJobs[e].st = "wait" /\ inJobs'[e].st = "active"
              /\ inJobs'[e].stalls = inJobs[e].stalls /\ inJobs'[e].holder = w
         /\ \A w \in Worker, outcome \in {"done", "failed"} :
              InQ!Finish(w, e, outcome) =>
                IF inJobs[e].holder = w
                THEN /\ inJobs'[e].st = outcome /\ inJobs'[e].holder = NoWorker
                     /\ inJobs'[e].stalls = inJobs[e].stalls
                ELSE inJobs'[e] = inJobs[e]
         /\ InQ!Add(e) \/ InQ!Stall(e)
            \/ (\E w \in Worker : InQ!Take(w, e) \/ InQ!Finish(w, e, "done")
                                  \/ InQ!Finish(w, e, "failed"))
            => \A d \in Event : d # e => inJobs'[d] = inJobs[d]
  BY QP!QueueEffect, InboundAssumption
     DEF InQ!TypeOK, InQ!JobRecord, InQ!JobState, InQ!Add, InQ!Take, InQ!Finish, InQ!Stall,
         QP!TypeOK, QP!JobRecord, QP!JobState, QP!Add, QP!Take, QP!Finish, QP!Stall

\* Deliveries, locks and rows stay matched.
LEMMA DeliveryStep ==
  ASSUME TypeInv, TypeInv', DeliveryInv, RowsFollowRun, [InboundStep]_InboundAll
  PROVE  DeliveryInv'
<1> USE InboundAssumption
        DEF DeliveryInv, LocksFit, RunsFit, OneRunPerDelivery, RowsFit, At
<1>q. InQ!TypeOK /\ InQ!TypeOK'
  BY DEF TypeInv, TypeInvariant, InboundTypeOK
<1>t. /\ \A e \in Event : /\ inJobs[e].st \in InQ!JobState
                          /\ inJobs[e].stalls \in Nat /\ inJobs'[e].stalls \in Nat
                          /\ inJobs[e].stalls \in Delivery
                          /\ inJobs[e].holder \in Worker \cup {NoWorker}
      /\ \A w \in Worker : run[w].delivery \in Nat
      /\ \A w \in Worker : ~At(w, "idle") => run[w].job \in Event
      /\ \A e \in Event, a \in Delivery : inRows[e][a] \in Nat
      /\ Delivery \subseteq Nat
  BY DEF TypeInv, TypeInvariant, InboundTypeOK, InQ!TypeOK, InQ!JobRecord, Run, Delivery, Busy
<1>1. ASSUME NEW w \in Worker, Progress(w), UNCHANGED inRows PROVE DeliveryInv'
  BY <1>1, <1>t, ProgressKeepsJob DEF SameJob
<1>2. ASSUME NEW w \in Worker, CreateMessage(w) PROVE DeliveryInv'
  <2>1. SameJob(w) /\ UNCHANGED inJobs
    BY <1>2, ProgressKeepsJob DEF Progress
  <2>2. run[w].job \in Event /\ run[w].delivery \in Delivery /\ inRows[run[w].job][run[w].delivery] = 0
    BY <1>2, <1>t DEF CreateMessage, RowsFollowRun, BeforeMessage, TypeInv, TypeInvariant,
                      InboundTypeOK, Run
  <2>3. RowsFit'
    BY <1>2, <1>t, <2>1, <2>2 DEF CreateMessage, SameJob, TypeInv, TypeInvariant, InboundTypeOK
  <2> QED
    BY <1>t, <2>1, <2>3 DEF SameJob
<1>3. ASSUME NEW e \in Event, HandleWebhook(e) \/ QueueEvent(e) PROVE DeliveryInv'
  BY <1>3, <1>q, <1>t, QueueEffect DEF HandleWebhook, QueueEvent
<1>4. ASSUME NEW e \in Event, ExpireLock(e) PROVE DeliveryInv'
  BY <1>4, <1>q, <1>t, QueueEffect DEF ExpireLock
<1>5. ASSUME NEW w \in Worker, NEW e \in Event, StartJob(w, e) PROVE DeliveryInv'
  <2>1. /\ run'[w].pc = "channel" /\ run'[w].job = e /\ run'[w].delivery = inJobs[e].stalls
        /\ \A v \in Worker : v # w => run'[v] = run[v]
        /\ At(w, "idle") /\ UNCHANGED inRows
    BY <1>5 DEF StartJob, TypeInv, TypeInvariant, InboundTypeOK
  <2>2. InQ!Take(w, e)
    BY <1>5 DEF StartJob
  <2> QED
    BY <2>1, <2>2, <1>q, <1>t, QueueEffect
<1>6. ASSUME NEW w \in Worker, CompleteJob(w) \/ FailJob(w) PROVE DeliveryInv'
  <2>1. /\ ~At(w, "idle") /\ run'[w].pc = "idle" /\ UNCHANGED inRows
        /\ \A v \in Worker : v # w => run'[v] = run[v]
    BY <1>6 DEF CompleteJob, FailJob, Rejected, Idle, TypeInv, TypeInvariant, InboundTypeOK
  <2>2. PICK outcome \in {"done", "failed"} : InQ!Finish(w, run[w].job, outcome)
    BY <1>6 DEF CompleteJob, FailJob
  <2> DEFINE e == run[w].job
  <2>3. e \in Event
    BY <2>1, <1>t
  <2>4. /\ inJobs[e].holder = w => inJobs'[e].st \in {"done", "failed"}
                                   /\ inJobs'[e].holder = NoWorker
                                   /\ inJobs'[e].stalls = inJobs[e].stalls
        /\ inJobs[e].holder # w => inJobs'[e] = inJobs[e]
        /\ \A d \in Event : d # e => inJobs'[d] = inJobs[d]
    BY <2>2, <2>3, <1>q, QueueEffect
  <2> HIDE DEF e
  <2>5. \A v \in Worker : run'[v].pc # "idle" => v # w
    BY <2>1
  <2> QED
    BY <2>1, <2>3, <2>4, <2>5, <1>t
<1>7. ASSUME NEW w \in Worker, CrashWorker(w) PROVE DeliveryInv'
  <2>1. /\ run'[w].pc = "idle" /\ UNCHANGED <<inJobs, inRows>>
        /\ \A v \in Worker : v # w => run'[v] = run[v]
    BY <1>7 DEF CrashWorker, Idle, TypeInv, TypeInvariant, InboundTypeOK
  <2>2. \A v \in Worker : run'[v].pc # "idle" => run'[v] = run[v]
    BY <2>1
  <2> HIDE DEF DeliveryInv
  <2>3. LocksFit' /\ RowsFit'
    BY <2>1 DEF DeliveryInv
  <2>4. RunsFit'
    BY <2>1, <2>2 DEF DeliveryInv
  <2>5. OneRunPerDelivery'
    BY <2>1, <2>2 DEF DeliveryInv
  <2> QED
    BY <2>3, <2>4, <2>5 DEF DeliveryInv
<1>8. ASSUME NEW c \in Channel, DeleteChannel(c) PROVE DeliveryInv'
  <2>1. /\ UNCHANGED <<inJobs, run>>
        /\ \A e \in Event, a \in Delivery : inRows'[e][a] \in {0, inRows[e][a]}
    BY <1>8 DEF DeleteChannel, CascadeInbound
  <2> QED
    BY <2>1, <1>t
<1>9. CASE StaffWrites \/ UNCHANGED InboundAll
  BY <1>9 DEF StaffWrites, InboundAll, inboundVars
<1>10. ASSUME NEW w \in Worker, Progress(w) PROVE UNCHANGED inRows \/ CreateMessage(w)
  BY <1>10 DEF Progress, FindChannel, FindCustomer, CreateCustomer, TouchCustomer, FindTicket,
               CreateTicket, LinkTicket, CreateNotification, ReopenTicket
<1> QED
  BY <1>1, <1>2, <1>3, <1>4, <1>5, <1>6, <1>7, <1>8, <1>9, <1>10
     DEF InboundStep, InboundNext, WorkerStep, Progress

\* The rows of a delivery follow its handler.
LEMMA RowsFollowStep ==
  ASSUME TypeInv, TypeInv', DeliveryInv, RowsFollowRun, [InboundStep]_InboundAll
  PROVE  RowsFollowRun'
<1> USE InboundAssumption DEF At, BeforeMessage, AfterMessage, ThreadIn, ChannelExists
<1>t. /\ \A w \in Worker : ~At(w, "idle") =>
                             run[w].job \in Event /\ run[w].delivery \in Delivery
      /\ run \in [Worker -> Run] /\ inRows \in [Event -> [Delivery -> Nat]]
      /\ \A w \in Worker : run'[w].pc # "idle" =>
                             run'[w].job \in Event /\ run'[w].delivery \in Delivery
  BY DEF TypeInv, TypeInvariant, InboundTypeOK, Run, Busy
<1>p. ASSUME NEW w \in Worker, Progress(w)
      PROVE  SameJob(w)
  BY <1>p, ProgressKeepsJob
<1>1. ASSUME NEW w \in Worker,
             \/ FindChannel(w) \/ FindCustomer(w) \/ CreateCustomer(w) \/ TouchCustomer(w)
             \/ FindTicket(w) \/ CreateTicket(w) \/ LinkTicket(w)
      PROVE  RowsFollowRun'
  <2>1. SameJob(w) /\ UNCHANGED <<inRows, notices, channels>>
    BY <1>1, <1>p DEF Progress, FindChannel, FindCustomer, CreateCustomer, TouchCustomer,
                      FindTicket, CreateTicket, LinkTicket, storeVars
  <2>2. run[w].pc \in BeforeMessage
    BY <1>1 DEF FindChannel, FindCustomer, CreateCustomer, TouchCustomer,
                FindTicket, CreateTicket, LinkTicket
  <2>3. run'[w].pc \in BeforeMessage
    <3>1. CASE FindTicket(w)
      <4> DEFINE row == tickets[ThreadIn(w)]
                 next == CASE row.status = "NONE" -> "newTicket"
                           [] row.status # "NONE" /\ row.linked -> "message"
                           [] row.status # "NONE" /\ ~row.linked -> "link"
      <4>1. run' = [run EXCEPT ![w] = [@ EXCEPT !.seen = row.status, !.pc = next]]
        BY <3>1 DEF FindTicket
      <4>2. next \in BeforeMessage
        <5>1. row.linked \in BOOLEAN
          BY <2>2, <1>t DEF TypeInv, TypeInvariant, StoreTypeOK, TicketRow
        <5> QED BY <5>1
      <4> HIDE DEF row, next
      <4> QED
        BY <4>1, <4>2, <1>t DEF Run
    <3>2. CASE ~FindTicket(w)
      <4> USE <1>t DEF Goto, Run
      <4>1. CASE FindChannel(w)
        BY <4>1 DEF FindChannel
      <4>2. CASE FindCustomer(w)
        BY <4>2 DEF FindCustomer
      <4>3. CASE CreateCustomer(w)
        BY <4>3 DEF CreateCustomer
      <4>4. CASE TouchCustomer(w)
        BY <4>4 DEF TouchCustomer
      <4>5. CASE CreateTicket(w)
        BY <4>5 DEF CreateTicket
      <4>6. CASE LinkTicket(w)
        BY <4>6 DEF LinkTicket
      <4> QED
        BY <3>2, <1>1, <4>1, <4>2, <4>3, <4>4, <4>5, <4>6
    <3> QED
      BY <3>1, <3>2
  <2> QED
    BY <2>1, <2>2, <2>3 DEF RowsFollowRun, SameJob
<1>2. ASSUME NEW w \in Worker, CreateMessage(w) PROVE RowsFollowRun'
  <2>1. SameJob(w) /\ UNCHANGED <<notices, channels>>
    BY <1>2, <1>p DEF Progress, CreateMessage, storeVars
  <2>2. /\ run[w].pc = "message" /\ run'[w].pc = "notify"
        /\ run[w].job \in Event /\ run[w].delivery \in Delivery
    BY <1>2, <1>t DEF CreateMessage, Goto, Run
  <2>3. /\ inRows'[run[w].job][run[w].delivery] > 0
        /\ \A e \in Event, a \in Delivery :
             e # run[w].job \/ a # run[w].delivery => inRows'[e][a] = inRows[e][a]
    BY <1>2, <1>t, <2>2 DEF CreateMessage
  <2>4. ASSUME NEW v \in Worker, v # w, run[v].pc # "idle"
        PROVE  inRows'[run[v].job][run[v].delivery] = inRows[run[v].job][run[v].delivery]
    BY <2>2, <2>3, <2>4, <1>t DEF DeliveryInv, OneRunPerDelivery
  <2> QED
    BY <2>1, <2>2, <2>3, <2>4 DEF RowsFollowRun, SameJob
<1>3. ASSUME NEW w \in Worker, CreateNotification(w) PROVE RowsFollowRun'
  <2>1. SameJob(w) /\ UNCHANGED <<inRows, channels>>
    BY <1>3, <1>p DEF Progress, CreateNotification, storeVars
  <2>2. run[w].pc = "notify" /\ run'[w].pc \in AfterMessage
    BY <1>3, <1>t DEF CreateNotification, Goto, Run
  <2>3. notices' = notices \cup {<<run[w].job, run[w].delivery>>}
    BY <1>3 DEF CreateNotification
  <2> QED
    BY <2>1, <2>2, <2>3 DEF RowsFollowRun, SameJob
<1>4. ASSUME NEW w \in Worker, ReopenTicket(w) PROVE RowsFollowRun'
  <2>1. SameJob(w) /\ UNCHANGED <<inRows, channels, notices>>
    BY <1>4, <1>p DEF Progress, ReopenTicket
  <2>2. run[w].pc = "reopen" /\ run'[w].pc = "return"
    BY <1>4, <1>t DEF ReopenTicket, Goto, Run
  <2> QED
    BY <2>1, <2>2 DEF RowsFollowRun, SameJob
<1>5. ASSUME NEW e \in Event, HandleWebhook(e) \/ QueueEvent(e) \/ ExpireLock(e)
      PROVE  RowsFollowRun'
  <2>1. UNCHANGED <<run, inRows, channels, notices>>
    BY <1>5 DEF HandleWebhook, QueueEvent, ExpireLock, storeVars
  <2> QED
    BY <2>1 DEF RowsFollowRun
<1>6. ASSUME NEW w \in Worker, NEW e \in Event, StartJob(w, e) PROVE RowsFollowRun'
  <2>1. /\ run'[w].pc = "channel" /\ run'[w].job = e /\ run'[w].delivery = inJobs[e].stalls
        /\ \A v \in Worker : v # w => run'[v] = run[v]
        /\ UNCHANGED <<inRows, channels, notices>>
    BY <1>6, <1>t DEF StartJob, storeVars
  <2>2. inJobs[e].st = "wait" /\ inJobs[e].stalls \in Delivery
    BY <1>6 DEF StartJob, InQ!Take, TypeInv, TypeInvariant, InboundTypeOK, InQ!TypeOK,
                InQ!JobRecord, Delivery
  <2>3. inRows[e][inJobs[e].stalls] = 0
    <3> DEFINE a == inJobs[e].stalls
    <3>1. a \in Delivery /\ a \in Nat /\ inRows[e][a] \in Nat
      BY <2>2, <1>t DEF Delivery
    <3>2. inRows[e][a] > 0 => a < a
      BY <2>2, <3>1, <1>t DEF DeliveryInv, RowsFit
    <3> HIDE DEF a
    <3>3. inRows[e][a] = 0
      BY <3>1, <3>2
    <3> QED
      BY <3>3 DEF a
  <2> QED
    BY <2>1, <2>3 DEF RowsFollowRun
<1>7. ASSUME NEW w \in Worker, CompleteJob(w) \/ FailJob(w) \/ CrashWorker(w)
      PROVE  RowsFollowRun'
  <2>1. /\ run'[w].pc = "idle" /\ UNCHANGED <<inRows, channels, notices>>
        /\ \A v \in Worker : v # w => run'[v] = run[v]
    BY <1>7, <1>t DEF CompleteJob, FailJob, CrashWorker, Idle, storeVars
  <2> QED
    BY <2>1 DEF RowsFollowRun
<1>8. ASSUME NEW c \in Channel, DeleteChannel(c) PROVE RowsFollowRun'
  <2>1. /\ UNCHANGED <<run, notices>> /\ channels' = channels \ {c}
        /\ \A e \in Event, a \in Delivery :
             inRows'[e][a] = IF ChanOf[ThreadOf[e]] = c THEN 0 ELSE inRows[e][a]
    BY <1>8 DEF DeleteChannel, CascadeInbound, DropChannel
  <2> QED
    BY <2>1, <1>t DEF RowsFollowRun
<1>9. CASE StaffWrites \/ UNCHANGED InboundAll
  BY <1>9 DEF StaffWrites, InboundAll, inboundVars, storeVars, RowsFollowRun
<1> QED
  BY <1>1, <1>2, <1>3, <1>4, <1>5, <1>6, <1>7, <1>8, <1>9
     DEF InboundStep, InboundNext, WorkerStep

\* Unless a channel is deleted, tickets and customers only accumulate, and a
\* ticket that is linked to its customer stays linked.
Grows ==
  /\ UNCHANGED channels
  /\ customers \subseteq customers'
  /\ \A t \in Thread : HasTicket(t) =>
       HasTicket(t)' /\ (tickets[t].linked => tickets'[t].linked)
  /\ \A t \in Thread : HasTicket(t)' => HasTicket(t) \/ ChannelExists(t)

LEMMA StoreGrows ==
  ASSUME TypeInv, [InboundStep]_InboundAll, \A c \in Channel : ~DeleteChannel(c)
  PROVE  Grows
<1> USE InboundAssumption DEF Grows, HasTicket, ChannelExists
<1>t. /\ tickets \in [Thread -> TicketRow]
      /\ \A w \in Worker : ~At(w, "idle") => ThreadIn(w) \in Thread
  BY DEF TypeInv, TypeInvariant, StoreTypeOK, Busy, ThreadIn
<1>1. CASE UNCHANGED storeVars
  BY <1>1 DEF storeVars
<1>2. ASSUME NEW w \in Worker, CreateCustomer(w) PROVE Grows
  BY <1>2 DEF CreateCustomer, InsertCustomer
<1>3. ASSUME NEW w \in Worker, CreateTicket(w) PROVE Grows
  <2>1. ThreadIn(w) \in Thread
    BY <1>3, <1>t DEF CreateTicket, At
  <2> QED
    BY <1>3, <1>t, <2>1 DEF CreateTicket, InsertTicket, CanInsertTicket, TicketRow
<1>4. ASSUME NEW w \in Worker, LinkTicket(w) PROVE Grows
  <2>1. ThreadIn(w) \in Thread
    BY <1>4, <1>t DEF LinkTicket, At
  <2> QED
    BY <1>4, <1>t, <2>1 DEF LinkTicket, LinkCustomer, TicketRow
<1>5. ASSUME NEW w \in Worker, ReopenTicket(w) PROVE Grows
  <2>1. ThreadIn(w) \in Thread
    BY <1>5, <1>t DEF ReopenTicket, At
  <2> QED
    BY <1>5, <1>t, <2>1 DEF ReopenTicket, SetStatus, TicketRow
<1>6. CASE StaffWrites
  BY <1>6, <1>t DEF StaffWrites, TicketRow
<1>7. ASSUME NEW w \in Worker,
             \/ \E e \in Event : StartJob(w, e)
             \/ FindChannel(w) \/ FindCustomer(w) \/ TouchCustomer(w) \/ FindTicket(w)
             \/ CreateMessage(w) \/ CreateNotification(w)
             \/ CompleteJob(w) \/ FailJob(w) \/ CrashWorker(w)
      PROVE  UNCHANGED storeVars
  BY <1>7 DEF StartJob, FindChannel, FindCustomer, TouchCustomer, FindTicket, CreateMessage,
              CreateNotification, CompleteJob, FailJob, CrashWorker
<1>8. ASSUME NEW e \in Event, HandleWebhook(e) \/ QueueEvent(e) \/ ExpireLock(e)
      PROVE  UNCHANGED storeVars
  BY <1>8 DEF HandleWebhook, QueueEvent, ExpireLock
<1>9. UNCHANGED InboundAll => UNCHANGED storeVars
  BY DEF InboundAll
<1> QED
  BY <1>1, <1>2, <1>3, <1>4, <1>5, <1>6, <1>7, <1>8, <1>9
     DEF InboundStep, InboundNext, WorkerStep

\* Unless a channel is deleted, message rows and notifications only accumulate.
LEMMA RowsGrow ==
  ASSUME TypeInv, [InboundStep]_InboundAll, \A c \in Channel : ~DeleteChannel(c)
  PROVE  /\ notices \subseteq notices'
         /\ \A e \in Event, a \in Delivery : inRows'[e][a] >= inRows[e][a]
<1>t. inRows \in [Event -> [Delivery -> Nat]]
  BY DEF TypeInv, TypeInvariant, InboundTypeOK
<1>1. ASSUME NEW w \in Worker, CreateMessage(w)
      PROVE  \A e \in Event, a \in Delivery : inRows'[e][a] >= inRows[e][a]
  BY <1>1, <1>t DEF CreateMessage
<1>2. (\A w \in Worker : ~CreateMessage(w)) => UNCHANGED inRows
  BY DEF InboundStep, InboundNext, WorkerStep, InboundAll, inboundVars, HandleWebhook, QueueEvent,
         ExpireLock, StartJob, FindChannel, FindCustomer, CreateCustomer, TouchCustomer,
         FindTicket, CreateTicket, LinkTicket, CreateNotification, ReopenTicket, CompleteJob,
         FailJob, CrashWorker, StaffWrites
<1>3. notices \subseteq notices'
  BY DEF InboundStep, InboundNext, WorkerStep, InboundAll, inboundVars, HandleWebhook, QueueEvent,
         ExpireLock, StartJob, FindChannel, FindCustomer, CreateCustomer, TouchCustomer,
         FindTicket, CreateTicket, LinkTicket, CreateMessage, CreateNotification,
         ReopenTicket, CompleteJob, FailJob, CrashWorker, StaffWrites
<1>4. UNCHANGED inRows => \A e \in Event, a \in Delivery : inRows'[e][a] >= inRows[e][a]
  BY <1>t
<1> QED
  BY <1>1, <1>2, <1>3, <1>4

\* What a worker is doing changes only by a step of its own.
LEMMA RunMoves ==
  ASSUME TypeInv, [InboundStep]_InboundAll, NEW w \in Worker, run'[w] # run[w]
  PROVE  WorkerStep(w) \/ CrashWorker(w)
<1>t. run \in [Worker -> Run]
  BY DEF TypeInv, TypeInvariant, InboundTypeOK
<1>1. ASSUME NEW v \in Worker, WorkerStep(v) \/ CrashWorker(v)
      PROVE  v = w
  BY <1>1, <1>t DEF WorkerStep, StartJob, FindChannel, FindCustomer, CreateCustomer,
       TouchCustomer, FindTicket, CreateTicket, LinkTicket, CreateMessage,
       CreateNotification, ReopenTicket, CompleteJob, FailJob, CrashWorker, Goto
<1>2. UNCHANGED run \/ \E v \in Worker : WorkerStep(v) \/ CrashWorker(v)
  BY DEF InboundStep, InboundNext, HandleWebhook, QueueEvent, ExpireLock, StaffWrites,
         DeleteChannel, CascadeInbound, InboundAll, inboundVars
<1> QED
  BY <1>1, <1>2

\* What the handler knows of the ticket and the customer stays true.
LEMMA ContextStep ==
  ASSUME TypeInv, TypeInv', ContextFits, [InboundStep]_InboundAll
  PROVE  ContextFits'
<1> DEFINE Known(w) ==
      /\ run[w].pc \in {"touch", "ticket", "newTicket", "link", "message"} =>
           ThreadIn(w) \in customers
      /\ At(w, "message") /\ ChannelExists(ThreadIn(w)) =>
           HasTicket(ThreadIn(w)) /\ tickets[ThreadIn(w)].linked
<1> USE InboundAssumption DEF At, HasTicket, ChannelExists
<1>t. /\ run \in [Worker -> Run]
      /\ tickets \in [Thread -> TicketRow]
      /\ \A w \in Worker : ~At(w, "idle") => ThreadIn(w) \in Thread
      /\ \A w \in Worker : run'[w].pc # "idle" => ThreadIn(w)' \in Thread
  BY DEF TypeInv, TypeInvariant, StoreTypeOK, InboundTypeOK, Busy, ThreadIn
<1>k. \A w \in Worker : Known(w)
  BY DEF ContextFits
<1>1. ASSUME NEW c \in Channel, DeleteChannel(c) PROVE ContextFits'
  <2>1. /\ UNCHANGED <<run, customers>> /\ channels' = channels \ {c}
        /\ \A t \in Thread : /\ ChanOf[t] = c => tickets'[t].status = "NONE"
                             /\ ChanOf[t] # c => tickets'[t] = tickets[t]
    BY <1>1 DEF DeleteChannel, CascadeInbound, DropChannel, NoRow
  <2> QED
    BY <2>1, <1>t DEF ContextFits, ThreadIn
<1>2. ASSUME Grows PROVE ContextFits'
  <2> USE <1>2
  <2>1. \A t \in Thread : HasTicket(t)' => ChannelExists(t)'
    BY DEF Grows, ContextFits
  <2>2. ASSUME NEW w \in Worker, run'[w] = run[w] PROVE Known(w)'
    BY <2>2, <1>k, <1>t DEF Grows, ThreadIn
  <2>3. ASSUME NEW w \in Worker, run'[w] # run[w],
               run'[w].pc \in {"touch", "ticket", "newTicket", "link", "message"}
        PROVE  \/ FindCustomer(w) \/ CreateCustomer(w) \/ TouchCustomer(w) \/ FindTicket(w)
               \/ CreateTicket(w) \/ LinkTicket(w)
    <3> USE <1>t
    <3>1. WorkerStep(w) \/ CrashWorker(w)
      BY <2>3, RunMoves
    <3>2. ASSUME \/ \E e \in Event : StartJob(w, e)
                 \/ FindChannel(w) \/ CreateMessage(w) \/ CreateNotification(w)
                 \/ ReopenTicket(w) \/ CompleteJob(w) \/ FailJob(w) \/ CrashWorker(w)
          PROVE  run'[w].pc \in {"channel", "customer", "notify", "reopen", "return", "idle"}
      BY <3>2 DEF StartJob, FindChannel, CreateMessage, CreateNotification, ReopenTicket,
                  CompleteJob, FailJob, CrashWorker, Goto, Idle, Run
    <3> QED
      BY <3>1, <3>2, <2>3 DEF WorkerStep
  <2>4. ASSUME NEW w \in Worker, run'[w] # run[w],
               \/ FindCustomer(w) \/ CreateCustomer(w) \/ TouchCustomer(w) \/ FindTicket(w)
               \/ CreateTicket(w) \/ LinkTicket(w)
        PROVE  Known(w)'
    <3>0. Progress(w)
      BY <2>4 DEF Progress
    <3>s. ThreadIn(w)' = ThreadIn(w) /\ ThreadIn(w) \in Thread
      BY <3>0, <1>t, ProgressKeepsJob DEF SameJob, ThreadIn
    <3> USE <1>t, <3>s DEF Goto
    <3>1. CASE FindCustomer(w)
      BY <3>1 DEF FindCustomer, storeVars, Run
    <3>2. CASE CreateCustomer(w)
      BY <3>2 DEF CreateCustomer, InsertCustomer, Run
    <3>3. CASE TouchCustomer(w)
      BY <3>3, <1>k DEF TouchCustomer, storeVars, Run
    <3>4. CASE FindTicket(w)
      <4> DEFINE row == tickets[ThreadIn(w)]
                 next == CASE row.status = "NONE" -> "newTicket"
                           [] row.status # "NONE" /\ row.linked -> "message"
                           [] row.status # "NONE" /\ ~row.linked -> "link"
      <4>1. run' = [run EXCEPT ![w] = [@ EXCEPT !.seen = row.status, !.pc = next]]
        BY <3>4 DEF FindTicket
      <4>2. next = "message" => HasTicket(ThreadIn(w)) /\ tickets[ThreadIn(w)].linked
        BY DEF TicketRow
      <4>3. ThreadIn(w) \in customers /\ UNCHANGED storeVars
        BY <3>4, <1>k DEF FindTicket
      <4>4. run'[w].pc = next
        <5> HIDE DEF next, row
        <5> QED BY <4>1 DEF Run
      <4> QED
        BY <4>2, <4>3, <4>4 DEF storeVars
    <3>5. CASE CreateTicket(w)
      BY <3>5, <1>k DEF CreateTicket, InsertTicket, Run
    <3>6. CASE LinkTicket(w)
      BY <3>6, <1>k DEF LinkTicket, LinkCustomer, Run, TicketRow
    <3> QED
      BY <2>4, <3>1, <3>2, <3>3, <3>4, <3>5, <3>6
  <2>5. \A w \in Worker : Known(w)'
    BY <2>2, <2>3, <2>4
  <2> QED
    BY <2>1, <2>5 DEF ContextFits
<1> QED
  BY <1>1, <1>2, StoreGrows

\* Every stored message keeps its context.
LEMMA RowsContextStep ==
  ASSUME TypeInv, TypeInv', ContextFits, RowsHaveContext, [InboundStep]_InboundAll
  PROVE  RowsHaveContext'
<1> USE InboundAssumption DEF RowsHaveContext, HasTicket, ChannelExists
<1>t. inRows \in [Event -> [Delivery -> Nat]] /\ Delivery \subseteq Nat
  BY DEF TypeInv, TypeInvariant, InboundTypeOK, Delivery
<1>1. ASSUME NEW c \in Channel, DeleteChannel(c) PROVE RowsHaveContext'
  BY <1>1, <1>t DEF DeleteChannel, CascadeInbound, DropChannel
<1>2. ASSUME Grows, NEW w \in Worker, CreateMessage(w) PROVE RowsHaveContext'
  <2>1. run[w].job \in Event /\ ThreadIn(w) = ThreadOf[run[w].job]
    BY <1>2 DEF CreateMessage, At, TypeInv, Busy, ThreadIn
  <2>2. /\ UNCHANGED storeVars
        /\ \A e \in Event, a \in Delivery : e # run[w].job => inRows'[e][a] = inRows[e][a]
    BY <1>2, <1>t, <2>1 DEF CreateMessage
  <2>3. LET t == ThreadIn(w) IN
          ChannelExists(t) /\ HasTicket(t) /\ tickets[t].linked /\ t \in customers
    BY <1>2, <2>1 DEF CreateMessage, ContextFits, At
  <2> QED
    BY <2>1, <2>2, <2>3 DEF storeVars
<1>3. ASSUME Grows, UNCHANGED inRows PROVE RowsHaveContext'
  BY <1>3, <1>t DEF Grows
<1>4. (\A w \in Worker : ~CreateMessage(w)) /\ (\A c \in Channel : ~DeleteChannel(c))
      => UNCHANGED inRows
  BY DEF InboundStep, InboundNext, WorkerStep, InboundAll, inboundVars, HandleWebhook, QueueEvent,
         ExpireLock, StartJob, FindChannel, FindCustomer, CreateCustomer, TouchCustomer,
         FindTicket, CreateTicket, LinkTicket, CreateNotification, ReopenTicket, CompleteJob,
         FailJob, CrashWorker, StaffWrites
<1> QED
  BY <1>1, <1>2, <1>3, <1>4, StoreGrows

\* A job is reported done by the worker whose handler returned, and by nothing else.
LEMMA NewlyDone ==
  ASSUME TypeInv, [InboundStep]_InboundAll,
         NEW e \in Event, inJobs'[e].st = "done", inJobs[e].st # "done"
  PROVE  \E w \in Worker : CompleteJob(w) /\ run[w].job = e
<1>t. InQ!TypeOK
  BY DEF TypeInv, TypeInvariant, InboundTypeOK
<1>1. ASSUME NEW w \in Worker, NEW d \in Event, StartJob(w, d) PROVE FALSE
  BY <1>1, <1>t DEF StartJob, InQ!Take, InQ!TypeOK, InQ!JobRecord
<1>2. ASSUME NEW d \in Event, HandleWebhook(d) \/ QueueEvent(d) PROVE FALSE
  BY <1>2, <1>t DEF HandleWebhook, QueueEvent, InQ!Add, InQ!TypeOK, InQ!JobRecord
<1>3. ASSUME NEW d \in Event, ExpireLock(d) PROVE FALSE
  BY <1>3, <1>t DEF ExpireLock, InQ!Stall, InQ!TypeOK, InQ!JobRecord
<1>4. ASSUME NEW w \in Worker, FailJob(w) PROVE FALSE
  BY <1>4, <1>t DEF FailJob, InQ!Finish, InQ!TypeOK, InQ!JobRecord
<1>5. ASSUME NEW w \in Worker, CompleteJob(w) PROVE run[w].job = e
  BY <1>5, <1>t DEF CompleteJob, InQ!Finish, InQ!TypeOK, InQ!JobRecord
<1>6. ASSUME NEW w \in Worker, Progress(w) \/ CrashWorker(w) PROVE FALSE
  BY <1>6, ProgressKeepsJob DEF CrashWorker
<1>7. ~(UNCHANGED InboundAll) /\ ~StaffWrites /\ \A c \in Channel : ~DeleteChannel(c)
  BY DEF InboundAll, inboundVars, StaffWrites, DeleteChannel, CascadeInbound
<1> QED
  BY <1>1, <1>2, <1>3, <1>4, <1>5, <1>6, <1>7
     DEF InboundStep, InboundNext, WorkerStep, Progress

\* Notifications and completed jobs keep their message.
LEMMA OutcomeStep ==
  ASSUME TypeInv, TypeInv', DeliveryInv, RowsFollowRun, NoticeHasMessage, DoneMeansStored,
         [InboundStep]_InboundAll
  PROVE  NoticeHasMessage' /\ DoneMeansStored'
<1> USE InboundAssumption DEF NoticeHasMessage, DoneMeansStored, ChannelExists
<1>t. /\ inRows \in [Event -> [Delivery -> Nat]] /\ Delivery \subseteq Nat
      /\ notices \subseteq Event \X Delivery /\ InQ!TypeOK
      /\ inRows' \in [Event -> [Delivery -> Nat]]
      /\ \A w \in Worker : ~At(w, "idle") =>
           run[w].job \in Event /\ run[w].delivery \in Delivery
  BY DEF TypeInv, TypeInvariant, InboundTypeOK, Delivery, Busy, Run
<1>1. ASSUME NEW c \in Channel, DeleteChannel(c)
      PROVE  NoticeHasMessage' /\ DoneMeansStored'
  <2>1. /\ UNCHANGED <<inJobs, notices>> /\ channels' = channels \ {c}
        /\ \A e \in Event, a \in Delivery :
             inRows'[e][a] = IF ChanOf[ThreadOf[e]] = c THEN 0 ELSE inRows[e][a]
    BY <1>1 DEF DeleteChannel, CascadeInbound, DropChannel
  <2>2. NoticeHasMessage'
    BY <2>1, <1>t
  <2>3. DoneMeansStored'
    BY <2>1, <1>t
  <2> QED
    BY <2>2, <2>3
<1>2. ASSUME \A c \in Channel : ~DeleteChannel(c)
      PROVE  NoticeHasMessage' /\ DoneMeansStored'
  <2>1. /\ notices \subseteq notices' /\ UNCHANGED channels
        /\ \A e \in Event, a \in Delivery : inRows[e][a] > 0 => inRows'[e][a] > 0
    BY <1>2, <1>t, RowsGrow, StoreGrows DEF Grows
  <2>2. ASSUME NEW n \in notices' \ notices
        PROVE  \E w \in Worker : CreateNotification(w) /\ n = <<run[w].job, run[w].delivery>>
    <3>1. PICK w \in Worker : CreateNotification(w)
      BY <1>2, <2>2 DEF InboundStep, InboundNext, WorkerStep, InboundAll, inboundVars,
         HandleWebhook, QueueEvent, ExpireLock, StartJob, FindChannel, FindCustomer, CreateCustomer,
         TouchCustomer, FindTicket, CreateTicket, LinkTicket, CreateMessage, ReopenTicket,
         CompleteJob, FailJob, CrashWorker, StaffWrites
    <3> QED
      BY <3>1, <2>2 DEF CreateNotification
  <2>3. ASSUME NEW w \in Worker, CreateNotification(w), ChannelExists(ThreadIn(w))
        PROVE  inRows[run[w].job][run[w].delivery] > 0
    BY <2>3 DEF CreateNotification, At, RowsFollowRun, AfterMessage
  <2>4. NoticeHasMessage'
    <3>1. ASSUME NEW n \in notices', ChannelExists(ThreadOf[n[1]])'
          PROVE  inRows'[n[1]][n[2]] > 0
      <4>1. CASE n \in notices
        BY <3>1, <4>1, <2>1, <1>t
      <4>2. CASE n \notin notices
        <5>1. PICK w \in Worker : CreateNotification(w) /\ n = <<run[w].job, run[w].delivery>>
          BY <4>2, <2>2
        <5>2. n[1] \in Event /\ n[2] \in Delivery /\ ThreadOf[n[1]] = ThreadIn(w)
          BY <5>1, <1>t DEF CreateNotification, At, ThreadIn
        <5> QED
          BY <3>1, <5>1, <5>2, <2>1, <2>3
      <4> QED
        BY <4>1, <4>2
    <3> QED
      BY <3>1
  <2>5. ASSUME NEW w \in Worker, CompleteJob(w), ChannelExists(ThreadIn(w))
        PROVE  /\ inRows[run[w].job][run[w].delivery] > 0
               /\ <<run[w].job, run[w].delivery>> \in notices
               /\ run[w].delivery \in Delivery
    BY <2>5, <1>t DEF CompleteJob, At, RowsFollowRun, AfterMessage
  <2>6. DoneMeansStored'
    <3>1. ASSUME NEW e \in Event, inJobs'[e].st = "done", ChannelExists(ThreadOf[e])'
          PROVE  \E a \in Delivery : inRows'[e][a] > 0 /\ <<e, a>> \in notices'
      <4>1. CASE inJobs[e].st = "done"
        BY <3>1, <4>1, <2>1
      <4>2. CASE inJobs[e].st # "done"
        <5>1. PICK w \in Worker : CompleteJob(w) /\ run[w].job = e
          BY <3>1, <4>2, NewlyDone
        <5>2. ChannelExists(ThreadIn(w))
          BY <5>1, <3>1, <2>1 DEF ThreadIn
        <5> QED
          BY <5>1, <5>2, <2>1, <2>5
      <4> QED
        BY <4>1, <4>2
    <3> QED
      BY <3>1
  <2> QED
    BY <2>4, <2>6
<1> QED
  BY <1>1, <1>2

LEMMA InboundInvInit == StoreInit /\ InboundInit => InboundInv
  BY InboundAssumption
     DEF StoreInit, InboundInit, InboundInv, DeliveryInv, LocksFit, RunsFit, OneRunPerDelivery,
         RowsFit, RowsFollowRun, ContextFits, RowsHaveContext, NoticeHasMessage,
         DoneMeansStored, BeforeMessage, AfterMessage, At, HasTicket, NoRow, Idle, InQ!Init

LEMMA InboundInvStep == TypeInv /\ TypeInv' /\ InboundInv /\ [InboundStep]_InboundAll
                        => InboundInv'
  BY DeliveryStep, RowsFollowStep, ContextStep, RowsContextStep, OutcomeStep DEF InboundInv

\* The strengthened invariant holds in every reachable state.
THEOREM InboundInvariant == InboundSpec => []InboundInv
<1>1. StoreInit /\ InboundInit => TypeInv /\ InboundInv
  BY TypeInit, InboundInvInit
<1>2. (TypeInv /\ InboundInv) /\ [InboundStep]_InboundAll => (TypeInv /\ InboundInv)'
  BY TypeStep, InboundInvStep
<1> QED
  BY <1>1, <1>2, PTL DEF InboundSpec, InboundAllInit

-----------------------------------------------------------------------------
\* A redelivered job may store its message again, but each delivery of a job
\* stores it at most once (message.create in processInboundMessage).
THEOREM AtMostOncePerDelivery == InboundSpec => []OneRowPerDelivery
<1>1. InboundInv => OneRowPerDelivery
  BY DEF InboundInv, DeliveryInv, RowsFit, OneRowPerDelivery
<1> QED
  BY <1>1, InboundInvariant, PTL

\* No completed inbound job has lost its message: the catch block of
\* processInboundMessage rethrows, so success means the rows are there.
THEOREM CompletedJobsAreStored == InboundSpec => []DoneMeansStored
<1>1. InboundInv => DoneMeansStored
  BY DEF InboundInv
<1> QED
  BY <1>1, InboundInvariant, PTL

\* A stored message can always be read in its ticket, linked to its customer,
\* whatever the other workers, the staff and a deletion of the channel do.
THEOREM StoredMessagesAreReadable == InboundSpec => []RowsHaveContext
<1>1. InboundInv => RowsHaveContext
  BY DEF InboundInv
<1> QED
  BY <1>1, InboundInvariant, PTL

\* Nobody is notified of a message that the same delivery did not store, unless
\* its channel went.
THEOREM NoticesAreTrue == InboundSpec => []NoticeHasMessage
<1>1. InboundInv => NoticeHasMessage
  BY DEF InboundInv
<1> QED
  BY <1>1, InboundInvariant, PTL

-----------------------------------------------------------------------------
(* Nothing but stalls loses a message while conversations are apart.       *)

\* At most workers crash, and no two events belong to the same conversation.
Apart ==
  /\ Faults \subseteq {"crash"}
  /\ \A d, e \in Event : ThreadOf[d] = ThreadOf[e] => d = e

\* Every handler holds the lock of its job.
HoldsLocks == \A w \in Worker : ~At(w, "idle") => inJobs[run[w].job].holder = w

\* The call a handler is about to issue is not rejected: the rows it did not
\* find are not there, and those it found still are.
NotRejected(w) ==
  /\ At(w, "newCustomer") => ThreadIn(w) \notin customers
  /\ At(w, "newTicket") => ~HasTicket(ThreadIn(w))
  /\ run[w].pc \in {"link", "message", "notify", "reopen"} => HasTicket(ThreadIn(w))

ApartInv ==
  /\ channels = Channel
  /\ HoldsLocks
  /\ \A w \in Worker : NotRejected(w)
  /\ LostOnlyByStalls

LEMMA ApartInit == StoreInit /\ InboundInit => ApartInv
  BY DEF StoreInit, InboundInit, ApartInv, HoldsLocks, NotRejected, LostOnlyByStalls, At, Idle,
         InQ!Init

\* A job is taken by one worker, which keeps it until it is done or crashes.
LEMMA LocksHeld ==
  ASSUME Apart, TypeInv, TypeInv', HoldsLocks, LocksFit, [InboundStep]_InboundAll
  PROVE  HoldsLocks'
<1> USE DEF At
<1>t. /\ InQ!TypeOK /\ run \in [Worker -> Run] /\ NoWorker \notin Worker
      /\ \A w \in Worker : ~At(w, "idle") => run[w].job \in Event
  BY InboundAssumption DEF TypeInv, TypeInvariant, InboundTypeOK, Busy
<1>1. ASSUME NEW w \in Worker, NEW e \in Event, StartJob(w, e) PROVE HoldsLocks'
  <2>1. /\ run'[w].job = e /\ \A v \in Worker : v # w => run'[v] = run[v]
        /\ inJobs'[e].holder = w /\ inJobs[e].st = "wait"
        /\ \A d \in Event : d # e => inJobs'[d] = inJobs[d]
    BY <1>1, <1>t, QueueEffect DEF StartJob
  <2>2. inJobs[e].holder = NoWorker
    BY <2>1 DEF LocksFit
  <2> QED
    BY <2>1, <2>2, <1>t DEF HoldsLocks
<1>2. ASSUME NEW w \in Worker, Progress(w) PROVE HoldsLocks'
  BY <1>2, <1>t, ProgressKeepsJob DEF SameJob, HoldsLocks
<1>3. ASSUME NEW w \in Worker, CompleteJob(w) \/ FailJob(w) PROVE HoldsLocks'
  <2>1. /\ run[w].job \in Event /\ ~At(w, "idle") /\ run'[w].pc = "idle"
        /\ \A v \in Worker : v # w => run'[v] = run[v]
    BY <1>3, <1>t DEF CompleteJob, FailJob, Rejected, Idle
  <2>2. PICK outcome \in {"done", "failed"} : InQ!Finish(w, run[w].job, outcome)
    BY <1>3 DEF CompleteJob, FailJob
  <2>3. \A d \in Event : d # run[w].job => inJobs'[d] = inJobs[d]
    BY <2>1, <2>2, <1>t, QueueEffect
  <2> QED
    BY <2>1, <2>3, <1>t DEF HoldsLocks
<1>4. ASSUME NEW w \in Worker, CrashWorker(w) PROVE HoldsLocks'
  <2>1. /\ run'[w].pc = "idle" /\ UNCHANGED inJobs
        /\ \A v \in Worker : v # w => run'[v] = run[v]
    BY <1>4, <1>t DEF CrashWorker, Idle
  <2> QED
    BY <2>1 DEF HoldsLocks
<1>5. ASSUME NEW e \in Event, HandleWebhook(e) \/ QueueEvent(e) PROVE HoldsLocks'
  <2>1. /\ UNCHANGED run /\ inJobs'[e].holder = inJobs[e].holder
        /\ \A d \in Event : d # e => inJobs'[d] = inJobs[d]
    BY <1>5, <1>t, QueueEffect DEF HandleWebhook, QueueEvent
  <2> QED
    BY <2>1, <1>t DEF HoldsLocks
<1>6. ASSUME NEW e \in Event, ExpireLock(e) PROVE HoldsLocks'
  <2>1. /\ UNCHANGED run /\ Abandoned(e)
        /\ \A d \in Event : d # e => inJobs'[d] = inJobs[d]
    BY <1>6, <1>t, QueueEffect DEF ExpireLock, Apart
  <2>2. \A w \in Worker : ~At(w, "idle") => run[w].job # e
    BY <2>1 DEF HoldsLocks, Abandoned
  <2> QED
    BY <2>1, <2>2, <1>t DEF HoldsLocks
<1>7. CASE UNCHANGED InboundAll
  BY <1>7 DEF InboundAll, inboundVars, HoldsLocks
<1>8. ~StaffWrites /\ \A c \in Channel : ~DeleteChannel(c)
  BY DEF Apart, StaffWrites, DeleteChannel
<1> QED
  BY <1>1, <1>2, <1>3, <1>4, <1>5, <1>6, <1>7, <1>8
     DEF InboundStep, InboundNext, WorkerStep, Progress

\* What a handler found, or did not find, no other handler changes.
LEMMA NotRejectedStep ==
  ASSUME Apart, TypeInv, TypeInv', HoldsLocks, [InboundStep]_InboundAll,
         \A w \in Worker : NotRejected(w)
  PROVE  \A w \in Worker : NotRejected(w)'
<1> SUFFICES ASSUME NEW w \in Worker PROVE NotRejected(w)'
  OBVIOUS
<1> USE DEF At
<1>t. /\ run \in [Worker -> Run] /\ tickets \in [Thread -> TicketRow]
      /\ \A v \in Worker : ~At(v, "idle") => run[v].job \in Event /\ ThreadIn(v) \in Thread
  BY InboundAssumption
     DEF TypeInv, TypeInvariant, InboundTypeOK, StoreTypeOK, Busy, ThreadIn
<1>d. ~StaffWrites /\ \A c \in Channel : ~DeleteChannel(c)
  BY DEF Apart, StaffWrites, DeleteChannel
<1>1. CASE ~WorkerStep(w) /\ ~CrashWorker(w)
  <2>u. run'[w] = run[w]
    BY <1>1, RunMoves
  <2> SUFFICES ASSUME ~At(w, "idle") PROVE NotRejected(w)'
    BY <2>u DEF NotRejected
  <2> DEFINE t == ThreadIn(w)
  <2>0. t \in Thread /\ ThreadIn(w)' = t
    BY <2>u, <1>t DEF ThreadIn
  \* Another handler is on another job, hence in another conversation.
  <2>1. ASSUME NEW v \in Worker, v # w, ~At(v, "idle") PROVE ThreadIn(v) # t
    BY <2>1, <1>t DEF HoldsLocks, ThreadIn, Apart
  <2>2. ASSUME NEW v \in Worker, WorkerStep(v), v # w
        PROVE  (t \in customers' => t \in customers) /\ tickets'[t] = tickets[t]
    <3>1. CASE CreateCustomer(v)
      BY <3>1, <2>1, <2>2 DEF CreateCustomer, InsertCustomer
    <3>2. CASE CreateTicket(v)
      BY <3>2, <2>0, <2>1, <2>2, <1>t DEF CreateTicket, InsertTicket
    <3>3. CASE LinkTicket(v)
      BY <3>3, <2>0, <2>1, <2>2, <1>t DEF LinkTicket, LinkCustomer
    <3>4. CASE ReopenTicket(v)
      BY <3>4, <2>0, <2>1, <2>2, <1>t DEF ReopenTicket, SetStatus
    <3>5. CASE \/ \E e \in Event : StartJob(v, e)
               \/ FindChannel(v) \/ FindCustomer(v) \/ TouchCustomer(v) \/ FindTicket(v)
               \/ CreateMessage(v) \/ CreateNotification(v) \/ CompleteJob(v) \/ FailJob(v)
      BY <3>5 DEF StartJob, FindChannel, FindCustomer, TouchCustomer, FindTicket,
                  CreateMessage, CreateNotification, CompleteJob, FailJob, storeVars
    <3> QED
      BY <2>2, <3>1, <3>2, <3>3, <3>4, <3>5 DEF WorkerStep
  <2>3. ASSUME \/ \E v \in Worker : CrashWorker(v)
               \/ \E e \in Event : HandleWebhook(e) \/ QueueEvent(e) \/ ExpireLock(e)
               \/ UNCHANGED InboundAll
        PROVE  (t \in customers' => t \in customers) /\ tickets'[t] = tickets[t]
    BY <2>3 DEF CrashWorker, HandleWebhook, QueueEvent, ExpireLock, InboundAll, storeVars
  <2>4. (t \in customers' => t \in customers) /\ tickets'[t] = tickets[t]
    BY <1>1, <2>2, <2>3, <1>d DEF InboundStep, InboundNext
  <2> QED
    BY <2>u, <2>0, <2>4 DEF NotRejected, HasTicket
<1>2. CASE WorkerStep(w) \/ CrashWorker(w)
  <2>1. ASSUME \/ \E e \in Event : StartJob(w, e)
               \/ FindChannel(w) \/ CreateCustomer(w) \/ TouchCustomer(w)
               \/ CompleteJob(w) \/ FailJob(w) \/ CrashWorker(w)
        PROVE  NotRejected(w)'
    <3>1. run'[w].pc \in {"channel", "customer", "ticket", "idle"}
      BY <2>1, <1>t DEF StartJob, FindChannel, CreateCustomer, TouchCustomer,
                        CompleteJob, FailJob, CrashWorker, Goto, Idle, Run
    <3> QED
      BY <3>1 DEF NotRejected
  <2>2. ASSUME \/ FindCustomer(w) \/ FindTicket(w) \/ CreateTicket(w) \/ LinkTicket(w)
               \/ CreateMessage(w) \/ CreateNotification(w) \/ ReopenTicket(w)
        PROVE  NotRejected(w)'
    <3>1. ThreadIn(w)' = ThreadIn(w) /\ ThreadIn(w) \in Thread /\ tickets[ThreadIn(w)] \in TicketRow
      BY <2>2, <1>t, ProgressKeepsJob DEF SameJob, ThreadIn, Progress
    <3> USE <1>t, <3>1 DEF Goto, NotRejected, HasTicket, Run
    <3>2. CASE FindCustomer(w)
      BY <3>2 DEF FindCustomer, storeVars
    <3>3. CASE FindTicket(w)
      <4> DEFINE row == tickets[ThreadIn(w)]
                 next == CASE row.status = "NONE" -> "newTicket"
                           [] row.status # "NONE" /\ row.linked -> "message"
                           [] row.status # "NONE" /\ ~row.linked -> "link"
      <4>1. run' = [run EXCEPT ![w] = [@ EXCEPT !.seen = row.status, !.pc = next]]
            /\ UNCHANGED storeVars
        BY <3>3 DEF FindTicket
      <4>2. /\ next \in {"newTicket", "message", "link"}
            /\ next = "newTicket" <=> row.status = "NONE"
        BY DEF TicketRow
      <4>3. run'[w].pc = next
        <5> HIDE DEF row, next
        <5> QED BY <4>1
      <4>4. HasTicket(ThreadIn(w))' <=> row.status # "NONE"
        BY <4>1 DEF storeVars
      <4> HIDE DEF next, row
      <4> QED
        BY <4>2, <4>3, <4>4
    <3>4. CASE CreateTicket(w)
      BY <3>4 DEF CreateTicket, InsertTicket
    <3>5. CASE LinkTicket(w)
      BY <3>5 DEF LinkTicket, LinkCustomer, TicketRow
    <3>6. CASE CreateMessage(w)
      BY <3>6 DEF CreateMessage, storeVars
    <3>7. CASE CreateNotification(w)
      BY <3>7 DEF CreateNotification, storeVars
    <3>8. CASE ReopenTicket(w)
      BY <3>8 DEF ReopenTicket
    <3> QED
      BY <2>2, <3>2, <3>3, <3>4, <3>5, <3>6, <3>7, <3>8
  <2> QED
    BY <1>2, <2>1, <2>2 DEF WorkerStep
<1> QED
  BY <1>1, <1>2

\* So no handler throws, and a job fails only by its last stall.
LEMMA LostStep ==
  ASSUME Apart, TypeInv, ApartInv, LocksFit, [InboundStep]_InboundAll
  PROVE  channels' = Channel /\ LostOnlyByStalls'
<1>t. InQ!TypeOK /\ NoWorker \notin Worker
  BY InboundAssumption DEF TypeInv, TypeInvariant, InboundTypeOK
<1>d. ~StaffWrites /\ \A c \in Channel : ~DeleteChannel(c)
  BY DEF Apart, StaffWrites, DeleteChannel
<1>f. ASSUME NEW w \in Worker PROVE ~FailJob(w)
  <2>1. ~At(w, "idle") => ChannelExists(ThreadIn(w))
    BY StoreAssumption, InboundAssumption
       DEF ApartInv, ChannelExists, ThreadIn, TypeInv, Busy
  <2>2. ~Rejected(w)
    BY <2>1 DEF Rejected, ApartInv, NotRejected, CanInsertTicket, At
  <2> QED
    BY <2>2 DEF FailJob, Apart
<1>1. channels' = Channel
  BY <1>d, StoreGrows DEF Grows, ApartInv
<1>2. ASSUME NEW e \in Event, inJobs'[e].st = "failed" PROVE inJobs'[e].stalls = MaxStalled
  <2> DEFINE Kept == inJobs'[e] = inJobs[e]
             Lost == inJobs[e].st = "failed" => inJobs[e].stalls = MaxStalled
  <2>0. Lost /\ (inJobs[e].st = "failed" => inJobs[e].holder = NoWorker)
    BY DEF ApartInv, LostOnlyByStalls, LocksFit
  <2>1. ASSUME NEW d \in Event, HandleWebhook(d) \/ QueueEvent(d) PROVE Kept
    BY <2>1, <1>2, <1>t, QueueEffect DEF HandleWebhook, QueueEvent
  <2>2. ASSUME NEW d \in Event, ExpireLock(d) PROVE Kept \/ inJobs'[e].stalls = MaxStalled
    BY <2>2, <1>2, <1>t, InboundAssumption DEF ExpireLock, InQ!Stall, InQ!TypeOK, InQ!JobRecord
  <2>3. ASSUME NEW w \in Worker, NEW d \in Event, StartJob(w, d) PROVE Kept
    BY <2>3, <1>2, <1>t, QueueEffect DEF StartJob
  <2>4. ASSUME NEW w \in Worker, CompleteJob(w) PROVE Kept
    <3>1. run[w].job \in Event /\ InQ!Finish(w, run[w].job, "done")
      BY <2>4 DEF CompleteJob, At, TypeInv, Busy
    <3> QED
      BY <3>1, <1>2, <1>t, QueueEffect
  <2>5. ASSUME NEW w \in Worker, Progress(w) \/ CrashWorker(w) PROVE Kept
    BY <2>5, ProgressKeepsJob DEF CrashWorker
  <2>6. UNCHANGED InboundAll => Kept
    BY DEF InboundAll, inboundVars
  <2>7. Kept \/ inJobs'[e].stalls = MaxStalled
    BY <2>1, <2>2, <2>3, <2>4, <2>5, <2>6, <1>d, <1>f
       DEF InboundStep, InboundNext, WorkerStep, Progress
  <2> QED
    BY <2>0, <2>7, <1>2
<1> QED
  BY <1>1, <1>2 DEF LostOnlyByStalls

\* While the conversations of the events being handled are apart and nothing but
\* crashes happens, the handler meets no constraint it would throw upon: what a
\* crash left behind is what the next delivery expects.
THEOREM OnlyStallsLose ==
  ASSUME Apart
  PROVE  InboundSpec => []LostOnlyByStalls
<1> DEFINE Inv == TypeInv /\ InboundInv /\ ApartInv
<1>1. StoreInit /\ InboundInit => Inv
  BY TypeInit, InboundInvInit, ApartInit
<1>2. Inv /\ [InboundStep]_InboundAll => Inv'
  <2> SUFFICES ASSUME Inv, [InboundStep]_InboundAll PROVE Inv'
    OBVIOUS
  <2>1. TypeInv' /\ InboundInv'
    BY TypeStep, InboundInvStep
  <2>2. HoldsLocks' /\ (\A w \in Worker : NotRejected(w)') /\ channels' = Channel
        /\ LostOnlyByStalls'
    BY <2>1, LocksHeld, NotRejectedStep, LostStep DEF InboundInv, DeliveryInv, ApartInv
  <2> QED
    BY <2>1, <2>2 DEF ApartInv
<1>3. Inv => LostOnlyByStalls
  BY DEF ApartInv
<1> HIDE DEF Inv
<1> QED
  BY <1>1, <1>2, <1>3, PTL DEF InboundSpec, InboundAllInit
=============================================================================
