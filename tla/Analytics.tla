------------------------------ MODULE Analytics ------------------------------
(***************************************************************************)
(* aggregateAnalytics, the handler of the analytics worker, for one        *)
(* organisation and one day: it counts the OPEN tickets of that day, then  *)
(* the CLOSED ones, reads the day's messages, and upserts one row.  The    *)
(* counts are queries of their own, so tickets may change in between, and  *)
(* two jobs for the same day may overlap.  The average response time is    *)
(* left out: what it is made of is read by one query.                      *)
(***************************************************************************)
EXTENDS FiniteSets, Integers

CONSTANTS
  Ticket,   \* tickets that are created on that day
  DayJob    \* jobs of the "analytics" queue for that day

ASSUME AnalyticsAssumption == IsFiniteSet(Ticket)

TicketStatus == {"OPEN", "PENDING", "CLOSED"}

VARIABLES
  tickets,   \* the status of each ticket, "NONE" while it has no row
  job,       \* what each handler is doing, and the counts it has so far
  row        \* the row of model TicketStatistics; openCount is -1 if there is none

statsVars == <<tickets, job, row>>

\* touched is history: the tickets that changed since the first of the counts.
Counts == [openCount : Nat \cup {-1}, closedCount : Nat, touched : SUBSET Ticket]

NoCounts == [openCount |-> -1, closedCount |-> 0, touched |-> {}]

Handler == [pc : {"count", "countClosed", "readMessages", "upsert", "ended"}, counts : Counts]

AnalyticsTypeOK ==
  /\ tickets \in [Ticket -> TicketStatus \cup {"NONE"}]
  /\ job \in [DayJob -> Handler]
  /\ row \in Counts

AnalyticsInit ==
  /\ tickets = [t \in Ticket |-> "NONE"]
  /\ job = [j \in DayJob |-> [pc |-> "count", counts |-> NoCounts]]
  /\ row = NoCounts

With(st) == Cardinality({t \in Ticket : tickets[t] = st})

Touch(counts, t) ==
  IF counts = NoCounts THEN counts ELSE [counts EXCEPT !.touched = @ \cup {t}]

-----------------------------------------------------------------------------
\* A ticket is created, changed by the staff or by an incoming message, or
\* deleted with its channel.
TicketChanges(t, st) ==
  /\ tickets[t] # st
  /\ tickets' = [tickets EXCEPT ![t] = st]
  /\ job' = [j \in DayJob |-> [job[j] EXCEPT !.counts = Touch(@, t)]]
  /\ row' = Touch(row, t)

CountOpen(j) ==
  /\ job[j].pc = "count"
  /\ job' = [job EXCEPT ![j] =
               [pc |-> "countClosed",
                counts |-> [NoCounts EXCEPT !.openCount = With("OPEN")]]]
  /\ UNCHANGED <<tickets, row>>

\* Mutant of CountClosed: everything that is not OPEN is counted.
CountNotOpen(j) ==
  /\ job[j].pc = "countClosed"
  /\ job' = [job EXCEPT ![j] =
               [@ EXCEPT !.pc = "readMessages",
                         !.counts.closedCount = With("CLOSED") + With("PENDING")]]
  /\ UNCHANGED <<tickets, row>>

CountClosed(j) ==
  /\ job[j].pc = "countClosed"
  /\ job' = [job EXCEPT ![j] =
               [@ EXCEPT !.pc = "readMessages", !.counts.closedCount = With("CLOSED")]]
  /\ UNCHANGED <<tickets, row>>

ReadMessages(j) ==
  /\ job[j].pc = "readMessages"
  /\ job' = [job EXCEPT ![j].pc = "upsert"]
  /\ UNCHANGED <<tickets, row>>

\* The row of the day is created or overwritten, whoever counted last.
Upsert(j) ==
  /\ job[j].pc = "upsert"
  /\ row' = job[j].counts
  /\ job' = [job EXCEPT ![j] = [pc |-> "ended", counts |-> NoCounts]]
  /\ UNCHANGED tickets

\* A query throws: the job is failed and its counts are lost.
Throw(j) ==
  /\ job[j].pc # "ended"
  /\ job' = [job EXCEPT ![j] = [pc |-> "ended", counts |-> NoCounts]]
  /\ UNCHANGED <<tickets, row>>

AnalyticsNext ==
  \/ \E t \in Ticket, st \in TicketStatus \cup {"NONE"} : TicketChanges(t, st)
  \/ \E j \in DayJob : CountOpen(j) \/ CountClosed(j) \/ ReadMessages(j) \/ Upsert(j) \/ Throw(j)

AnalyticsSpec == AnalyticsInit /\ [][AnalyticsNext]_statsVars

-----------------------------------------------------------------------------
Differ(a, b, n) == a - b <= n /\ b - a <= n

\* Each count in the statistics of a day is off by no more than the tickets
\* that changed since its job began to count, also when an older job overwrote
\* the row of a newer one; a ticket that stayed as it was is in the right count.
\* (The sum may be off by two for one ticket: closed between the counts it is in
\* both of them, reopened in neither.)
StatsAreRecent ==
  row.openCount >= 0 =>
    /\ Differ(row.openCount, With("OPEN"), Cardinality(row.touched))
    /\ Differ(row.closedCount, With("CLOSED"), Cardinality(row.touched))

-----------------------------------------------------------------------------
(* The inductive invariant behind it.                                      *)

\* A count is that of the tickets with the status but for some that changed.
Recent(n, st, touched) ==
  \E S \in SUBSET Ticket :
    /\ n = Cardinality(S)
    /\ S \ touched = {t \in Ticket : tickets[t] = st} \ touched

\* The counts of a handler, as far as it has got, and those of the row.
StatsInv ==
  /\ \A j \in DayJob :
       /\ job[j].pc \in {"count", "ended"} => job[j].counts = NoCounts
       /\ job[j].pc \in {"countClosed", "readMessages", "upsert"} =>
            Recent(job[j].counts.openCount, "OPEN", job[j].counts.touched)
       /\ job[j].pc \in {"readMessages", "upsert"} =>
            Recent(job[j].counts.closedCount, "CLOSED", job[j].counts.touched)
  /\ row # NoCounts => /\ Recent(row.openCount, "OPEN", row.touched)
                       /\ Recent(row.closedCount, "CLOSED", row.touched)
=============================================================================
