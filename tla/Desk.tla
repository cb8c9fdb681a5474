-------------------------------- MODULE Desk --------------------------------
(***************************************************************************)
(* TicketsService: the calls of the support staff on tickets.  Every call  *)
(* first reads (the requester's role, the ticket, the assignee) and checks *)
(* what it read, then writes by ticket id alone, so whatever happens       *)
(* between the two goes unnoticed.  call[p] is one request the API process *)
(* is serving.                                                             *)
(***************************************************************************)
EXTENDS Store

CONSTANTS
  Admins,    \* users whose role is ADMIN; the others are AGENT
  Request,   \* requests served at the same time
  Keep       \* a field that a patch leaves undefined

ASSUME DeskAssumption == /\ Admins \subseteq User
                         /\ Keep \notin User \cup {NoUser} \cup TicketStatus

VARIABLE call

\* What a request is about to write; "free" is a request slot not in use.  An
\* update may leave fields as they are, an insert gives a value to each.
Patch == [status : TicketStatus \cup {Keep}, assignee : User \cup {NoUser, Keep}]

Free == [step |-> "free"]

Calls ==
  {Free}
  \cup [step : {"update"}, by : User, thread : Thread, patch : Patch]
  \cup [step : {"insert"}, by : User, thread : Thread,
        patch : [status : TicketStatus, assignee : User \cup {NoUser}]]

DeskTypeOK == call \in [Request -> Calls]

DeskInit == call = [p \in Request |-> Free]

IsFree(p) == call[p].step = "free"

\* Agents may touch the tickets assigned to them, admins every ticket.
MayEdit(u, t) == u \in Admins \/ tickets[t].assignee = u

-----------------------------------------------------------------------------
(* The reads and checks of each call; a failed check answers 403 or 404.   *)

Begin(p, step, u, t, patch) ==
  /\ IsFree(p)
  /\ call' = [call EXCEPT ![p] = [step |-> step, by |-> u, thread |-> t, patch |-> patch]]
  /\ UNCHANGED storeVars

\* createTicket (admins only): the channel must exist.
BeginCreate(p, u, t, status, assignee) ==
  /\ u \in Admins
  /\ ChannelExists(t)
  /\ Begin(p, "insert", u, t, [status |-> status, assignee |-> assignee])

BeginUpdate(p, u, t, patch) ==
  /\ HasTicket(t)
  /\ MayEdit(u, t)
  /\ Begin(p, "update", u, t, patch)

BeginClose(p, u, t) ==
  /\ HasTicket(t)
  /\ MayEdit(u, t)
  /\ Begin(p, "update", u, t, [status |-> "CLOSED", assignee |-> Keep])

\* assignTicket (admins only) checks the assignee but never reads the ticket.
BeginAssign(p, u, t, assignee) ==
  /\ u \in Admins
  /\ Begin(p, "update", u, t, [status |-> Keep, assignee |-> assignee])

-----------------------------------------------------------------------------
(* The write that ends the call.                                           *)

WriteInsert(p) ==
  /\ call[p].step = "insert"
  /\ InsertTicket(call[p].thread,
                  [status |-> call[p].patch.status, linked |-> FALSE,
                   assignee |-> call[p].patch.assignee])
  /\ call' = [call EXCEPT ![p] = Free]
  /\ UNCHANGED <<channels, customers>>

\* Mutant of Patched: a status left undefined overwrites the one there is.
PatchedBlindly(row, patch) ==
  [row EXCEPT !.status = patch.status,
              !.assignee = IF patch.assignee = Keep THEN @ ELSE patch.assignee]

Patched(row, patch) ==
  [row EXCEPT !.status = IF patch.status = Keep THEN @ ELSE patch.status,
              !.assignee = IF patch.assignee = Keep THEN @ ELSE patch.assignee]

WriteUpdate(p) ==
  /\ call[p].step = "update"
  /\ HasTicket(call[p].thread)
  /\ tickets' = [tickets EXCEPT ![call[p].thread] = Patched(@, call[p].patch)]
  /\ call' = [call EXCEPT ![p] = Free]
  /\ UNCHANGED <<channels, customers>>

\* The write throws: the thread has a ticket by now, or the row is gone.
WriteFails(p) ==
  /\ \/ call[p].step = "insert" /\ ~CanInsertTicket(call[p].thread)
     \/ call[p].step = "update" /\ ~HasTicket(call[p].thread)
  /\ call' = [call EXCEPT ![p] = Free]
  /\ UNCHANGED storeVars

DeskNext ==
  \E p \in Request :
    \/ \E u \in User, t \in Thread :
         \/ \E s \in TicketStatus, a \in User \cup {NoUser} : BeginCreate(p, u, t, s, a)
         \/ \E patch \in Patch : BeginUpdate(p, u, t, patch)
         \/ BeginClose(p, u, t)
         \/ \E a \in User : BeginAssign(p, u, t, a)
    \/ WriteInsert(p)
    \/ WriteUpdate(p)
    \/ WriteFails(p)

deskVars == <<storeVars, call>>

DeskAllInit == StoreInit /\ DeskInit

\* Several requests are served side by side, and a channel may be deleted.
DeskSpec ==
  DeskAllInit /\ [][DeskNext \/ \E c \in Channel : DropChannel(c) /\ UNCHANGED call]_deskVars

-----------------------------------------------------------------------------
\* Agents only ever change tickets that are assigned to them: whoever writes
\* may edit the ticket when the write happens, not just when it was checked.
AgentsEditOwnTickets ==
  [][\A p \in Request : WriteUpdate(p) => MayEdit(call[p].by, call[p].thread)]_deskVars
=============================================================================
