------------------------------- MODULE Mailbox -------------------------------
(***************************************************************************)
(* The inbox view of one EMAIL channel (EmailService): a client pages      *)
(* through GET .../emails with fetchEmails, newest mails first.           *)
(*                                                                         *)
(* fetchEmails names the mails of a page by their sequence numbers in an   *)
(* IMAP session of its own, so what page 2 shows depends on what arrived   *)
(* and what was deleted since page 1.  getEmailDetails and markEmailAsRead *)
(* change nothing that the pages show.                                     *)
(***************************************************************************)
EXTENDS FiniteSets, Integers

CONSTANTS
  MaxMail,     \* bound: how many mails ever arrive
  Limit        \* page sizes a client asks for, each at least 1

Uid == 1..MaxMail

ASSUME MailboxAssumption ==
  /\ MaxMail \in Nat
  /\ Limit \subseteq Nat \ {0}

VARIABLES
  channel,   \* the channel's row is there
  inbox,     \* the uids of the mails in INBOX
  lastUid,   \* the server numbers its mails upwards and never reuses a number
  walk,      \* the client going from page to page, and the fetchEmails it waits for
  shown      \* history: on how many pages of the walk each mail was listed

mailVars == <<channel, inbox, lastUid, walk, shown>>

Walk == [pc : {"request", "connect", "fetch", "done", "failed"},
         page : 1..MaxMail + 1, limit : Limit,
         view : SUBSET Uid,    \* what the session numbers
         there : SUBSET Uid,   \* history: the mails of page 1's session
         from : 0..MaxMail]    \* history: the last uid at that moment

MailboxTypeOK ==
  /\ channel \in BOOLEAN
  /\ inbox \subseteq Uid /\ lastUid \in 0..MaxMail
  /\ walk \in Walk
  /\ shown \in [Uid -> 0..MaxMail + 1]

MailboxInit ==
  /\ channel = TRUE
  /\ inbox = {} /\ lastUid = 0
  /\ \E limit \in Limit :
       walk = [pc |-> "request", page |-> 1, limit |-> limit, view |-> {},
               there |-> {}, from |-> 0]
  /\ shown = [u \in Uid |-> 0]

-----------------------------------------------------------------------------
(* The mail server and its other clients.                                  *)

Arrive ==
  /\ lastUid < MaxMail
  /\ lastUid' = lastUid + 1
  /\ inbox' = inbox \cup {lastUid'}
  /\ UNCHANGED <<channel, walk, shown>>

Remove(u) ==
  /\ u \in inbox
  /\ inbox' = inbox \ {u}
  /\ UNCHANGED <<channel, lastUid, walk, shown>>

DeleteEmailChannel ==
  /\ channel
  /\ channel' = FALSE
  /\ UNCHANGED <<inbox, lastUid, walk, shown>>

-----------------------------------------------------------------------------
(* fetchEmails.                                                            *)

ListEmails ==
  /\ walk.pc = "request"
  /\ walk' = [walk EXCEPT !.pc = IF channel THEN "connect" ELSE "failed"]
  /\ UNCHANGED <<channel, inbox, lastUid, shown>>

\* connect, the lock on INBOX and STATUS: the numbering the FETCH will use.
OpenInbox ==
  /\ walk.pc = "connect"
  /\ walk' = [walk EXCEPT !.pc = "fetch", !.view = inbox,
                          !.there = IF walk.page = 1 THEN inbox ELSE @,
                          !.from = IF walk.page = 1 THEN lastUid ELSE @]
  /\ UNCHANGED <<channel, inbox, lastUid, shown>>

\* Mutant of PageOf: the + 1 of start is missing.
PageOneTooMany(total, page, limit) ==
  LET last == total - ((page - 1) * limit)
  IN  {i \in 1..total : last - limit <= i /\ i <= last}

\* The sequence numbers start..end of a page; a difference below 1 stands for
\* every number below 1.
PageOf(total, page, limit) ==
  LET last == total - ((page - 1) * limit)
      first == last - limit + 1
  IN  {i \in 1..total : first <= i /\ i <= last}

\* Mutant of HasNext: it says that there are mails at all.
HasMails(total, page, limit) == total > 0

\* Mutant of HasNext: the last page is rounded away.
HasFullNext(total, page, limit) == page < total \div limit

\* hasNext.
HasNext(total, page, limit) == page < (total + limit - 1) \div limit

\* A session numbers the mails from the oldest to the newest, and uids are
\* given out in that order.
Number(u, view) == Cardinality({v \in view : v <= u})

\* The mails of the page a fetchEmails is about to fetch.
Slice ==
  {u \in walk.view :
     Number(u, walk.view) \in PageOf(Cardinality(walk.view), walk.page, walk.limit)}

\* FETCH, and the response: a mail deleted since STATUS may be missing from it.
FetchPage ==
  /\ walk.pc = "fetch"
  /\ LET more == HasNext(Cardinality(walk.view), walk.page, walk.limit)
     IN  \E listed \in {l \in SUBSET Slice : Slice \cap inbox \subseteq l} :
           /\ shown' = [u \in Uid |-> shown[u] + IF u \in listed THEN 1 ELSE 0]
           /\ walk' = [walk EXCEPT !.pc = IF more THEN "request" ELSE "done",
                                   !.page = IF more THEN @ + 1 ELSE @,
                                   !.view = {}]
  /\ UNCHANGED <<channel, inbox, lastUid>>

\* connect, STATUS or FETCH throw: the client gets an error and goes no further.
FetchFails ==
  /\ walk.pc \in {"connect", "fetch"}
  /\ walk' = [walk EXCEPT !.pc = "failed", !.view = {}]
  /\ UNCHANGED <<channel, inbox, lastUid, shown>>

-----------------------------------------------------------------------------
MailboxNext ==
  \/ Arrive \/ DeleteEmailChannel \/ \E u \in Uid : Remove(u)
  \/ ListEmails \/ OpenInbox \/ FetchPage \/ FetchFails

MailboxSpec == MailboxInit /\ [][MailboxNext]_mailVars

-----------------------------------------------------------------------------
(* Properties.                                                             *)

\* The mails that were there or arrived since the walk began.
Known == walk.there \cup (walk.from + 1..lastUid)

Removed == Known \ inbox

\* A client that went through all the pages was shown every mail that was there
\* throughout, but for at most one per mail that was deleted meanwhile: only a
\* deletion moves mails into a page that was already passed, an arrival never
\* hides one.
SkipsAreDeletions ==
  walk.pc = "done" =>
    Cardinality({u \in walk.there \cap inbox : shown[u] = 0}) <= Cardinality(Removed)

\* The second, third, ... time that a mail was listed.
Repetitions == {d \in Uid \X (2..MaxMail + 1) : d[2] <= shown[d[1]]}

\* A mail is listed again only because one arrived: all the repetitions of a
\* walk together are no more than the mails that arrived since it began.
RepeatsAreArrivals == Cardinality(Repetitions) <= lastUid - walk.from

-----------------------------------------------------------------------------
(* The inductive invariants behind them.                                   *)

Walking == walk.pc \in {"request", "connect", "fetch"}

\* The pages say when a mail can have been listed, uids when it arrived, and
\* a session numbers what was there throughout.
MailInv ==
  /\ inbox \subseteq 1..lastUid
  /\ inbox \subseteq Known
  /\ walk.there \subseteq 1..walk.from /\ walk.from <= lastUid
  /\ \A u \in Uid : /\ shown[u] <= walk.page
                    /\ Walking => shown[u] <= walk.page - 1
                    /\ shown[u] > 0 => u <= lastUid
  /\ IF walk.pc = "fetch" THEN /\ walk.view \subseteq 1..lastUid
                               /\ walk.there \cap inbox \subseteq walk.view
                          ELSE walk.view = {}

\* How many of the mails are newer than u: where u stands in the list.
Newer(u, mails) == Cardinality({v \in mails : v > u})

\* Where the page begins and ends in the list.
First == (walk.page - 1) * walk.limit

Past == walk.page * walk.limit

\* The client will not be shown u by a later page, unless arrivals bring it there.
Passed(u) ==
  CASE walk.pc \in {"request", "connect"} -> Newer(u, inbox) < First
    [] walk.pc = "fetch" ->
         \/ Newer(u, walk.view) < First
         \/ Newer(u, walk.view) >= Past /\ Newer(u, inbox) < Past
    [] OTHER -> TRUE

Missed == {u \in walk.there \cap inbox : shown[u] = 0 /\ Passed(u)}

SkipInv == walk.pc # "failed" => Cardinality(Missed) <= Cardinality(Removed)

\* The mails that the page being fetched lists again, and those that a later
\* page lists again unless one is deleted.
Again == {u \in Slice : shown[u] > 0}

Later ==
  CASE walk.pc \in {"request", "connect"} ->
         {u \in inbox : shown[u] > 0 /\ Newer(u, inbox) >= First}
    [] walk.pc = "fetch" ->
         {u \in inbox : (shown[u] > 0 \/ u \in Slice) /\ Newer(u, inbox) >= Past}
    [] OTHER -> {}

RepeatInv ==
  Cardinality(Repetitions) + Cardinality(Again) + Cardinality(Later) <= lastUid - walk.from
=============================================================================
