------------------------------ MODULE Accounts ------------------------------
(***************************************************************************)
(* Organisations, their users and how people get in and out: AuthService   *)
(* (signup, login, refresh, acceptInvite) and UsersService (sendInvite,    *)
(* deactivateUser), one action per call to the database or to the mail     *)
(* server.  Requests are served side by side and none of these methods     *)
(* uses a transaction, so what one of them checked may be stale when it    *)
(* writes.  A Person is an e-mail address, the unique key of model User.   *)
(***************************************************************************)
EXTENDS Naturals

CONSTANTS
  Person,
  Nobody,
  Org,        \* organisations that may be founded; their number is a bound
  NoOrg,
  Request,    \* requests served at the same time
  Faults      \* which of "api" (process or database gone) and "mail" may happen

ASSUME AccountsAssumption == /\ Nobody \notin Person
                             /\ NoOrg \notin Org
                             /\ Faults \subseteq {"api", "mail"}

VARIABLES
  orgs,       \* who signed up for each organisation, Nobody if it does not exist
  users,      \* the account of each person
  invites,    \* the row of table Invite for an organisation and a person
  mails,      \* how often the link of an invite was mailed
  access,     \* who holds an access token that has not expired
  refresh,    \* who holds a refresh token that has not expired
  call,       \* where each request stands
  cut         \* history, read by no action: organisations whose signup ended
              \* before it created the founder's account, or whose last active
              \* member was deactivated by somebody who was none himself

accountsVars == <<orgs, users, invites, mails, access, refresh, call, cut>>

tokens == <<access, refresh>>

invitations == <<invites, mails>>

Role == {"ADMIN", "AGENT"}

Account == [org : Org, role : Role, active : BOOLEAN]

NoAccount == [org |-> NoOrg, role |-> "AGENT", active |-> FALSE]

Key == Org \X Person       \* the unique key (orgId, email) of model Invite

\* expiresAt matters only while the invite was not accepted.
Invite == [st : {"none", "pending", "expired", "accepted"}, role : Role]

NoInvite == [st |-> "none", role |-> "AGENT"]

Pc == {"free", "org", "user", "tokens", "sign", "lookup", "create", "mark",
       "insert", "mail", "deactivate"}

\* `by` is the admin who deactivates `who`.
Call == [pc : Pc, who : Person \cup {Nobody}, org : Org \cup {NoOrg}, role : Role,
         by : Person \cup {Nobody}]

Free == [pc |-> "free", who |-> Nobody, org |-> NoOrg, role |-> "AGENT", by |-> Nobody]

AccountsTypeOK ==
  /\ orgs \in [Org -> Person \cup {Nobody}]
  /\ users \in [Person -> Account \cup {NoAccount}]
  /\ invites \in [Key -> Invite]
  /\ mails \in [Key -> Nat]
  /\ access \subseteq Person
  /\ refresh \subseteq Person
  /\ call \in [Request -> Call]
  /\ cut \subseteq Org

AccountsInit ==
  /\ orgs = [o \in Org |-> Nobody]
  /\ users = [p \in Person |-> NoAccount]
  /\ invites = [k \in Key |-> NoInvite]
  /\ mails = [k \in Key |-> 0]
  /\ access = {}
  /\ refresh = {}
  /\ call = [q \in Request |-> Free]
  /\ cut = {}

HasAccount(p) == users[p] # NoAccount

\* Who can log in to an organisation.
Enters(p, o) == users[p].active /\ users[p].org = o

At(q, pc) == call[q].pc = pc

\* A request that passed its first check.
Begin(q, pc, p, o, role) ==
  /\ At(q, "free")
  /\ call' = [call EXCEPT ![q] = [Free EXCEPT !.pc = pc, !.who = p, !.org = o, !.role = role]]

Goto(q, pc) == call' = [call EXCEPT ![q].pc = pc]

Answer(q) == call' = [call EXCEPT ![q] = Free]

KeyOf(q) == <<call[q].org, call[q].who>>

-----------------------------------------------------------------------------
(* AuthService.signup.                                                     *)

SignupCheck(q, p) ==
  /\ ~HasAccount(p)
  /\ Begin(q, "org", p, NoOrg, "ADMIN")
  /\ UNCHANGED <<cut, orgs, users, invitations, tokens>>

\* Mutant of SignupOrg: the account of the founder is forgotten.
SignupOrgAlone(q, o) ==
  /\ At(q, "org")
  /\ orgs[o] = Nobody
  /\ orgs' = [orgs EXCEPT ![o] = call[q].who]
  /\ call' = [call EXCEPT ![q] = [@ EXCEPT !.pc = "tokens", !.org = o]]
  /\ UNCHANGED <<cut, users, invitations, tokens>>

SignupOrg(q, o) ==
  /\ At(q, "org")
  /\ orgs[o] = Nobody
  /\ orgs' = [orgs EXCEPT ![o] = call[q].who]
  /\ call' = [call EXCEPT ![q] = [@ EXCEPT !.pc = "user", !.org = o]]
  /\ UNCHANGED <<cut, users, invitations, tokens>>

\* user.create, of signup and of acceptInvite alike: the e-mail is unique over
\* all organisations.
InsertUser(q) ==
  /\ ~HasAccount(call[q].who)
  /\ users' = [users EXCEPT ![call[q].who] =
                 [org |-> call[q].org, role |-> call[q].role, active |-> TRUE]]

\* Mutant of SignupUser: the account is not put in the new organisation.
SignupUserWithoutOrg(q) ==
  /\ At(q, "user")
  /\ ~HasAccount(call[q].who)
  /\ users' = [users EXCEPT ![call[q].who] = [org |-> NoOrg, role |-> "ADMIN", active |-> TRUE]]
  /\ Goto(q, "tokens")
  /\ UNCHANGED <<cut, orgs, invitations, tokens>>

SignupUser(q) ==
  /\ At(q, "user")
  /\ InsertUser(q)
  /\ Goto(q, "tokens")
  /\ UNCHANGED <<cut, orgs, invitations, tokens>>

\* generateTokens, the end of signup, login and acceptInvite.
IssueTokens(q) ==
  /\ At(q, "tokens")
  /\ access' = access \cup {call[q].who}
  /\ refresh' = refresh \cup {call[q].who}
  /\ Answer(q)
  /\ UNCHANGED <<cut, orgs, users, invitations>>

-----------------------------------------------------------------------------
(* login and refreshAccessToken: both read the user, then sign.            *)

\* Mutant of LoginRead: isActive is not looked at.
LoginReadAnyone(q, p) ==
  /\ HasAccount(p)
  /\ Begin(q, "tokens", p, users[p].org, users[p].role)
  /\ UNCHANGED <<cut, orgs, users, invitations, tokens>>

LoginRead(q, p) ==
  /\ users[p].active
  /\ Begin(q, "tokens", p, users[p].org, users[p].role)
  /\ UNCHANGED <<cut, orgs, users, invitations, tokens>>

RefreshRead(q, p) ==
  /\ p \in refresh
  /\ users[p].active
  /\ Begin(q, "sign", p, users[p].org, users[p].role)
  /\ UNCHANGED <<cut, orgs, users, invitations, tokens>>

SignAccess(q) ==
  /\ At(q, "sign")
  /\ access' = access \cup {call[q].who}
  /\ Answer(q)
  /\ UNCHANGED <<cut, orgs, users, invitations, refresh>>

-----------------------------------------------------------------------------
(* AuthService.acceptInvite: the token is in the mail, and in the answer    *)
(* of sendInvite, which is given after the mail.                           *)

\* Mutant of AcceptRead: the invite is marked before the account is created.
AcceptReadAndMark(q, o, p) ==
  /\ mails[<<o, p>>] > 0
  /\ invites[<<o, p>>].st = "pending"
  /\ invites' = [invites EXCEPT ![<<o, p>>].st = "accepted"]
  /\ Begin(q, "lookup", p, o, invites[<<o, p>>].role)
  /\ UNCHANGED <<cut, orgs, users, mails, tokens>>

AcceptRead(q, o, p) ==
  /\ mails[<<o, p>>] > 0
  /\ invites[<<o, p>>].st = "pending"
  /\ Begin(q, "lookup", p, o, invites[<<o, p>>].role)
  /\ UNCHANGED <<cut, orgs, users, invitations, tokens>>

\* Only an account in the same organisation is looked for.
AcceptLookup(q) ==
  /\ At(q, "lookup")
  /\ IF users[call[q].who].org = call[q].org THEN Answer(q) ELSE Goto(q, "create")
  /\ UNCHANGED <<cut, orgs, users, invitations, tokens>>

\* Mutant of CreateMember: everybody becomes an admin.
CreateAdmin(q) ==
  /\ At(q, "create")
  /\ ~HasAccount(call[q].who)
  /\ users' = [users EXCEPT ![call[q].who] =
                 [org |-> call[q].org, role |-> "ADMIN", active |-> TRUE]]
  /\ Goto(q, "mark")
  /\ UNCHANGED <<cut, orgs, invitations, tokens>>

CreateMember(q) ==
  /\ At(q, "create")
  /\ InsertUser(q)
  /\ Goto(q, "mark")
  /\ UNCHANGED <<cut, orgs, invitations, tokens>>

MarkAccepted(q) ==
  /\ At(q, "mark")
  /\ invites' = [invites EXCEPT ![KeyOf(q)].st = "accepted"]
  /\ Goto(q, "tokens")
  /\ UNCHANGED <<cut, orgs, users, mails, tokens>>

-----------------------------------------------------------------------------
(* UsersService.  RbacGuard looks at the role in the caller's token, which  *)
(* only an access token has, the method at the caller's row; neither at    *)
(* isActive.                                                               *)

ActsAsAdmin(by, o) == by \in access /\ users[by].org = o /\ users[by].role = "ADMIN"

InviteCheck(q, by, o, p, role) ==
  /\ ActsAsAdmin(by, o)
  /\ invites[<<o, p>>].st # "pending"
  /\ Begin(q, "insert", p, o, role)
  /\ UNCHANGED <<cut, orgs, users, invitations, tokens>>

\* Mutant of InsertInvite: without the unique key.
InsertInviteAnyway(q) ==
  /\ At(q, "insert")
  /\ invites' = [invites EXCEPT ![KeyOf(q)] = [st |-> "pending", role |-> call[q].role]]
  /\ Goto(q, "mail")
  /\ mails[KeyOf(q)] < 2
  /\ UNCHANGED <<cut, orgs, users, mails, tokens>>

\* invite.create breaks the unique key while there is any row, an expired or
\* an accepted one too.
InsertInvite(q) ==
  /\ At(q, "insert")
  /\ invites[KeyOf(q)].st = "none"
  /\ invites' = [invites EXCEPT ![KeyOf(q)] = [st |-> "pending", role |-> call[q].role]]
  /\ Goto(q, "mail")
  /\ UNCHANGED <<cut, orgs, users, mails, tokens>>

\* sendInviteEmail; when it throws the row stays.
MailInvite(q) ==
  /\ At(q, "mail")
  /\ \/ mails' = [mails EXCEPT ![KeyOf(q)] = @ + 1]
     \/ "mail" \in Faults /\ UNCHANGED mails
  /\ Answer(q)
  /\ UNCHANGED <<cut, orgs, users, invites, tokens>>

\* A deactivation of p that passed its checks.
BeginDeactivate(q, by, p) ==
  /\ At(q, "free")
  /\ call' = [call EXCEPT ![q] = [Free EXCEPT !.pc = "deactivate", !.who = p, !.by = by]]
  /\ UNCHANGED <<cut, orgs, users, invitations, tokens>>

\* Mutant of DeactivateCheck: one may deactivate oneself.
DeactivateCheckAnyone(q, by, p) ==
  /\ \E o \in Org : ActsAsAdmin(by, o)
  /\ BeginDeactivate(q, by, p)

\* The caller may deactivate any user of the database but himself; the update
\* is by user id alone.
DeactivateCheck(q, by, p) ==
  /\ \E o \in Org : ActsAsAdmin(by, o)
  /\ by # p
  /\ BeginDeactivate(q, by, p)

\* The organisation loses its last active member by an outsider: by an admin of
\* it who is deactivated himself (his token still works, and the method looks at
\* his role only), or by one of another organisation.
CutsOff(by, p) ==
  LET o == users[p].org IN
    /\ Enters(p, o) /\ ~Enters(by, o)
    /\ \A other \in Person \ {p} : ~Enters(other, o)

DeactivateWrite(q) ==
  /\ At(q, "deactivate")
  /\ HasAccount(call[q].who)
  /\ users' = [users EXCEPT ![call[q].who].active = FALSE]
  /\ cut' = IF CutsOff(call[q].by, call[q].who) THEN cut \cup {users[call[q].who].org} ELSE cut
  /\ Answer(q)
  /\ UNCHANGED <<orgs, invitations, tokens>>

-----------------------------------------------------------------------------
\* The write a request is about to make breaks a constraint.
Rejected(q) ==
  \/ call[q].pc \in {"user", "create"} /\ HasAccount(call[q].who)
  \/ At(q, "insert") /\ invites[KeyOf(q)].st # "none"
  \/ At(q, "deactivate") /\ ~HasAccount(call[q].who)

\* It throws, or the process or the database is gone: the request ends there
\* and what it wrote stays.
FailCall(q) ==
  /\ Rejected(q) \/ ("api" \in Faults /\ ~At(q, "free"))
  /\ Answer(q)
  /\ cut' = IF At(q, "user") THEN cut \cup {call[q].org} ELSE cut
  /\ UNCHANGED <<orgs, users, invitations, tokens>>

ExpireInvite(o, p) ==
  /\ invites[<<o, p>>].st = "pending"
  /\ invites' = [invites EXCEPT ![<<o, p>>].st = "expired"]
  /\ UNCHANGED <<cut, orgs, users, mails, tokens, call>>

ExpireAccess(p) ==
  /\ p \in access
  /\ access' = access \ {p}
  /\ UNCHANGED <<cut, orgs, users, invitations, refresh, call>>

ExpireRefresh(p) ==
  /\ p \in refresh
  /\ refresh' = refresh \ {p}
  /\ UNCHANGED <<cut, orgs, users, invitations, access, call>>

\* What a request does once it passed its first check.
CallStep(q) ==
  \/ \E o \in Org : SignupOrg(q, o)
  \/ SignupUser(q) \/ IssueTokens(q) \/ SignAccess(q)
  \/ AcceptLookup(q) \/ CreateMember(q) \/ MarkAccepted(q)
  \/ InsertInvite(q) \/ MailInvite(q) \/ DeactivateWrite(q) \/ FailCall(q)

NewCall(q) ==
  \E p \in Person :
    \/ SignupCheck(q, p) \/ LoginRead(q, p) \/ RefreshRead(q, p)
    \/ \E o \in Org : AcceptRead(q, o, p)
    \/ \E by \in Person : \/ DeactivateCheck(q, by, p)
                          \/ \E o \in Org, role \in Role : InviteCheck(q, by, o, p, role)

AccountsNext ==
  \/ \E q \in Request : NewCall(q) \/ CallStep(q)
  \/ \E p \in Person : ExpireAccess(p) \/ ExpireRefresh(p) \/ \E o \in Org : ExpireInvite(o, p)

AccountsSpec == AccountsInit /\ [][AccountsNext]_accountsVars

\* Requests are carried on with, access tokens expire (after 15 minutes) and so
\* do refresh tokens (after 30 days).  Nobody is obliged to make a request.
AccountsFairness ==
  /\ \A q \in Request : WF_accountsVars(CallStep(q))
  /\ \A p \in Person : WF_accountsVars(ExpireAccess(p)) /\ WF_accountsVars(ExpireRefresh(p))

FairAccounts == AccountsSpec /\ AccountsFairness

-----------------------------------------------------------------------------
(* Properties.                                                             *)

\* Everybody who has an account signed up for the organisation and is its
\* admin, or came by an invite of that organisation with the role it gave,
\* whichever signups and invitations of the same person raced.
MembersCameIn ==
  \A p \in Person : HasAccount(p) =>
    LET u == users[p] IN
      \/ orgs[u.org] = p /\ u.role = "ADMIN"
      \/ mails[<<u.org, p>>] > 0 /\ invites[<<u.org, p>>].st # "none"
         /\ invites[<<u.org, p>>].role = u.role

\* An organisation has an active member, who can log in.  If it has none, its
\* founder's account is about to be created; or it could not be, for the API went
\* down or he had an account by then (he signed up twice at once, or accepted an
\* invite meanwhile); or its last active member was deactivated by somebody who
\* was no active member himself, as when two admins deactivate each other, at
\* once or one after the other.  Nothing else leaves an organisation that nobody
\* can enter.
OrgCanBeEntered ==
  \A o \in Org : orgs[o] # Nobody =>
    \/ \E p \in Person : Enters(p, o)
    \/ \E q \in Request : At(q, "user") /\ call[q].org = o
    \/ o \in cut

\* An invite marked accepted has brought its person into the organisation: it
\* is never used up for nothing, not even by two clicks on the link at once.
AcceptedMeansMember ==
  \A k \in Key : invites[k].st = "accepted" => users[k[2]].org = k[1]

\* However many admins invite the same person at once, one link is mailed.
OneMailPerInvite == \A k \in Key : mails[k] <= 1

\* Whoever is deactivated is shut out in the end: the tokens that are out stay
\* valid, refresh tokens as bearer tokens too (JwtStrategy tells the two kinds
\* apart as little as it looks at isActive), and logins already past the check
\* still hand out new ones, but none for ever.
ShutOut ==
  \A p \in Person : HasAccount(p) /\ ~users[p].active ~> [](p \notin access \cup refresh)

-----------------------------------------------------------------------------
(* The inductive invariant behind the first three.                         *)

\* What a request remembers agrees with the tables whenever it writes.
CallsFit ==
  \A q \in Request :
    /\ ~At(q, "free") => call[q].who \in Person
    /\ call[q].pc \in {"user", "lookup", "create", "mark", "insert", "mail"} =>
         call[q].org \in Org
    /\ At(q, "org") => call[q].role = "ADMIN"
    /\ At(q, "user") => orgs[call[q].org] = call[q].who /\ call[q].role = "ADMIN"
    /\ call[q].pc \in {"lookup", "create", "mark"} =>
         /\ mails[KeyOf(q)] > 0
         /\ invites[KeyOf(q)].st # "none"
         /\ invites[KeyOf(q)].role = call[q].role
    /\ At(q, "mark") => users[call[q].who].org = call[q].org
    /\ At(q, "mail") => invites[KeyOf(q)].st # "none" /\ mails[KeyOf(q)] = 0
    /\ At(q, "deactivate") => call[q].by \in Person \ {call[q].who}

\* One request at a time is mailing a link.
OneMailer ==
  \A q, r \in Request : At(q, "mail") /\ At(r, "mail") /\ KeyOf(q) = KeyOf(r) => q = r

\* Only the link of an invite that exists was mailed.
MailsFit == \A k \in Key : mails[k] > 0 => invites[k].st # "none"

AccountsInv == /\ CallsFit
               /\ OneMailer
               /\ MailsFit
               /\ MembersCameIn
               /\ AcceptedMeansMember
               /\ OneMailPerInvite
=============================================================================
