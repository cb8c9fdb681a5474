--------------------------- MODULE AccountsProofs ---------------------------
(***************************************************************************)
(* Proofs about Accounts, for any number of people, organisations and      *)
(* requests.                                                               *)
(***************************************************************************)
EXTENDS Accounts, TLAPS

\* A step that changes one request leaves every request well formed.
LEMMA CallType ==
  ASSUME call \in [Request -> Call], NEW q \in Request, NEW new \in Call,
         call' = [call EXCEPT ![q] = new]
  PROVE  call' \in [Request -> Call]
  OBVIOUS

LEMMA FreeIsCall == Free \in Call
  BY DEF Free, Call, Pc, Role

LEMMA GotoType ==
  ASSUME call \in [Request -> Call], NEW q \in Request, NEW pc \in Pc, Goto(q, pc)
  PROVE  call' \in [Request -> Call]
<1>1. [call[q] EXCEPT !.pc = pc] \in Call
  BY DEF Call
<1> QED
  BY <1>1, CallType DEF Goto

LEMMA AccountsTypeInit == AccountsInit => AccountsTypeOK
  BY FreeIsCall DEF AccountsInit, AccountsTypeOK, NoInvite, Invite, Role

\* The types hold after every step, given that what a request remembers fits.
LEMMA AccountsTypeStep ==
  ASSUME AccountsTypeOK, CallsFit, [AccountsNext]_accountsVars
  PROVE  AccountsTypeOK'
<1> USE DEF AccountsTypeOK
<1>1. ASSUME NEW q \in Request, CallStep(q)
      PROVE  AccountsTypeOK'
  <2>a. ~At(q, "free") => call[q].who \in Person
    BY DEF CallsFit
  <2>b. call[q].pc \in {"user", "lookup", "create", "mark", "insert", "mail"} =>
          call[q].org \in Org /\ KeyOf(q) \in Key
    BY <2>a DEF CallsFit, KeyOf, Key, At
  <2>c. call[q].role \in Role /\ call[q].pc \in Pc
    BY DEF Call
  <2>i. ASSUME InsertUser(q), call[q].pc \in {"user", "create"}
        PROVE  users' \in [Person -> Account \cup {NoAccount}]
    BY <2>a, <2>b, <2>c, <2>i DEF InsertUser, Account, At
  <2>f. Answer(q) => call' \in [Request -> Call]
    BY FreeIsCall, CallType DEF Answer
  <2>1. ASSUME NEW o \in Org, SignupOrg(q, o)
        PROVE  AccountsTypeOK'
    <3>1. [call[q] EXCEPT !.pc = "user", !.org = o] \in Call
      BY DEF Call, Pc
    <3>2. call' \in [Request -> Call]
      BY <2>1, <3>1, CallType DEF SignupOrg
    <3> QED
      BY <2>1, <2>a, <3>2 DEF SignupOrg, At, invitations, tokens
  <2>2. CASE SignupUser(q)
    BY <2>2, <2>i, GotoType DEF SignupUser, At, invitations, tokens, Pc
  <2>3. CASE IssueTokens(q)
    BY <2>3, <2>a, <2>f DEF IssueTokens, At, invitations
  <2>4. CASE SignAccess(q)
    BY <2>4, <2>a, <2>f DEF SignAccess, At, invitations
  <2>5. CASE AcceptLookup(q)
    BY <2>5, <2>f, GotoType DEF AcceptLookup, invitations, tokens, Pc
  <2>6. CASE CreateMember(q)
    BY <2>6, <2>i, GotoType DEF CreateMember, At, invitations, tokens, Pc
  <2>7. CASE MarkAccepted(q)
    <3>1. invites' \in [Key -> Invite]
      BY <2>7, <2>b DEF MarkAccepted, At, Invite
    <3> QED
      BY <2>7, <3>1, GotoType DEF MarkAccepted, tokens, Pc
  <2>8. CASE InsertInvite(q)
    <3>1. invites' \in [Key -> Invite]
      BY <2>8, <2>b, <2>c DEF InsertInvite, At, Invite
    <3> QED
      BY <2>8, <3>1, GotoType DEF InsertInvite, tokens, Pc
  <2>9. CASE MailInvite(q)
    <3>1. mails' \in [Key -> Nat]
      BY <2>9, <2>b DEF MailInvite, At
    <3> QED
      BY <2>9, <3>1, <2>f DEF MailInvite, tokens
  <2>10. CASE DeactivateWrite(q)
    <3>1. call[q].who \in Person /\ users[call[q].who] \in Account
      BY <2>10, <2>a DEF DeactivateWrite, At, HasAccount
    <3>2. users' \in [Person -> Account \cup {NoAccount}]
      BY <2>10, <3>1 DEF DeactivateWrite, Account
    <3>3. cut' \subseteq Org
      BY <2>10, <3>1 DEF DeactivateWrite, Account
    <3> QED
      BY <2>10, <3>2, <3>3, <2>f DEF DeactivateWrite, invitations, tokens
  <2>11. CASE FailCall(q)
    <3>1. cut' \subseteq Org
      BY <2>11, <2>b DEF FailCall, At
    <3> QED
      BY <2>11, <2>f, <3>1 DEF FailCall, invitations, tokens
  <2> QED
    BY <1>1, <2>1, <2>2, <2>3, <2>4, <2>5, <2>6, <2>7, <2>8, <2>9, <2>10, <2>11 DEF CallStep
<1>2. ASSUME NEW q \in Request, NewCall(q)
      PROVE  AccountsTypeOK'
  <2>1. ASSUME NEW pc \in Pc, NEW p \in Person, NEW o \in Org \cup {NoOrg}, NEW role \in Role,
               Begin(q, pc, p, o, role)
        PROVE  call' \in [Request -> Call]
    <3>1. [Free EXCEPT !.pc = pc, !.who = p, !.org = o, !.role = role] \in Call
      BY DEF Call, Free
    <3> QED
      BY <2>1, <3>1, CallType DEF Begin
  <2>2. \A p \in Person : users[p].org \in Org \cup {NoOrg} /\ users[p].role \in Role
    BY DEF Account, NoAccount, Role
  <2>3. \A o \in Org, p \in Person : invites[<<o, p>>].role \in Role
    BY DEF Key, Invite
  <2>4. PICK p \in Person :
          \/ SignupCheck(q, p) \/ LoginRead(q, p) \/ RefreshRead(q, p)
          \/ \E o \in Org : AcceptRead(q, o, p)
          \/ \E by \in Person : \/ DeactivateCheck(q, by, p)
                                \/ \E o \in Org, role \in Role : InviteCheck(q, by, o, p, role)
    BY <1>2 DEF NewCall
  <2>5. CASE SignupCheck(q, p)
    BY <2>5, <2>1 DEF SignupCheck, invitations, tokens, Pc, Role
  <2>6. CASE LoginRead(q, p)
    BY <2>6, <2>1, <2>2 DEF LoginRead, invitations, tokens, Pc
  <2>7. CASE RefreshRead(q, p)
    BY <2>7, <2>1, <2>2 DEF RefreshRead, invitations, tokens, Pc
  <2>8. ASSUME NEW o \in Org, AcceptRead(q, o, p)
        PROVE  AccountsTypeOK'
    BY <2>8, <2>1, <2>3 DEF AcceptRead, invitations, tokens, Pc
  <2>9. ASSUME NEW by \in Person, DeactivateCheck(q, by, p)
        PROVE  AccountsTypeOK'
    <3>1. [Free EXCEPT !.pc = "deactivate", !.who = p, !.by = by] \in Call
      BY FreeIsCall DEF Call, Pc
    <3>2. call' \in [Request -> Call]
      BY <2>9, <3>1, CallType DEF DeactivateCheck, BeginDeactivate
    <3> QED
      BY <2>9, <3>2 DEF DeactivateCheck, BeginDeactivate, invitations, tokens
  <2>10. ASSUME NEW by \in Person, NEW o \in Org, NEW role \in Role,
                InviteCheck(q, by, o, p, role)
         PROVE  AccountsTypeOK'
    BY <2>10, <2>1 DEF InviteCheck, invitations, tokens, Pc
  <2> QED
    BY <2>4, <2>5, <2>6, <2>7, <2>8, <2>9, <2>10
<1>3. ASSUME NEW p \in Person, ExpireAccess(p)
      PROVE  AccountsTypeOK'
  BY <1>3 DEF ExpireAccess, invitations
<1>6. ASSUME NEW p \in Person, ExpireRefresh(p)
      PROVE  AccountsTypeOK'
  BY <1>6 DEF ExpireRefresh, invitations
<1>4. ASSUME NEW o \in Org, NEW p \in Person, ExpireInvite(o, p)
      PROVE  AccountsTypeOK'
  <2>1. <<o, p>> \in Key
    BY DEF Key
  <2>2. invites' \in [Key -> Invite]
    BY <1>4, <2>1 DEF ExpireInvite, Invite
  <2> QED
    BY <1>4, <2>2 DEF ExpireInvite, tokens
<1>5. CASE UNCHANGED accountsVars
  BY <1>5 DEF accountsVars
<1> QED
  BY <1>1, <1>2, <1>3, <1>4, <1>5, <1>6 DEF AccountsNext

-----------------------------------------------------------------------------
(* The invariant.  Rows and requests are followed one at a time: a request *)
(* fits (FitsOne), and a row that only grows keeps it fitting.             *)

\* What CallsFit says of one request.
FitsOne(q) ==
  /\ ~At(q, "free") => call[q].who \in Person
  /\ call[q].pc \in {"user", "lookup", "create", "mark", "insert", "mail"} =>
       call[q].org \in Org
  /\ At(q, "org") => call[q].role = "ADMIN"
  /\ At(q, "user") => orgs[call[q].org] = call[q].who /\ call[q].role = "ADMIN"
  /\ call[q].pc \in {"lookup", "create", "mark"} =>
       /\ mails[KeyOf(q)] > 0
       /\ invites[KeyOf(q)].st # "none"
       /\ invites[KeyOf(q)].role = call[q].role
  /\ At(q, "mark") => users[call[q].who].org = call[q].org
  /\ At(q, "mail") => invites[KeyOf(q)].st # "none" /\ mails[KeyOf(q)] = 0
  /\ At(q, "deactivate") => call[q].by \in Person \ {call[q].who}

\* Organisations, memberships, invites and mails that are there stay there.
Grows ==
  /\ \A o \in Org : orgs[o] # Nobody => orgs'[o] = orgs[o]
  /\ \A p \in Person : HasAccount(p) =>
       users'[p].org = users[p].org /\ users'[p].role = users[p].role /\ HasAccount(p)'
  /\ \A k \in Key :
       /\ invites[k].st # "none" => invites'[k].st # "none" /\ invites'[k].role = invites[k].role
       /\ mails'[k] >= mails[k]

\* A request that the step leaves alone goes on fitting, unless it is about to
\* mail and the step mailed the same link.
LEMMA StillFits ==
  ASSUME AccountsTypeOK, AccountsTypeOK', Grows, NEW q \in Request, FitsOne(q),
         call'[q] = call[q],
         At(q, "mail") => mails'[KeyOf(q)] = mails[KeyOf(q)]
  PROVE  FitsOne(q)'
<1>1. call[q].pc \in {"user", "lookup", "create", "mark", "insert", "mail"} =>
        KeyOf(q) \in Key
  BY DEF FitsOne, KeyOf, Key, At
<1>2. KeyOf(q)' = KeyOf(q)
  BY DEF KeyOf
<1>3. \A k \in Key : mails[k] \in Nat /\ mails'[k] \in Nat
  BY DEF AccountsTypeOK
<1>4. At(q, "user") => orgs[call[q].org] # Nobody
  BY AccountsAssumption DEF FitsOne, At
<1>5. At(q, "mark") => HasAccount(call[q].who)
  BY AccountsAssumption DEF FitsOne, At, HasAccount, NoAccount
<1> QED
  BY <1>1, <1>2, <1>3, <1>4, <1>5 DEF FitsOne, At, Grows

\* How one person may have got an account.
CameIn(p) ==
  LET u == users[p] IN
    \/ orgs[u.org] = p /\ u.role = "ADMIN"
    \/ mails[<<u.org, p>>] > 0 /\ invites[<<u.org, p>>].st # "none"
       /\ invites[<<u.org, p>>].role = u.role

\* Who came in has come in for good.
LEMMA StillIn ==
  ASSUME AccountsTypeOK, AccountsTypeOK', Grows, NEW p \in Person, HasAccount(p), CameIn(p)
  PROVE  CameIn(p)'
<1>1. users[p].org \in Org /\ <<users[p].org, p>> \in Key
  BY DEF AccountsTypeOK, HasAccount, Account, Key
<1>2. users'[p].org = users[p].org /\ users'[p].role = users[p].role
  BY DEF Grows
<1>3. \A k \in Key : mails[k] \in Nat /\ mails'[k] \in Nat
  BY DEF AccountsTypeOK
<1>4. p # Nobody
  BY AccountsAssumption
<1> QED
  BY <1>1, <1>2, <1>3, <1>4 DEF CameIn, Grows

\* An account is in one organisation for good.
LEMMA StillMember ==
  ASSUME AccountsTypeOK, Grows, NEW k \in Key, users[k[2]].org = k[1]
  PROVE  users'[k[2]].org = k[1]
<1>1. k[1] \in Org /\ k[2] \in Person
  BY DEF Key
<1>2. HasAccount(k[2])
  BY <1>1, AccountsAssumption DEF HasAccount, NoAccount
<1> QED
  BY <1>1, <1>2 DEF Grows

\* The step of one request keeps the invariant if the tables grow, the request
\* itself fits afterwards, nobody else is mailing the link it is about to mail,
\* and whoever or whatever is new is as it should be.
LEMMA RequestStep ==
  ASSUME AccountsTypeOK, AccountsTypeOK', AccountsInv, Grows,
         NEW q \in Request, NEW new \in Call, call' = [call EXCEPT ![q] = new], FitsOne(q)',
         new.pc = "mail" => /\ <<new.org, new.who>> \in Key
                            /\ invites[<<new.org, new.who>>].st = "none",
         \/ mails' = mails
         \/ At(q, "mail") /\ new.pc = "free" /\ mails' = [mails EXCEPT ![KeyOf(q)] = @ + 1],
         \A p \in Person : HasAccount(p)' => HasAccount(p) \/ CameIn(p)',
         \A k \in Key : invites'[k].st = "accepted" =>
           invites[k].st = "accepted" \/ users'[k[2]].org = k[1]
  PROVE  AccountsInv'
<1>1. \A r \in Request : FitsOne(r)
  BY DEF AccountsInv, CallsFit, FitsOne
<1>2. \A r \in Request \ {q} : call'[r] = call[r]
  BY DEF AccountsTypeOK
<1>3. call'[q] = new
  BY DEF AccountsTypeOK
<1>4. \A r \in Request \ {q} : At(r, "mail") => KeyOf(r) \in Key
  BY <1>1 DEF FitsOne, At, KeyOf, Key
<1>5. At(q, "mail") => KeyOf(q) \in Key
  BY <1>1 DEF FitsOne, At, KeyOf, Key
<1>6. CallsFit'
  <2>1. ASSUME NEW r \in Request \ {q}
        PROVE  FitsOne(r)'
    <3>1. At(r, "mail") /\ At(q, "mail") => KeyOf(r) # KeyOf(q)
      BY <2>1 DEF AccountsInv, OneMailer
    <3>2. At(r, "mail") => mails'[KeyOf(r)] = mails[KeyOf(r)]
      BY <3>1, <1>4, <1>5 DEF AccountsTypeOK
    <3> QED
      BY <1>1, <1>2, <3>2, StillFits
  <2> QED
    BY <2>1 DEF CallsFit, FitsOne
<1>7. OneMailer'
  <2>1. ASSUME NEW r \in Request \ {q}, At(r, "mail")', new.pc = "mail"
        PROVE  KeyOf(r)' # <<new.org, new.who>>
    BY <2>1, <1>1, <1>2 DEF FitsOne, At, KeyOf
  <2>2. KeyOf(q)' = <<new.org, new.who>> /\ (At(q, "mail")' <=> new.pc = "mail")
    BY <1>3 DEF KeyOf, At
  <2>3. \A r, t \in Request \ {q} : At(r, "mail")' /\ At(t, "mail")' /\ KeyOf(r)' = KeyOf(t)' => r = t
    BY <1>2 DEF AccountsInv, OneMailer, At, KeyOf
  <2> QED
    BY <2>1, <2>2, <2>3 DEF OneMailer
<1>8. MembersCameIn'
  BY StillIn DEF AccountsInv, MembersCameIn, CameIn
<1>9. AcceptedMeansMember'
  BY StillMember DEF AccountsInv, AcceptedMeansMember
<1>10. OneMailPerInvite'
  <2>1. CASE mails' = mails
    BY <2>1 DEF AccountsInv, OneMailPerInvite
  <2>2. ASSUME At(q, "mail"), mails' = [mails EXCEPT ![KeyOf(q)] = @ + 1]
        PROVE  OneMailPerInvite'
    <3>1. mails[KeyOf(q)] = 0
      BY <2>2, <1>1 DEF FitsOne, At
    <3> QED
      BY <2>2, <3>1, <1>5 DEF AccountsInv, OneMailPerInvite, AccountsTypeOK
  <2> QED
    BY <2>1, <2>2
<1>11. MailsFit'
  <2>1. At(q, "mail") => invites[KeyOf(q)].st # "none"
    BY <1>1 DEF FitsOne, At
  <2>2. \A k \in Key : mails'[k] = mails[k] \/ (At(q, "mail") /\ k = KeyOf(q))
    BY <1>5 DEF AccountsTypeOK
  <2> QED
    BY <2>1, <2>2 DEF AccountsInv, MailsFit, Grows
<1> QED
  BY <1>6, <1>7, <1>8, <1>9, <1>10, <1>11 DEF AccountsInv

\* A request that passes its first check changes no table.
LEMMA NewCallKeeps ==
  ASSUME AccountsTypeOK, AccountsTypeOK', AccountsInv, NEW q \in Request, NewCall(q)
  PROVE  AccountsInv'
<1>1. UNCHANGED <<orgs, users, invitations, tokens>>
  BY DEF NewCall, SignupCheck, LoginRead, RefreshRead, AcceptRead, DeactivateCheck,
         BeginDeactivate, InviteCheck
<1>2. Grows
  BY <1>1 DEF Grows, invitations, HasAccount, AccountsTypeOK
<1>3. ASSUME NEW pc \in Pc \ {"user", "create", "mark", "mail", "deactivate"}, NEW p \in Person,
             NEW o \in Org \cup {NoOrg}, NEW role \in Role, Begin(q, pc, p, o, role),
             pc \in {"lookup", "insert"} => o \in Org,
             pc = "org" => role = "ADMIN",
             pc = "lookup" => /\ mails[<<o, p>>] > 0
                              /\ invites[<<o, p>>].st # "none"
                              /\ invites[<<o, p>>].role = role
      PROVE  AccountsInv'
  <2> DEFINE new == [Free EXCEPT !.pc = pc, !.who = p, !.org = o, !.role = role]
  <2>1. new \in Call /\ new.pc # "mail"
    BY FreeIsCall DEF Call
  <2>2. call' = [call EXCEPT ![q] = new] /\ call'[q] = new
    BY <1>3 DEF Begin, AccountsTypeOK
  <2>3. FitsOne(q)'
    <3>1. new.pc = pc /\ new.who = p /\ new.org = o /\ new.role = role
      BY DEF Free
    <3> HIDE DEF new
    <3> QED
      BY <1>1, <1>3, <2>2, <3>1 DEF FitsOne, At, KeyOf, invitations
  <2>4. \A x \in Person : HasAccount(x)' => HasAccount(x)
    BY <1>1 DEF HasAccount
  <2> HIDE DEF new
  <2> QED
    BY <1>1, <1>2, <2>1, <2>2, <2>3, <2>4, RequestStep DEF invitations
<1>4. \A p \in Person : users[p].org \in Org \cup {NoOrg} /\ users[p].role \in Role
  BY DEF AccountsTypeOK, Account, NoAccount, Role
<1>5. \A o \in Org, p \in Person : invites[<<o, p>>].role \in Role
  BY DEF AccountsTypeOK, Key, Invite
<1>6. PICK p \in Person :
        \/ SignupCheck(q, p) \/ LoginRead(q, p) \/ RefreshRead(q, p)
        \/ \E o \in Org : AcceptRead(q, o, p)
        \/ \E by \in Person : \/ DeactivateCheck(q, by, p)
                              \/ \E o \in Org, role \in Role : InviteCheck(q, by, o, p, role)
  BY DEF NewCall
<1>7. CASE SignupCheck(q, p)
  BY <1>7, <1>3 DEF SignupCheck, Pc, Role
<1>8. CASE LoginRead(q, p)
  <2>1. Begin(q, "tokens", p, users[p].org, users[p].role)
    BY <1>8 DEF LoginRead
  <2>2. "tokens" \in Pc \ {"user", "create", "mark", "mail", "deactivate"}
    BY DEF Pc
  <2>3. users[p].org \in Org \cup {NoOrg} /\ users[p].role \in Role
    BY <1>4
  <2> QED
    BY <2>1, <2>2, <2>3, <1>3
<1>9. CASE RefreshRead(q, p)
  <2>1. Begin(q, "sign", p, users[p].org, users[p].role)
    BY <1>9 DEF RefreshRead
  <2>2. "sign" \in Pc \ {"user", "create", "mark", "mail", "deactivate"}
    BY DEF Pc
  <2>3. users[p].org \in Org \cup {NoOrg} /\ users[p].role \in Role
    BY <1>4
  <2> QED
    BY <2>1, <2>2, <2>3, <1>3
<1>10. ASSUME NEW o \in Org, AcceptRead(q, o, p)
       PROVE  AccountsInv'
  BY <1>10, <1>3, <1>5 DEF AcceptRead, Pc
<1>11. ASSUME NEW by \in Person, DeactivateCheck(q, by, p)
       PROVE  AccountsInv'
  <2> DEFINE new == [Free EXCEPT !.pc = "deactivate", !.who = p, !.by = by]
  <2>1. new \in Call
    BY FreeIsCall DEF Call, Pc
  <2>2. new.pc = "deactivate" /\ new.who = p /\ new.by = by /\ by # p
    BY <1>11 DEF DeactivateCheck, Free
  <2> HIDE DEF new
  <2>3. call' = [call EXCEPT ![q] = new] /\ call'[q] = new
    BY <1>11 DEF DeactivateCheck, BeginDeactivate, AccountsTypeOK, new
  <2>4. FitsOne(q)'
    BY <2>2, <2>3 DEF FitsOne, At
  <2>5. \A x \in Person : HasAccount(x)' => HasAccount(x)
    BY <1>1 DEF HasAccount
  <2> QED
    BY <1>1, <1>2, <2>1, <2>2, <2>3, <2>4, <2>5, RequestStep DEF invitations
<1>12. ASSUME NEW by \in Person, NEW o \in Org, NEW role \in Role, InviteCheck(q, by, o, p, role)
       PROVE  AccountsInv'
  BY <1>12, <1>3 DEF InviteCheck, Pc
<1> QED
  BY <1>6, <1>7, <1>8, <1>9, <1>10, <1>11, <1>12

\* What is done later, with the tables as they are by then.
LEMMA CallStepKeeps ==
  ASSUME AccountsTypeOK, AccountsTypeOK', AccountsInv, NEW q \in Request, CallStep(q)
  PROVE  AccountsInv'
<1>a. FitsOne(q)
  BY DEF AccountsInv, CallsFit, FitsOne
<1>b. call[q] \in Call
  BY DEF AccountsTypeOK
<1>c. \A k \in Key : mails[k] \in Nat
  BY DEF AccountsTypeOK
<1>d. call[q].pc \in {"user", "lookup", "create", "mark", "insert", "mail"} => KeyOf(q) \in Key
  BY <1>a DEF FitsOne, At, KeyOf, Key
<1>e. Free \in Call /\ Free.pc = "free"
  BY FreeIsCall DEF Free
<1>f. ASSUME NEW new \in Call, call' = [call EXCEPT ![q] = new]
      PROVE  call'[q] = new
  BY <1>f DEF AccountsTypeOK
<1>g. UNCHANGED <<orgs, users, invitations>> => Grows
  BY <1>c DEF Grows, invitations, HasAccount
\* A request that ends and changed no table but perhaps the tokens.
<1>h. ASSUME Answer(q), UNCHANGED <<orgs, users, invitations>>
      PROVE  AccountsInv'
  <2>1. FitsOne(q)'
    BY <1>h, <1>e, <1>f DEF Answer, FitsOne, At
  <2> QED
    BY <1>h, <1>g, <2>1, <1>e, RequestStep DEF Answer, invitations, HasAccount
<1>1. ASSUME NEW o \in Org, SignupOrg(q, o)
      PROVE  AccountsInv'
  <2> DEFINE new == [call[q] EXCEPT !.pc = "user", !.org = o]
  <2>1. new \in Call /\ new.pc = "user" /\ new.org = o /\ new.who = call[q].who
        /\ new.role = call[q].role
    BY <1>b DEF Call, Pc
  <2> HIDE DEF new
  <2>2. call' = [call EXCEPT ![q] = new]
    BY <1>1 DEF SignupOrg, new
  <2>3. orgs' = [orgs EXCEPT ![o] = call[q].who] /\ orgs[o] = Nobody /\ At(q, "org")
        /\ UNCHANGED <<users, invites, mails>>
    BY <1>1 DEF SignupOrg, invitations
  <2>4. FitsOne(q)'
    BY <2>1, <2>2, <2>3, <1>a, <1>f DEF FitsOne, At, AccountsTypeOK
  <2>5. Grows
    BY <2>3, <1>c DEF Grows, HasAccount, AccountsTypeOK
  <2> QED
    BY <2>1, <2>2, <2>3, <2>4, <2>5, RequestStep DEF HasAccount
\* user.create by a request that may create this account.
<1>i. ASSUME call[q].pc \in {"user", "create"}, NEW pc \in {"tokens", "mark"}, Goto(q, pc),
             pc = "mark" => At(q, "create"), InsertUser(q), UNCHANGED <<orgs, invites, mails>>
      PROVE  AccountsInv'
  <2> DEFINE new == [call[q] EXCEPT !.pc = pc]
  <2>1. new \in Call /\ new.pc = pc /\ new.org = call[q].org /\ new.who = call[q].who
        /\ new.role = call[q].role
    BY <1>b DEF Call, Pc
  <2> HIDE DEF new
  <2>2. call' = [call EXCEPT ![q] = new]
    BY <1>i DEF Goto, new
  <2>3. call[q].who \in Person /\ call[q].org \in Org
    BY <1>i, <1>a DEF FitsOne, At
  <2>4. users'[call[q].who] = [org |-> call[q].org, role |-> call[q].role, active |-> TRUE]
    BY <1>i, <2>3 DEF InsertUser, AccountsTypeOK
  <2>5. \A p \in Person \ {call[q].who} : users'[p] = users[p]
    BY <1>i DEF InsertUser, AccountsTypeOK
  <2>6. ~HasAccount(call[q].who)
    BY <1>i DEF InsertUser
  <2>7. Grows
    BY <1>i, <2>5, <2>6, <1>c DEF Grows, HasAccount
  <2>8. ASSUME NEW p \in Person, p = call[q].who
        PROVE  CameIn(p)'
    <3>1. users'[p].org = call[q].org /\ users'[p].role = call[q].role
      BY <2>4, <2>8
    <3>2. CASE call[q].pc = "user"
      BY <1>i, <1>a, <2>8, <3>1, <3>2 DEF CameIn, FitsOne, At
    <3>3. CASE call[q].pc = "create"
      BY <1>i, <1>a, <2>8, <3>1, <3>3 DEF CameIn, FitsOne, KeyOf
    <3> QED
      BY <1>i, <3>2, <3>3
  <2>9. FitsOne(q)'
    <3>1. call'[q] = new
      BY <2>1, <2>2, <1>f
    <3> QED
      BY <1>i, <1>a, <2>1, <2>3, <2>4, <3>1 DEF FitsOne, At, KeyOf
  <2>10. \A p \in Person : HasAccount(p)' => HasAccount(p) \/ CameIn(p)'
    BY <2>5, <2>8 DEF HasAccount
  <2> QED
    BY <1>i, <2>1, <2>2, <2>7, <2>9, <2>10, RequestStep
<1>2. CASE SignupUser(q)
  BY <1>2, <1>i DEF SignupUser, At, invitations
<1>3. CASE IssueTokens(q)
  BY <1>3, <1>h DEF IssueTokens
<1>4. CASE SignAccess(q)
  BY <1>4, <1>h DEF SignAccess
<1>5. CASE AcceptLookup(q)
  <2>1. CASE Answer(q)
    BY <1>5, <2>1, <1>h DEF AcceptLookup
  <2>2. CASE Goto(q, "create")
    <3> DEFINE new == [call[q] EXCEPT !.pc = "create"]
    <3>1. new \in Call /\ new.pc = "create" /\ new.org = call[q].org /\ new.who = call[q].who
          /\ new.role = call[q].role
      BY <1>b DEF Call, Pc
    <3> HIDE DEF new
    <3>2. call' = [call EXCEPT ![q] = new]
      BY <2>2 DEF Goto, new
    <3>3. FitsOne(q)'
      BY <1>5, <1>a, <1>f, <3>1, <3>2 DEF AcceptLookup, FitsOne, At, KeyOf, invitations
    <3> QED
      BY <1>5, <1>g, <3>1, <3>2, <3>3, RequestStep DEF AcceptLookup, invitations, HasAccount
  <2> QED
    BY <1>5, <2>1, <2>2 DEF AcceptLookup
<1>6. CASE CreateMember(q)
  BY <1>6, <1>i DEF CreateMember, At, invitations
<1>7. CASE MarkAccepted(q)
  <2> DEFINE new == [call[q] EXCEPT !.pc = "tokens"]
  <2>1. new \in Call /\ new.pc = "tokens" /\ new.who = call[q].who
    BY <1>b DEF Call, Pc
  <2> HIDE DEF new
  <2>2. call' = [call EXCEPT ![q] = new]
    BY <1>7 DEF MarkAccepted, Goto, new
  <2>3. KeyOf(q) \in Key /\ users[call[q].who].org = call[q].org
    BY <1>7, <1>a, <1>d DEF MarkAccepted, FitsOne, At
  <2>4. /\ invites'[KeyOf(q)].st = "accepted" /\ invites'[KeyOf(q)].role = invites[KeyOf(q)].role
        /\ \A k \in Key \ {KeyOf(q)} : invites'[k] = invites[k]
        /\ UNCHANGED <<orgs, users, mails>>
    BY <1>7, <2>3 DEF MarkAccepted, AccountsTypeOK, Invite
  <2>5. Grows
    BY <2>4, <1>c DEF Grows, HasAccount
  <2>6. FitsOne(q)'
    BY <2>1, <2>2, <1>a, <1>f, <1>7 DEF FitsOne, At, MarkAccepted
  <2>7. \A k \in Key : invites'[k].st = "accepted" =>
          invites[k].st = "accepted" \/ users'[k[2]].org = k[1]
    BY <2>3, <2>4 DEF KeyOf
  <2> QED
    BY <2>1, <2>2, <2>4, <2>5, <2>6, <2>7, RequestStep DEF HasAccount
<1>8. CASE InsertInvite(q)
  <2> DEFINE new == [call[q] EXCEPT !.pc = "mail"]
  <2>1. new \in Call /\ new.pc = "mail" /\ new.who = call[q].who /\ new.org = call[q].org
    BY <1>b DEF Call, Pc
  <2> HIDE DEF new
  <2>2. call' = [call EXCEPT ![q] = new]
    BY <1>8 DEF InsertInvite, Goto, new
  <2>3. KeyOf(q) \in Key /\ invites[KeyOf(q)].st = "none"
    BY <1>8, <1>d DEF InsertInvite, At
  <2>4. /\ invites'[KeyOf(q)].st = "pending"
        /\ \A k \in Key \ {KeyOf(q)} : invites'[k] = invites[k]
        /\ UNCHANGED <<orgs, users, mails>>
    BY <1>8, <2>3 DEF InsertInvite, AccountsTypeOK
  <2>5. Grows
    BY <2>3, <2>4, <1>c DEF Grows, HasAccount
  <2>6. mails[KeyOf(q)] = 0
    BY <2>3, <1>c DEF AccountsInv, MailsFit
  <2>7. FitsOne(q)'
    BY <2>1, <2>2, <2>3, <2>4, <2>6, <1>8, <1>a, <1>f DEF FitsOne, At, KeyOf, InsertInvite
  <2> QED
    BY <2>1, <2>2, <2>3, <2>4, <2>5, <2>7, RequestStep DEF HasAccount, KeyOf
<1>9. CASE MailInvite(q)
  <2>1. /\ At(q, "mail") /\ Answer(q) /\ KeyOf(q) \in Key
        /\ UNCHANGED <<orgs, users, invites>>
        /\ mails' = mails \/ mails' = [mails EXCEPT ![KeyOf(q)] = @ + 1]
    BY <1>9, <1>d DEF MailInvite, At
  <2>2. Grows
    BY <2>1, <1>c DEF Grows, HasAccount, AccountsTypeOK
  <2>3. FitsOne(q)'
    BY <2>1, <1>e, <1>f DEF Answer, FitsOne, At
  <2> QED
    BY <2>1, <2>2, <2>3, <1>e, RequestStep DEF Answer, HasAccount
<1>10. CASE DeactivateWrite(q)
  <2>1. /\ At(q, "deactivate") /\ HasAccount(call[q].who) /\ Answer(q) /\ call[q].who \in Person
        /\ users' = [users EXCEPT ![call[q].who].active = FALSE]
        /\ UNCHANGED <<orgs, invites, mails>>
    BY <1>10, <1>a DEF DeactivateWrite, FitsOne, At, invitations
  <2>2. \A p \in Person : HasAccount(p) => users[p] \in Account
    BY DEF AccountsTypeOK, HasAccount
  <2>3. \A p \in Person : HasAccount(p) =>
          users'[p].org = users[p].org /\ users'[p].role = users[p].role /\ users'[p].org \in Org
    BY <2>1, <2>2 DEF Account, AccountsTypeOK
  <2>4. \A p \in Person : ~HasAccount(p) => users'[p] = users[p]
    BY <2>1 DEF AccountsTypeOK
  <2>5. Grows
    <3>1. NoAccount.org = NoOrg
      BY DEF NoAccount
    <3>2. \A p \in Person : HasAccount(p) => HasAccount(p)'
      <4> SUFFICES ASSUME NEW p \in Person, HasAccount(p), users'[p] = NoAccount
                   PROVE  FALSE
        BY DEF HasAccount
      <4> QED
        BY <2>3, <3>1, AccountsAssumption
    <3> QED
      BY <2>1, <2>3, <3>2, <1>c DEF Grows
  <2>6. FitsOne(q)'
    BY <2>1, <1>e, <1>f DEF Answer, FitsOne, At
  <2>7. \A p \in Person : HasAccount(p)' => HasAccount(p)
    BY <2>4 DEF HasAccount
  <2> QED
    BY <2>1, <2>5, <2>6, <2>7, <1>e, RequestStep DEF Answer
<1>11. CASE FailCall(q)
  BY <1>11, <1>h DEF FailCall
<1> QED
  BY <1>1, <1>2, <1>3, <1>4, <1>5, <1>6, <1>7, <1>8, <1>9, <1>10, <1>11 DEF CallStep

\* Time passing: an access token expires, or an invite does, which leaves its
\* row and its role and accepts nothing.
LEMMA ExpiryKeeps ==
  ASSUME AccountsTypeOK, AccountsTypeOK', AccountsInv, UNCHANGED <<orgs, users, mails, call>>,
         \A k \in Key : invites'[k].role = invites[k].role,
         \A k \in Key : (invites[k].st # "none") <=> (invites'[k].st # "none"),
         \A k \in Key : invites'[k].st = "accepted" => invites[k].st = "accepted"
  PROVE  AccountsInv'
<1>1. /\ \A k \in Key : invites'[k].role = invites[k].role
      /\ \A k \in Key : (invites[k].st # "none") <=> (invites'[k].st # "none")
      /\ \A k \in Key : invites'[k].st = "accepted" => invites[k].st = "accepted"
  OBVIOUS
<1>m. \A k \in Key : mails[k] \in Nat
  BY DEF AccountsTypeOK
<1>2. Grows
  BY <1>1, <1>m DEF Grows, HasAccount
<1>3. \A r \in Request : FitsOne(r)
  BY DEF AccountsInv, CallsFit, FitsOne
<1>4. \A r \in Request : FitsOne(r)'
  BY <1>2, <1>3, StillFits
<1>5. CallsFit'
  BY <1>4 DEF CallsFit, FitsOne
<1>6. OneMailer'
  BY DEF AccountsInv, OneMailer, At, KeyOf
<1>7. MembersCameIn'
  <2>1. \A p \in Person : HasAccount(p)' => HasAccount(p)
    BY DEF HasAccount
  <2> QED
    BY <2>1, <1>2, StillIn DEF AccountsInv, MembersCameIn, CameIn
<1>8. MailsFit'
  BY <1>1 DEF AccountsInv, MailsFit
<1>9. AcceptedMeansMember'
  BY <1>1 DEF AccountsInv, AcceptedMeansMember
<1>10. OneMailPerInvite'
  BY DEF AccountsInv, OneMailPerInvite
<1> QED
  BY <1>5, <1>6, <1>7, <1>8, <1>9, <1>10 DEF AccountsInv

-----------------------------------------------------------------------------
LEMMA AccountsInvInit == AccountsInit => AccountsInv
  BY DEF AccountsInit, AccountsInv, CallsFit, OneMailer, MailsFit, MembersCameIn,
         AcceptedMeansMember, OneMailPerInvite, HasAccount, At, Free, NoInvite

LEMMA AccountsStep ==
  AccountsTypeOK /\ AccountsInv /\ [AccountsNext]_accountsVars => AccountsTypeOK' /\ AccountsInv'
<1> SUFFICES ASSUME AccountsTypeOK, AccountsInv, [AccountsNext]_accountsVars
             PROVE  AccountsTypeOK' /\ AccountsInv'
  OBVIOUS
<1>1. AccountsTypeOK'
  BY AccountsTypeStep DEF AccountsInv
<1>2. ASSUME NEW q \in Request, NewCall(q) \/ CallStep(q)
      PROVE  AccountsInv'
  BY <1>1, <1>2, NewCallKeeps, CallStepKeeps
<1>3. ASSUME NEW p \in Person, ExpireAccess(p)
      PROVE  AccountsInv'
  BY <1>1, <1>3, ExpiryKeeps DEF ExpireAccess, invitations
<1>6. ASSUME NEW p \in Person, ExpireRefresh(p)
      PROVE  AccountsInv'
  BY <1>1, <1>6, ExpiryKeeps DEF ExpireRefresh, invitations
<1>4. ASSUME NEW o \in Org, NEW p \in Person, ExpireInvite(o, p)
      PROVE  AccountsInv'
  <2>1. /\ <<o, p>> \in Key
        /\ invites[<<o, p>>].st = "pending"
        /\ invites' = [invites EXCEPT ![<<o, p>>].st = "expired"]
        /\ UNCHANGED <<orgs, users, mails, call>>
    BY <1>4 DEF ExpireInvite, Key
  <2>2. \A k \in Key \ {<<o, p>>} : invites'[k] = invites[k]
    BY <2>1 DEF AccountsTypeOK
  <2>3. invites'[<<o, p>>].st = "expired" /\ invites'[<<o, p>>].role = invites[<<o, p>>].role
    BY <2>1 DEF AccountsTypeOK, Invite
  <2>4. \A k \in Key : invites'[k].role = invites[k].role
    BY <2>2, <2>3
  <2>5. \A k \in Key : (invites[k].st # "none") <=> (invites'[k].st # "none")
    BY <2>1, <2>2, <2>3
  <2>6. \A k \in Key : invites'[k].st = "accepted" => invites[k].st = "accepted"
    BY <2>2, <2>3
  <2> QED
    BY <1>1, <2>1, <2>4, <2>5, <2>6, ExpiryKeeps
<1>5. CASE UNCHANGED accountsVars
  BY <1>1, <1>5, ExpiryKeeps DEF accountsVars
<1> QED
  BY <1>1, <1>2, <1>3, <1>4, <1>5, <1>6 DEF AccountsNext

\* What was cut off stays so, and so does the founder of an organisation.
LEMMA FoundersStay ==
  ASSUME AccountsTypeOK, [AccountsNext]_accountsVars
  PROVE  /\ cut \subseteq cut'
         /\ \A o \in Org : orgs[o] # Nobody => orgs'[o] = orgs[o]
<1>1. ASSUME NEW q \in Request, CallStep(q)
      PROVE  cut \subseteq cut'
  BY <1>1 DEF CallStep, SignupOrg, SignupUser, IssueTokens, SignAccess, AcceptLookup,
     CreateMember, MarkAccepted, InsertInvite, MailInvite, DeactivateWrite, FailCall
<1>2. ASSUME NEW q \in Request, CallStep(q)
      PROVE  \A o \in Org : orgs[o] # Nobody => orgs'[o] = orgs[o]
  BY <1>2 DEF CallStep, SignupOrg, SignupUser, IssueTokens, SignAccess, AcceptLookup,
     CreateMember, MarkAccepted, InsertInvite, MailInvite, DeactivateWrite, FailCall,
     AccountsTypeOK
<1>3. ASSUME NEW q \in Request, NewCall(q)
      PROVE  UNCHANGED <<cut, orgs>>
  BY <1>3 DEF NewCall, SignupCheck, LoginRead, RefreshRead, AcceptRead, DeactivateCheck,
     BeginDeactivate, InviteCheck
<1> QED
  BY <1>1, <1>2, <1>3
     DEF AccountsNext, ExpireAccess, ExpireRefresh, ExpireInvite, accountsVars

\* Only a deactivation takes an active member away, and only the one it names.
LEMMA MembersStay ==
  ASSUME AccountsTypeOK, [AccountsNext]_accountsVars, NEW p \in Person, NEW o \in Org,
         Enters(p, o)
  PROVE  Enters(p, o)' \/ \E q \in Request : DeactivateWrite(q) /\ call[q].who = p
<1>1. HasAccount(p)
  BY AccountsAssumption DEF Enters, HasAccount, NoAccount
<1>2. CASE UNCHANGED users
  BY <1>2 DEF Enters
<1>3. ASSUME NEW q \in Request, InsertUser(q)
      PROVE  Enters(p, o)'
  <2>1. users'[p] = users[p]
    BY <1>1, <1>3 DEF InsertUser, AccountsTypeOK
  <2> QED
    BY <2>1 DEF Enters
<1>4. ASSUME NEW q \in Request, DeactivateWrite(q), call[q].who # p
      PROVE  Enters(p, o)'
  <2>1. users'[p] = users[p]
    BY <1>4 DEF DeactivateWrite, AccountsTypeOK
  <2> QED
    BY <2>1 DEF Enters
<1>5. ASSUME NEW q \in Request, CallStep(q)
      PROVE  UNCHANGED users \/ InsertUser(q) \/ DeactivateWrite(q)
  BY <1>5 DEF CallStep, SignupOrg, SignupUser, IssueTokens, SignAccess,
     AcceptLookup, CreateMember, MarkAccepted, InsertInvite, MailInvite, FailCall
<1>6. ASSUME NEW q \in Request, NewCall(q)
      PROVE  UNCHANGED users
  BY <1>6 DEF NewCall, SignupCheck, LoginRead, RefreshRead, AcceptRead, DeactivateCheck,
     BeginDeactivate, InviteCheck
<1> QED
  BY <1>2, <1>3, <1>4, <1>5, <1>6
     DEF AccountsNext, ExpireAccess, ExpireRefresh, ExpireInvite, accountsVars

\* A deactivation by an active member leaves him; by anybody else it is noted.
LEMMA DeactivationNoted ==
  ASSUME AccountsTypeOK, CallsFit, [AccountsNext]_accountsVars, NEW q \in Request,
         DeactivateWrite(q), NEW o \in Org, Enters(call[q].who, o)
  PROVE  (\E p \in Person : Enters(p, o)') \/ o \in cut'
<1> DEFINE who == call[q].who
           by == call[q].by
<1>1. who \in Person /\ by \in Person \ {who} /\ users[who].org = o
  BY DEF DeactivateWrite, At, CallsFit, Enters
<1>2. ASSUME NEW p \in Person \ {who}, Enters(p, o)
      PROVE  Enters(p, o)'
  <2>1. users'[p] = users[p]
    BY <1>2 DEF DeactivateWrite, AccountsTypeOK
  <2> QED
    BY <1>2, <2>1 DEF Enters
<1>3. CASE \A p \in Person \ {who} : ~Enters(p, o)
  <2>1. CutsOff(by, who)
    BY <1>1, <1>3 DEF CutsOff
  <2> QED
    BY <1>1, <2>1 DEF DeactivateWrite
<1> QED
  BY <1>2, <1>3

\* An organisation that somebody is to enter goes on having somebody.
LEMMA OrgStep ==
  ASSUME AccountsTypeOK, AccountsTypeOK', CallsFit, OrgCanBeEntered,
         [AccountsNext]_accountsVars
  PROVE  OrgCanBeEntered'
<1> SUFFICES ASSUME NEW o \in Org, orgs'[o] # Nobody
             PROVE  \/ \E p \in Person : Enters(p, o)'
                    \/ \E q \in Request : At(q, "user")' /\ call'[q].org = o
                    \/ o \in cut'
  BY DEF OrgCanBeEntered
<1>1. CASE orgs[o] = Nobody
  <2>1. PICK q \in Request : SignupOrg(q, o)
    BY <1>1 DEF AccountsNext, accountsVars, CallStep, NewCall, SignupCheck, LoginRead,
       RefreshRead, AcceptRead, DeactivateCheck, BeginDeactivate, InviteCheck, SignupOrg,
       SignupUser, IssueTokens, SignAccess, AcceptLookup, CreateMember, MarkAccepted,
       InsertInvite, MailInvite, DeactivateWrite, FailCall, ExpireAccess, ExpireRefresh,
       ExpireInvite, AccountsTypeOK
  <2>2. At(q, "user")' /\ call'[q].org = o
    BY <2>1 DEF SignupOrg, At, AccountsTypeOK, Call
  <2> QED
    BY <2>2
<1>2. ASSUME NEW p \in Person, Enters(p, o)
      PROVE  (\E x \in Person : Enters(x, o)') \/ o \in cut'
  <2>1. CASE Enters(p, o)'
    BY <2>1
  <2>2. ASSUME NEW q \in Request, DeactivateWrite(q), call[q].who = p
        PROVE  (\E x \in Person : Enters(x, o)') \/ o \in cut'
    BY <1>2, <2>2, DeactivationNoted
  <2> QED
    BY <1>2, <2>1, <2>2, MembersStay
<1>3. ASSUME NEW q \in Request, At(q, "user"), call[q].org = o
      PROVE  \/ \E p \in Person : Enters(p, o)'
             \/ o \in cut'
             \/ At(q, "user")' /\ call'[q].org = o
  <2>1. CASE call'[q] = call[q]
    BY <1>3, <2>1 DEF At
  <2>2. ASSUME SignupUser(q)
        PROVE  \E p \in Person : Enters(p, o)'
    <3>1. call[q].who \in Person
      BY <1>3 DEF CallsFit, At
    <3>2. users'[call[q].who].org = o /\ users'[call[q].who].active
      BY <1>3, <2>2, <3>1 DEF SignupUser, InsertUser, AccountsTypeOK
    <3> QED
      BY <3>1, <3>2 DEF Enters
  <2>3. ASSUME FailCall(q)
        PROVE  o \in cut'
    BY <1>3, <2>3 DEF FailCall
  <2>4. ASSUME NEW r \in Request, NewCall(r) \/ CallStep(r), r # q
        PROVE  call'[q] = call[q]
    BY <2>4 DEF CallStep, NewCall, SignupCheck, LoginRead,
       RefreshRead, AcceptRead, DeactivateCheck, BeginDeactivate, InviteCheck, SignupOrg,
       SignupUser, IssueTokens, SignAccess, AcceptLookup, CreateMember, MarkAccepted,
       InsertInvite, MailInvite, DeactivateWrite, FailCall, Begin, Goto, Answer,
       AccountsTypeOK
  <2>5. ASSUME NewCall(q) \/ CallStep(q)
        PROVE  SignupUser(q) \/ FailCall(q)
    BY <1>3, <2>5 DEF CallStep, NewCall, SignupCheck, LoginRead,
       RefreshRead, AcceptRead, DeactivateCheck, BeginDeactivate, InviteCheck, SignupOrg,
       IssueTokens, SignAccess, AcceptLookup, CreateMember, MarkAccepted, InsertInvite,
       MailInvite, DeactivateWrite, Begin, At
  <2>6. (\E r \in Request : NewCall(r) \/ CallStep(r)) \/ call' = call
    BY DEF AccountsNext, accountsVars, ExpireAccess, ExpireRefresh, ExpireInvite
  <2> QED
    BY <2>1, <2>2, <2>3, <2>4, <2>5, <2>6
<1>4. CASE orgs[o] # Nobody
  BY <1>2, <1>3, <1>4, FoundersStay DEF OrgCanBeEntered
<1> QED
  BY <1>1, <1>4

\* Accounts keeps its types and its inductive invariant.
THEOREM AccountsInvariant == AccountsSpec => [](AccountsTypeOK /\ AccountsInv)
  BY AccountsTypeInit, AccountsInvInit, AccountsStep, PTL DEF AccountsSpec

\* The types of the tables, tokens and requests.
THEOREM AccountsTypeCorrect == AccountsSpec => []AccountsTypeOK
  BY AccountsInvariant, PTL

\* Everybody who has an account founded the organisation or came by one of its
\* invites, with the role it gave.
THEOREM MembersCameInCorrectly == AccountsSpec => []MembersCameIn
<1>1. AccountsInv => MembersCameIn
  BY DEF AccountsInv
<1> QED
  BY AccountsInvariant, <1>1, PTL

\* No invite is used up without its person being in the organisation.
THEOREM InvitesBringMembers == AccountsSpec => []AcceptedMeansMember
<1>1. AccountsInv => AcceptedMeansMember
  BY DEF AccountsInv
<1> QED
  BY AccountsInvariant, <1>1, PTL

\* An organisation without an active member is new, or its signup could not be
\* finished, or somebody who was no active member deactivated the last one.
THEOREM OrgsCanBeEntered == AccountsSpec => []OrgCanBeEntered
<1>1. AccountsInit => OrgCanBeEntered
  BY DEF AccountsInit, OrgCanBeEntered
<1>2. AccountsTypeOK /\ AccountsInv /\ (AccountsTypeOK /\ AccountsInv)' /\ OrgCanBeEntered
      /\ [AccountsNext]_accountsVars => OrgCanBeEntered'
  BY OrgStep DEF AccountsInv
<1> QED
  BY AccountsInvariant, <1>1, <1>2, PTL DEF AccountsSpec

\* However many admins invite the same person, one link is mailed.
THEOREM InvitesMailedOnce == AccountsSpec => []OneMailPerInvite
<1>1. AccountsInv => OneMailPerInvite
  BY DEF AccountsInv
<1> QED
  BY AccountsInvariant, <1>1, PTL
=============================================================================
