------------------------- MODULE SideBySideProofs -------------------------
(***************************************************************************)
(* Proofs about the inbox view and about the statistics of a day, for any  *)
(* number of mails, any page sizes, any number of tickets and of jobs.     *)
(***************************************************************************)
EXTENDS MCSideBySide, CampaignProofs

-----------------------------------------------------------------------------
(* Pages.                                                                  *)

LEMMA TimesMonotone ==
  ASSUME NEW a \in Nat, NEW b \in Nat, NEW l \in Nat, a <= b
  PROVE  a * l <= b * l
<1>1. PICK d \in Nat : b = a + d
  <2>1. b - a \in Nat /\ b = a + (b - a)
    OBVIOUS
  <2> QED
    BY <2>1
<1>2. b * l = a * l + d * l /\ d * l \in Nat /\ a * l \in Nat
  BY <1>1
<1> QED
  BY <1>2

\* hasNext says exactly whether there are mails beyond the page.
LEMMA HasNextIsMore ==
  ASSUME NEW total \in Nat, NEW page \in Nat \ {0}, NEW limit \in Nat \ {0}
  PROVE  HasNext(total, page, limit) <=> page * limit < total
<1> DEFINE q == (total + limit - 1) \div limit
<1>1. q * limit <= total + limit - 1 /\ total + limit - 1 < q * limit + limit /\ q \in Nat
  OBVIOUS
<1>2. HasNext(total, page, limit) <=> page < q
  BY DEF HasNext
<1> HIDE DEF q
<1>3. CASE page < q
  <2>1. (page + 1) * limit <= q * limit
    BY <1>1, <1>3, TimesMonotone
  <2>2. (page + 1) * limit = page * limit + limit /\ page * limit \in Nat /\ q * limit \in Nat
    BY <1>1
  <2> QED
    BY <1>1, <1>2, <1>3, <2>1, <2>2
<1>4. CASE ~(page < q)
  <2>1. q * limit <= page * limit
    BY <1>1, <1>4, TimesMonotone
  <2>2. page * limit \in Nat /\ q * limit \in Nat
    BY <1>1
  <2> QED
    BY <1>1, <1>2, <1>4, <2>1, <2>2
<1> QED
  BY <1>3, <1>4

\* A page is at least as far into the list as its number says.
LEMMA PageIsLess ==
  ASSUME NEW total \in Nat, NEW page \in Nat \ {0}, NEW limit \in Nat \ {0},
         HasNext(total, page, limit)
  PROVE  page < total
<1>1. page * limit < total
  BY HasNextIsMore
<1>2. page * 1 <= page * limit /\ page * limit \in Nat
  <2>1. 1 * page <= limit * page
    BY TimesMonotone
  <2> QED
    BY <2>1
<1> QED
  BY <1>1, <1>2

-----------------------------------------------------------------------------
(* Where a mail stands in a list.                                          *)

LEMMA UidsFinite ==
  ASSUME NEW mails, mails \subseteq Uid
  PROVE  IsFiniteSet(mails) /\ Cardinality(mails) \in Nat /\ Cardinality(mails) <= MaxMail
<1>1. IsFiniteSet(Uid) /\ Cardinality(Uid) = MaxMail
  <2>1. 1 \in Int /\ MaxMail \in Int /\ MaxMail >= 0
    BY MailboxAssumption
  <2>2. IsFiniteSet(1..MaxMail)
        /\ Cardinality(1..MaxMail) = IF 1 > MaxMail THEN 0 ELSE MaxMail - 1 + 1
    BY <2>1, FS_Interval
  <2> QED
    BY <2>1, <2>2 DEF Uid
<1> QED
  BY <1>1, Fewer, MailboxAssumption

LEMMA NewerNat ==
  ASSUME NEW mails, mails \subseteq Uid, NEW u \in Uid
  PROVE  /\ Newer(u, mails) \in Nat /\ Newer(u, mails) <= Cardinality(mails)
         /\ Newer(u, mails) \in Nat
         /\ u \in mails => Newer(u, mails) < Cardinality(mails)
<1> DEFINE new == {v \in mails : v > u}
<1>1. IsFiniteSet(mails) /\ new \subseteq mails
  BY UidsFinite
<1>2. Cardinality(new) \in Nat /\ Cardinality(new) <= Cardinality(mails)
      /\ Cardinality(mails) \in Nat
  BY <1>1, Fewer
<1>3. ASSUME u \in mails PROVE Cardinality(new) + 1 <= Cardinality(mails)
  <2>1. new \subseteq mails \ {u}
    BY DEF Uid
  <2> QED
    BY <1>1, <1>3, <2>1, OneFewer
<1> QED
  BY <1>2, <1>3 DEF Newer

\* The sequence number of a mail counts from the other end.
LEMMA NumberIsRest ==
  ASSUME NEW mails, mails \subseteq Uid, NEW u \in Uid
  PROVE  Number(u, mails) + Newer(u, mails) = Cardinality(mails) /\ Number(u, mails) \in Nat
<1> DEFINE old == {v \in mails : v <= u}
           new == {v \in mails : v > u}
<1>1. IsFiniteSet(mails) /\ IsFiniteSet(old) /\ IsFiniteSet(new)
      /\ Cardinality(old) \in Nat /\ Cardinality(new) \in Nat
  <2>1. IsFiniteSet(mails) /\ old \subseteq mails /\ new \subseteq mails
    BY UidsFinite
  <2> QED
    BY <2>1, Fewer
<1>2. old \cup new = mails /\ old \cap new = {}
  <2>1. \A v \in mails : v \in Int /\ u \in Int
    BY MailboxAssumption DEF Uid
  <2>2. \A v \in mails : (v <= u \/ v > u) /\ ~(v <= u /\ v > u)
    BY <2>1
  <2> QED
    BY <2>2
<1>3. Cardinality(mails) = Cardinality(old) + Cardinality(new)
  <2>1. Cardinality(old \cup new)
          = Cardinality(old) + Cardinality(new) - Cardinality(old \cap new)
    BY <1>1, FS_Union
  <2>2. Cardinality(old \cap new) = 0
    BY <1>2, FS_EmptySet
  <2>3. Cardinality(old \cup new) = Cardinality(mails)
    BY <1>2
  <2> HIDE DEF old, new
  <2> QED
    BY <1>1, <2>1, <2>2, <2>3
<1>4. Number(u, mails) = Cardinality(old) /\ Newer(u, mails) = Cardinality(new)
  BY DEF Number, Newer
<1> QED
  BY <1>1, <1>3, <1>4

\* What the types say of the client.
LEMMA WalkType ==
  ASSUME MailboxTypeOK
  PROVE  /\ inbox \subseteq Uid /\ lastUid \in Nat /\ lastUid <= MaxMail
         /\ walk.view \subseteq Uid /\ walk.there \subseteq Uid
         /\ walk.page \in Nat \ {0} /\ walk.limit \in Nat \ {0} /\ walk.from \in Nat
         /\ First \in Nat /\ Past \in Nat /\ Past = First + walk.limit
<1>1. inbox \subseteq Uid /\ lastUid \in Nat /\ lastUid <= MaxMail
  BY MailboxAssumption DEF MailboxTypeOK
<1>2. walk \in Walk
  BY DEF MailboxTypeOK
<1>3. walk.view \subseteq Uid /\ walk.there \subseteq Uid
  BY <1>2 DEF Walk
<1>4. walk.page \in 1..MaxMail + 1 /\ walk.from \in 0..MaxMail /\ walk.limit \in Limit
  BY <1>2 DEF Walk
<1>5. walk.page \in Nat \ {0} /\ walk.limit \in Nat \ {0} /\ walk.from \in Nat
  <2>1. MaxMail \in Nat /\ \A l \in Limit : l \in Nat \ {0}
    BY MailboxAssumption
  <2>2. walk.limit \in Nat \ {0}
    BY <1>4, <2>1
  <2>3. walk.page \in Nat \ {0} /\ walk.from \in Nat
    BY <1>4, <2>1
  <2> QED
    BY <2>2, <2>3
<1>6. First \in Nat /\ Past \in Nat /\ Past = First + walk.limit
  BY <1>5 DEF First, Past
<1> QED
  BY <1>1, <1>3, <1>5, <1>6

\* A page holds the mails from First to just before Past in the list.
LEMMA PageIsRange ==
  ASSUME NEW view, view \subseteq Uid, NEW page \in Nat \ {0}, NEW limit \in Nat \ {0},
         NEW u \in Uid
  PROVE  u \in view /\ Number(u, view) \in PageOf(Cardinality(view), page, limit)
           <=> u \in view /\ (page - 1) * limit <= Newer(u, view)
                          /\ Newer(u, view) < page * limit
<1> DEFINE total == Cardinality(view)
           n == Number(u, view)
           k == Newer(u, view)
           first == (page - 1) * limit
           last == total - first
<1>2. total \in Nat /\ n + k = total /\ n \in Nat /\ k \in Nat
  BY UidsFinite, NumberIsRest, NewerNat
<1>3. u \in view => n >= 1
  BY <1>2, NewerNat
<1>4. page * limit = first + limit /\ first \in Nat
  OBVIOUS
<1>5. n \in PageOf(total, page, limit)
        <=> n \in 1..total /\ last - limit + 1 <= n /\ n <= last
  BY DEF PageOf
<1> HIDE DEF total, n, k, first
<1>6. u \in view =>
        (n \in 1..total /\ last - limit + 1 <= n /\ n <= last
           <=> first <= k /\ k < page * limit)
  BY <1>2, <1>3, <1>4
<1> QED
  BY <1>5, <1>6 DEF total, n, k, first

LEMMA SliceIsRange ==
  ASSUME MailboxTypeOK, NEW u \in Uid
  PROVE  u \in Slice <=>
           u \in walk.view /\ First <= Newer(u, walk.view) /\ Newer(u, walk.view) < Past
  BY WalkType, PageIsRange DEF Slice, First, Past

LEMMA NextSliceIsRange ==
  ASSUME MailboxTypeOK', NEW u \in Uid
  PROVE  u \in Slice' <=>
           /\ u \in walk'.view
           /\ (walk'.page - 1) * walk'.limit <= Newer(u, walk'.view)
           /\ Newer(u, walk'.view) < walk'.page * walk'.limit
<1>1. walk' \in Walk
  BY DEF MailboxTypeOK
<1>2. walk'.view \subseteq Uid /\ walk'.page \in Nat \ {0} /\ walk'.limit \in Nat \ {0}
  <2>1. walk'.view \subseteq Uid /\ walk'.page \in 1..MaxMail + 1 /\ walk'.limit \in Limit
    BY <1>1 DEF Walk
  <2>2. MaxMail \in Nat /\ \A l \in Limit : l \in Nat \ {0}
    BY MailboxAssumption
  <2> QED
    BY <2>1, <2>2
<1> QED
  BY <1>2, PageIsRange DEF Slice

\* Different mails stand at different places.
LEMMA NewerDiffers ==
  ASSUME NEW mails, mails \subseteq Uid, NEW u \in mails, NEW v \in mails,
         Newer(u, mails) = Newer(v, mails)
  PROVE  u = v
<1>1. ASSUME NEW x \in mails, NEW y \in mails, x < y, Newer(x, mails) = Newer(y, mails)
      PROVE  FALSE
  <2> DEFINE S == {z \in mails : z > x}
             T == {z \in mails : z > y}
  <2>1. IsFiniteSet(S)
    <3>1. S \subseteq Uid
      OBVIOUS
    <3> QED
      BY <3>1, UidsFinite
  <2>2. y \in S /\ T \subseteq S \ {y}
    <3>1. \A z \in mails : z \in Int
      BY DEF Uid
    <3>2. \A z \in mails : z > y => z > x /\ z # y
      BY <1>1, <3>1
    <3>3. y > x
      BY <1>1, <3>1
    <3> QED
      BY <3>2, <3>3
  <2>3. Cardinality(T) + 1 <= Cardinality(S)
    BY <2>1, <2>2, OneFewer
  <2>4. T \subseteq S
    BY <2>2
  <2>5. Cardinality(T) \in Nat /\ Cardinality(S) \in Nat
    BY <2>1, <2>4, Fewer
  <2>6. Newer(x, mails) = Cardinality(S) /\ Newer(y, mails) = Cardinality(T)
    BY DEF Newer
  <2>7. Cardinality(S) = Cardinality(T)
    BY <1>1, <2>6
  <2> HIDE DEF S, T
  <2> QED
    BY <2>3, <2>5, <2>7
<1>2. u \in Int /\ v \in Int
  BY DEF Uid
<1> QED
  BY <1>1, <1>2

\* A mail that arrives moves every other one place on; a mail that is removed
\* moves the older ones back by one.
LEMMA NewerArrives ==
  ASSUME NEW mails, mails \subseteq Uid, NEW n \in Uid, \A v \in mails : v < n, NEW u \in mails
  PROVE  Newer(u, mails \cup {n}) = Newer(u, mails) + 1
<1> DEFINE S == {v \in mails : v > u}
           T == {v \in mails \cup {n} : v > u}
<1>1. T = S \cup {n} /\ n \notin S
  <2>1. n > u /\ n \notin mails
    BY DEF Uid
  <2> QED
    BY <2>1
<1>2. IsFiniteSet(S)
  <2>1. IsFiniteSet(mails) /\ S \subseteq mails
    BY UidsFinite
  <2> QED
    BY <2>1, Fewer
<1>3. Newer(u, mails) = Cardinality(S) /\ Newer(u, mails \cup {n}) = Cardinality(T)
  BY DEF Newer
<1> HIDE DEF S, T
<1> QED
  BY <1>1, <1>2, <1>3, FS_AddElement

LEMMA NewerRemoves ==
  ASSUME NEW mails, mails \subseteq Uid, NEW x \in mails, NEW u \in mails
  PROVE  Newer(u, mails \ {x}) = Newer(u, mails) \/ Newer(u, mails \ {x}) = Newer(u, mails) - 1
<1> DEFINE S == {v \in mails : v > u}
           T == {v \in mails \ {x} : v > u}
<1>1. T = S \ {x}
  OBVIOUS
<1>2. IsFiniteSet(S)
  <2>1. IsFiniteSet(mails) /\ S \subseteq mails
    BY UidsFinite
  <2> QED
    BY <2>1, Fewer
<1>3. Newer(u, mails) = Cardinality(S) /\ Newer(u, mails \ {x}) = Cardinality(T)
  BY DEF Newer
<1> HIDE DEF S, T
<1>4. CASE x \in S
  BY <1>1, <1>2, <1>3, <1>4, FS_RemoveElement
<1>5. CASE x \notin S
  <2>1. T = S
    BY <1>1, <1>5
  <2> QED
    BY <1>3, <2>1
<1> QED
  BY <1>4, <1>5

\* A set that grows by the mail of one place grows by at most one.
LEMMA OneMorePlace ==
  ASSUME NEW mails, mails \subseteq Uid, NEW n, NEW S, IsFiniteSet(S), NEW T,
         T \subseteq S \cup {u \in mails : Newer(u, mails) = n}
  PROVE  /\ IsFiniteSet(T) /\ Cardinality(T) \in Nat /\ Cardinality(S) \in Nat
         /\ Cardinality(T) <= Cardinality(S) + 1
<1> DEFINE E == {u \in mails : Newer(u, mails) = n}
<1>1. \A x, y \in E : x = y
  BY NewerDiffers
<1> HIDE DEF E
<1>2. PICK z : E \subseteq {z}
  <2>1. CASE E = {}
    BY <2>1
  <2>2. CASE E # {}
    <3>1. PICK z \in E : TRUE
      BY <2>2
    <3>2. E \subseteq {z}
      BY <1>1
    <3> QED
      BY <3>2
  <2> QED
    BY <2>1, <2>2
<1>3. T \subseteq S \cup {z}
  BY <1>2 DEF E
<1>4. IsFiniteSet(S \cup {z})
  BY FS_AddElement
<1>5. IsFiniteSet(T) /\ Cardinality(T) \in Nat
  BY <1>3, <1>4, Fewer
<1> QED
  BY <1>3, <1>5, OneMore, FS_CardinalityType

-----------------------------------------------------------------------------
(* What each step does to the client's walk.                               *)

LEMMA ListFacts ==
  ASSUME MailboxTypeOK, ListEmails \/ FetchFails
  PROVE  /\ walk' \in Walk /\ walk'.pc \in {"connect", "failed"}
         /\ walk'.pc = "connect" => walk.pc = "request"
         /\ walk'.view = IF ListEmails THEN walk.view ELSE {}
         /\ walk'.page = walk.page /\ walk'.limit = walk.limit
         /\ walk'.there = walk.there /\ walk'.from = walk.from
         /\ walk.pc \in {"request", "connect", "fetch"}
         /\ ListEmails => walk.pc = "request"
         /\ UNCHANGED <<channel, inbox, lastUid, shown>>
<1>t. walk \in Walk
  BY DEF MailboxTypeOK
<1>1. CASE ListEmails
  BY <1>1, <1>t DEF ListEmails, Walk
<1>2. CASE FetchFails /\ ~ListEmails
  BY <1>2, <1>t DEF FetchFails, Walk
<1> QED
  BY <1>1, <1>2

LEMMA OpenFacts ==
  ASSUME MailboxTypeOK, OpenInbox
  PROVE  /\ walk' \in Walk /\ walk.pc = "connect" /\ walk'.pc = "fetch"
         /\ walk'.view = inbox /\ walk'.page = walk.page /\ walk'.limit = walk.limit
         /\ walk.page = 1 => walk'.there = inbox /\ walk'.from = lastUid
         /\ walk.page # 1 => walk'.there = walk.there /\ walk'.from = walk.from
         /\ UNCHANGED <<channel, inbox, lastUid, shown>>
<1>t. walk \in Walk /\ inbox \subseteq Uid /\ lastUid \in 0..MaxMail
  BY DEF MailboxTypeOK
<1> DEFINE th == IF walk.page = 1 THEN inbox ELSE walk.there
           fr == IF walk.page = 1 THEN lastUid ELSE walk.from
<1>1. th \subseteq Uid /\ fr \in 0..MaxMail
  BY <1>t DEF Walk
<1>2. walk' = [walk EXCEPT !.pc = "fetch", !.view = inbox, !.there = th, !.from = fr]
  BY DEF OpenInbox
<1> HIDE DEF th, fr
<1>3. /\ walk' \in Walk /\ walk'.pc = "fetch" /\ walk'.view = inbox
      /\ walk'.page = walk.page /\ walk'.limit = walk.limit
      /\ walk'.there = th /\ walk'.from = fr
  BY <1>t, <1>1, <1>2 DEF Walk
<1> QED
  BY <1>3 DEF OpenInbox, th, fr

LEMMA FetchFacts ==
  ASSUME MailboxTypeOK, FetchPage
  PROVE  /\ walk.pc = "fetch" /\ walk' \in Walk
         /\ walk'.view = {} /\ walk'.limit = walk.limit
         /\ walk'.there = walk.there /\ walk'.from = walk.from
         /\ IF Past < Cardinality(walk.view)
              THEN walk'.pc = "request" /\ walk'.page = walk.page + 1
              ELSE walk'.pc = "done" /\ walk'.page = walk.page
         /\ \E listed \in SUBSET Slice :
              /\ Slice \cap inbox \subseteq listed
              /\ shown' = [u \in Uid |-> shown[u] + IF u \in listed THEN 1 ELSE 0]
         /\ UNCHANGED <<channel, inbox, lastUid>>
<1>t. walk \in Walk /\ walk.view \subseteq Uid
  BY WalkType DEF MailboxTypeOK
<1> DEFINE total == Cardinality(walk.view)
           more == HasNext(total, walk.page, walk.limit)
<1>1. more <=> Past < total
  <2>1. total \in Nat
    BY <1>t, UidsFinite
  <2> QED
    BY <2>1, WalkType, HasNextIsMore DEF Past
<1>2. more => walk.page + 1 \in 1..MaxMail + 1
  <2>1. total \in Nat /\ total <= MaxMail
    BY <1>t, UidsFinite
  <2>2. walk.page \in Nat \ {0} /\ walk.limit \in Nat \ {0}
    BY WalkType
  <2>3. more => walk.page < total
    BY <2>1, <2>2, PageIsLess
  <2> HIDE DEF total, more
  <2> QED
    BY <2>1, <2>2, <2>3, MailboxAssumption
<1>3. PICK listed \in {l \in SUBSET Slice : Slice \cap inbox \subseteq l} :
        /\ shown' = [u \in Uid |-> shown[u] + IF u \in listed THEN 1 ELSE 0]
        /\ walk' = [walk EXCEPT !.pc = IF more THEN "request" ELSE "done",
                                !.page = IF more THEN @ + 1 ELSE @,
                                !.view = {}]
  BY DEF FetchPage
<1>4. walk.pc = "fetch" /\ UNCHANGED <<channel, inbox, lastUid>>
  BY DEF FetchPage
<1> HIDE DEF more
<1>5. CASE more
  <2>1. walk' = [walk EXCEPT !.pc = "request", !.page = walk.page + 1, !.view = {}]
    BY <1>3, <1>5
  <2>2. /\ walk' \in Walk /\ walk'.pc = "request" /\ walk'.page = walk.page + 1
        /\ walk'.view = {} /\ walk'.limit = walk.limit
        /\ walk'.there = walk.there /\ walk'.from = walk.from
    BY <1>t, <1>2, <1>5, <2>1 DEF Walk
  <2> QED
    BY <1>1, <1>3, <1>4, <1>5, <2>2
<1>6. CASE ~more
  <2>1. walk' = [walk EXCEPT !.pc = "done", !.page = walk.page, !.view = {}]
    BY <1>3, <1>6
  <2>2. /\ walk' \in Walk /\ walk'.pc = "done" /\ walk'.page = walk.page
        /\ walk'.view = {} /\ walk'.limit = walk.limit
        /\ walk'.there = walk.there /\ walk'.from = walk.from
    BY <1>t, <1>6, <2>1 DEF Walk
  <2> QED
    BY <1>1, <1>3, <1>4, <1>6, <2>2
<1> QED
  BY <1>5, <1>6

\* The steps that concern neither the inbox nor the walk.
LEMMA MailboxSteps ==
  ASSUME [MailboxNext]_mailVars
  PROVE  \/ Arrive \/ (\E u \in Uid : Remove(u))
         \/ ListEmails \/ FetchFails \/ OpenInbox \/ FetchPage
         \/ UNCHANGED <<inbox, lastUid, walk, shown>>
BY DEF MailboxNext, DeleteEmailChannel, mailVars

-----------------------------------------------------------------------------
(* Types.                                                                  *)

LEMMA ChannelStep ==
  ASSUME MailboxTypeOK, [MailboxNext]_mailVars
  PROVE  channel' \in BOOLEAN
BY DEF MailboxTypeOK, MailboxNext, Arrive, DeleteEmailChannel, Remove, ListEmails, OpenInbox,
       FetchPage, FetchFails, mailVars

LEMMA MailboxTypeStep ==
  ASSUME MailboxTypeOK, MailInv, [MailboxNext]_mailVars
  PROVE  MailboxTypeOK'
<1> DEFINE Rest == /\ inbox \subseteq Uid /\ lastUid \in 0..MaxMail /\ walk \in Walk
                   /\ shown \in [Uid -> 0..MaxMail + 1]
<1>t. Rest /\ MaxMail \in Nat
  BY MailboxAssumption DEF MailboxTypeOK
<1>1. CASE Arrive
  <2>1. lastUid + 1 \in Uid /\ lastUid + 1 \in 0..MaxMail
    BY <1>1, <1>t DEF Arrive, Uid
  <2> QED
    BY <1>1, <1>t, <2>1, ChannelStep DEF Arrive, MailboxTypeOK
<1>2. ASSUME NEW u \in Uid, Remove(u) PROVE MailboxTypeOK'
  BY <1>2, <1>t, ChannelStep DEF Remove, MailboxTypeOK
<1>3. CASE ListEmails \/ FetchFails
  BY <1>3, <1>t, ChannelStep, ListFacts DEF MailboxTypeOK
<1>4. CASE OpenInbox
  BY <1>4, <1>t, ChannelStep, OpenFacts DEF MailboxTypeOK
<1>5. CASE FetchPage
  <2>1. PICK listed \in SUBSET Slice :
          shown' = [u \in Uid |-> shown[u] + IF u \in listed THEN 1 ELSE 0]
    BY <1>5, FetchFacts
  <2>2. walk.pc = "fetch" /\ walk' \in Walk /\ UNCHANGED <<inbox, lastUid>>
    BY <1>5, FetchFacts
  <2>3. ASSUME NEW u \in Uid PROVE shown[u] + (IF u \in listed THEN 1 ELSE 0) \in 0..MaxMail + 1
    <3>1. shown[u] \in 0..MaxMail + 1 /\ shown[u] <= walk.page - 1
      BY <1>t, <2>2 DEF MailInv, Walking
    <3>2. walk.page \in 1..MaxMail + 1
      BY <1>t DEF Walk
    <3> QED
      BY <3>1, <3>2, <1>t
  <2>4. shown' \in [Uid -> 0..MaxMail + 1]
    BY <2>1, <2>3
  <2> QED
    BY <2>2, <2>4, <1>t, ChannelStep DEF MailboxTypeOK
<1>6. CASE UNCHANGED <<inbox, lastUid, walk, shown>>
  BY <1>6, <1>t, ChannelStep DEF MailboxTypeOK
<1> QED
  BY <1>1, <1>2, <1>3, <1>4, <1>5, <1>6, MailboxSteps

-----------------------------------------------------------------------------
(* MailInv.                                                                *)

LEMMA MailStep ==
  ASSUME MailboxTypeOK, MailInv, [MailboxNext]_mailVars
  PROVE  MailInv'
<1> USE DEF Known, Walking
<1>t. /\ inbox \subseteq Uid /\ lastUid \in Nat /\ walk \in Walk /\ walk.from \in Nat
      /\ walk.page \in Nat \ {0} /\ shown \in [Uid -> Nat]
  <2>1. shown \in [Uid -> Nat]
    BY MailboxAssumption DEF MailboxTypeOK
  <2> QED
    BY <2>1, WalkType DEF MailboxTypeOK
<1>1. CASE Arrive
  <2>1. /\ lastUid' = lastUid + 1 /\ inbox' = inbox \cup {lastUid + 1}
        /\ UNCHANGED <<walk, shown>>
    BY <1>1 DEF Arrive
  <2>2. inbox' \subseteq 1..lastUid'
    <3>1. inbox \subseteq 1..lastUid
      BY DEF MailInv
    <3>2. 1..lastUid \subseteq 1..lastUid + 1 /\ lastUid + 1 \in 1..lastUid + 1
      BY <1>t
    <3> QED
      BY <2>1, <3>1, <3>2
  <2>3. inbox' \subseteq Known'
    <3>1. \A v \in walk.from + 1..lastUid : v \in walk.from + 1..lastUid + 1
      BY <1>t
    <3>2. lastUid + 1 \in walk.from + 1..lastUid + 1
      BY <1>t DEF MailInv
    <3> QED
      BY <2>1, <3>1, <3>2 DEF MailInv
  <2>4. \A u \in Uid : shown[u] > 0 => u <= lastUid + 1
    BY <1>t DEF MailInv, Uid
  <2>5. ASSUME walk.pc = "fetch"
        PROVE  walk.view \subseteq 1..lastUid + 1 /\ walk.there \cap inbox' \subseteq walk.view
    <3>1. walk.view \subseteq 1..lastUid /\ walk.there \cap inbox \subseteq walk.view
      BY <2>5 DEF MailInv
    <3>2. lastUid + 1 \notin walk.there
      BY <1>t DEF MailInv
    <3>3. 1..lastUid \subseteq 1..lastUid + 1
      BY <1>t
    <3> QED
      BY <2>1, <3>1, <3>2, <3>3
  <2>6. walk.from <= lastUid + 1
    BY <1>t DEF MailInv
  <2> QED
    BY <2>1, <2>2, <2>3, <2>4, <2>5, <2>6 DEF MailInv
<1>2. ASSUME NEW u \in Uid, Remove(u) PROVE MailInv'
  BY <1>2 DEF Remove, MailInv
<1>3. CASE ListEmails \/ FetchFails
  <2>1. /\ walk'.pc \in {"connect", "failed"} /\ walk'.view = {}
        /\ walk'.page = walk.page /\ walk'.there = walk.there /\ walk'.from = walk.from
        /\ walk'.pc = "connect" => walk.pc = "request"
        /\ UNCHANGED <<inbox, lastUid, shown>>
    BY <1>3, ListFacts DEF MailInv
  <2> QED
    BY <2>1 DEF MailInv
<1>4. CASE OpenInbox
  <2>1. /\ walk.pc = "connect" /\ walk'.pc = "fetch" /\ walk'.view = inbox
        /\ walk'.page = walk.page
        /\ walk.page = 1 => walk'.there = inbox /\ walk'.from = lastUid
        /\ walk.page # 1 => walk'.there = walk.there /\ walk'.from = walk.from
        /\ UNCHANGED <<inbox, lastUid, shown>>
    BY <1>4, OpenFacts
  <2>2. inbox \subseteq 1..lastUid /\ \A u \in Uid : shown[u] <= walk.page - 1
    BY <2>1 DEF MailInv
  <2>3. /\ inbox' \subseteq Known' /\ walk'.there \subseteq 1..walk'.from
        /\ walk'.from <= lastUid
    <3>1. CASE walk.page = 1
      <4>1. walk'.there = inbox /\ walk'.from = lastUid /\ inbox' = inbox
        BY <2>1, <3>1
      <4>2. inbox' \subseteq Known'
        BY <4>1
      <4> QED
        BY <4>1, <4>2, <2>2, <1>t
    <3>2. CASE walk.page # 1
      BY <2>1, <3>2 DEF MailInv
    <3> QED
      BY <3>1, <3>2
  <2> QED
    BY <2>1, <2>2, <2>3 DEF MailInv
<1>5. CASE FetchPage
  <2>1. /\ walk.pc = "fetch" /\ walk'.view = {}
        /\ walk'.there = walk.there /\ walk'.from = walk.from
        /\ \/ walk'.pc = "request" /\ walk'.page = walk.page + 1
           \/ walk'.pc = "done" /\ walk'.page = walk.page
        /\ UNCHANGED <<inbox, lastUid>>
    BY <1>5, FetchFacts
  <2>2. PICK listed \in SUBSET Slice :
          shown' = [u \in Uid |-> shown[u] + IF u \in listed THEN 1 ELSE 0]
    BY <1>5, FetchFacts
  <2>3. ASSUME NEW u \in Uid
        PROVE  shown'[u] <= walk.page /\ (shown'[u] > 0 => u <= lastUid)
    <3>1. shown[u] \in Nat /\ shown[u] <= walk.page - 1 /\ (shown[u] > 0 => u <= lastUid)
      BY <1>t, <2>1 DEF MailInv
    <3>2. u \in listed => u <= lastUid
      BY <2>1 DEF MailInv, Slice
    <3> QED
      BY <2>2, <3>1, <3>2, <1>t
  <2>4. \A u \in Uid : /\ shown'[u] <= walk'.page
                       /\ Walking' => shown'[u] <= walk'.page - 1
                       /\ shown'[u] > 0 => u <= lastUid
    <3>1. \A u \in Uid : shown'[u] \in Nat
      BY <2>2, <1>t
    <3>2. ASSUME NEW u \in Uid
          PROVE  /\ shown'[u] <= walk'.page /\ (Walking' => shown'[u] <= walk'.page - 1)
                 /\ shown'[u] > 0 => u <= lastUid
      BY <2>1, <2>3, <3>1, <1>t
    <3> QED
      BY <3>2
  <2> QED
    BY <2>1, <2>4 DEF MailInv
<1>6. CASE UNCHANGED <<inbox, lastUid, walk, shown>>
  BY <1>6 DEF MailInv
<1> QED
  BY <1>1, <1>2, <1>3, <1>4, <1>5, <1>6, MailboxSteps

-----------------------------------------------------------------------------
(* SkipInv: a mail that will not be shown is paid for by a removed one.    *)

LEMMA KnownFinite ==
  ASSUME NEW there \in SUBSET Uid, NEW from \in Nat, NEW last \in Nat, last <= MaxMail
  PROVE  IsFiniteSet(there \cup (from + 1..last))
<1>1. from + 1..last \subseteq Uid
  BY MailboxAssumption DEF Uid
<1> QED
  BY <1>1, UidsFinite

LEMMA RemovedFinite ==
  ASSUME MailboxTypeOK
  PROVE  IsFiniteSet(Removed) /\ Cardinality(Removed) \in Nat
<1>1. Removed \subseteq walk.there \cup (walk.from + 1..lastUid)
  BY DEF Removed, Known
<1> QED
  BY <1>1, WalkType, KnownFinite, Fewer

LEMMA NextRemovedFinite ==
  ASSUME MailboxTypeOK'
  PROVE  IsFiniteSet(Removed') /\ Cardinality(Removed') \in Nat
<1>1. walk' \in Walk /\ lastUid' \in Nat /\ lastUid' <= MaxMail
  BY MailboxAssumption DEF MailboxTypeOK
<1>2. walk'.there \in SUBSET Uid /\ walk'.from \in Nat
  BY <1>1, MailboxAssumption DEF Walk
<1>3. Removed' \subseteq walk'.there \cup (walk'.from + 1..lastUid')
  BY DEF Removed, Known
<1> QED
  BY <1>1, <1>2, <1>3, KnownFinite, Fewer

LEMMA MissedFinite ==
  ASSUME MailboxTypeOK
  PROVE  IsFiniteSet(Missed) /\ Cardinality(Missed) \in Nat
<1>1. Missed \subseteq Uid
  BY WalkType DEF Missed
<1> QED
  BY <1>1, UidsFinite

\* The cases of Passed.
LEMMA PassedCases ==
  ASSUME NEW u
  PROVE  /\ walk.pc \in {"request", "connect"} => (Passed(u) <=> Newer(u, inbox) < First)
         /\ walk.pc = "fetch" =>
              (Passed(u) <=> \/ Newer(u, walk.view) < First
                             \/ Newer(u, walk.view) >= Past /\ Newer(u, inbox) < Past)
         /\ walk.pc \notin {"request", "connect", "fetch"} => Passed(u)
  BY DEF Passed

LEMMA NextPassedCases ==
  ASSUME NEW u
  PROVE  /\ walk'.pc \in {"request", "connect"} => (Passed(u)' <=> Newer(u, inbox') < First')
         /\ walk'.pc = "fetch" =>
              (Passed(u)' <=> \/ Newer(u, walk'.view) < First'
                              \/ Newer(u, walk'.view) >= Past' /\ Newer(u, inbox') < Past')
         /\ walk'.pc \notin {"request", "connect", "fetch"} => Passed(u)'
  BY DEF Passed, Newer

\* A mail that arrives hides none.
LEMMA ArrivalHidesNothing ==
  ASSUME MailboxTypeOK, MailInv, Arrive
  PROVE  Missed' \subseteq Missed /\ Removed \subseteq Removed' /\ UNCHANGED walk
<1> DEFINE n == lastUid + 1
<1>1. /\ inbox' = inbox \cup {n} /\ lastUid' = n /\ UNCHANGED <<walk, shown>>
      /\ n \in Uid
  BY WalkType, MailboxAssumption DEF Arrive, Uid
<1>2. /\ \A v \in inbox : v < n
      /\ \A v \in Known : v # n
      /\ Known \subseteq Known'
  <2>1. inbox \subseteq 1..lastUid /\ walk.there \subseteq 1..walk.from /\ walk.from <= lastUid
    BY DEF MailInv
  <2> QED
    BY <1>1, <2>1, WalkType DEF Known
<1>3. Removed \subseteq Removed'
  BY <1>1, <1>2 DEF Removed
<1>4. First' = First /\ Past' = Past
  BY <1>1 DEF First, Past
<1>5. ASSUME NEW x \in Missed'
      PROVE  x \in Missed
  <2>1. x \in walk.there /\ x \in inbox /\ x \in Uid /\ shown[x] = 0 /\ Passed(x)'
    BY <1>1, <1>2, <1>5, WalkType DEF Missed, Known
  <2>2. Newer(x, inbox') = Newer(x, inbox) + 1 /\ Newer(x, inbox) \in Nat
    BY <1>1, <1>2, <2>1, WalkType, NewerArrives, NewerNat
  <2>3. Passed(x)
    BY <1>1, <1>4, <2>1, <2>2, WalkType, PassedCases, NextPassedCases
  <2> QED
    BY <2>1, <2>3 DEF Missed
<1> QED
  BY <1>1, <1>3, <1>5

\* A mail that is removed moves at most one other into the part of the list
\* that was passed.
LEMMA RemovalHidesOne ==
  ASSUME MailboxTypeOK, MailInv, NEW r \in Uid, Remove(r)
  PROVE  /\ Cardinality(Removed') = Cardinality(Removed) + 1
         /\ Cardinality(Missed') <= Cardinality(Missed) + 1 /\ Cardinality(Missed') \in Nat
         /\ UNCHANGED walk
<1>1. r \in inbox /\ inbox' = inbox \ {r} /\ UNCHANGED <<walk, shown, lastUid>>
  BY DEF Remove
<1>2. Removed' = Removed \cup {r} /\ r \notin Removed
  BY <1>1 DEF Removed, Known, MailInv
<1>3. First' = First /\ Past' = Past
  BY <1>1 DEF First, Past
<1> DEFINE n == IF walk.pc = "fetch" THEN Past ELSE First
<1>4. ASSUME NEW x \in Missed', x \notin Missed
      PROVE  x \in inbox /\ Newer(x, inbox) = n
  <2>1. x \in walk.there /\ x \in inbox /\ x \in Uid /\ shown[x] = 0 /\ Passed(x)'
    BY <1>1, <1>4, WalkType DEF Missed
  <2>2. /\ Newer(x, inbox') = Newer(x, inbox) \/ Newer(x, inbox') = Newer(x, inbox) - 1
        /\ Newer(x, inbox) \in Nat
    BY <1>1, <2>1, WalkType, NewerRemoves, NewerNat
  <2>3. ~Passed(x)
    BY <1>4, <2>1 DEF Missed
  <2>4. First \in Nat /\ Past \in Nat
    BY WalkType
  <2>5. CASE walk.pc \in {"request", "connect"}
    <3>1. Newer(x, inbox') < First /\ ~(Newer(x, inbox) < First)
      BY <1>1, <1>3, <2>1, <2>3, <2>5, PassedCases, NextPassedCases
    <3> QED
      BY <2>1, <2>2, <2>4, <2>5, <3>1
  <2>6. CASE walk.pc = "fetch"
    <3>1. Newer(x, inbox') < Past /\ ~(Newer(x, inbox) < Past)
      BY <1>1, <1>3, <2>1, <2>3, <2>6, PassedCases, NextPassedCases
    <3> QED
      BY <2>1, <2>2, <2>4, <2>6, <3>1
  <2>7. walk.pc \in {"request", "connect", "fetch"}
    BY <2>3, PassedCases
  <2> QED
    BY <2>5, <2>6, <2>7
<1>5. Missed' \subseteq Missed \cup {u \in inbox : Newer(u, inbox) = n}
  BY <1>4
<1>6. Cardinality(Missed') <= Cardinality(Missed) + 1 /\ Cardinality(Missed') \in Nat
  BY <1>5, WalkType, MissedFinite, OneMorePlace
<1>7. Cardinality(Removed') = Cardinality(Removed) + 1
  BY <1>2, RemovedFinite, FS_AddElement
<1> QED
  BY <1>1, <1>6, <1>7

\* A page that is fetched shows what it holds; what it passes was missed before.
LEMMA FetchHidesNothing ==
  ASSUME MailboxTypeOK, MailInv, FetchPage
  PROVE  Missed' \subseteq Missed /\ Removed' = Removed
<1>1. /\ walk.pc = "fetch" /\ walk'.view = {} /\ walk'.limit = walk.limit
      /\ walk'.there = walk.there /\ walk'.from = walk.from
      /\ IF Past < Cardinality(walk.view)
           THEN walk'.pc = "request" /\ walk'.page = walk.page + 1
           ELSE walk'.pc = "done" /\ walk'.page = walk.page
      /\ UNCHANGED <<inbox, lastUid>>
  BY FetchFacts
<1>2. PICK listed \in SUBSET Slice :
        /\ Slice \cap inbox \subseteq listed
        /\ shown' = [u \in Uid |-> shown[u] + IF u \in listed THEN 1 ELSE 0]
  BY FetchFacts
<1>3. Removed' = Removed
  BY <1>1 DEF Removed, Known
<1>4. ASSUME NEW x \in Missed'
      PROVE  x \in Missed
  <2>1. x \in walk.there /\ x \in inbox /\ x \in Uid /\ shown'[x] = 0 /\ Passed(x)'
    BY <1>1, <1>4, WalkType DEF Missed
  <2>2. shown[x] = 0 /\ x \notin Slice
    <3>1. shown[x] \in Nat
      BY <2>1, MailboxAssumption DEF MailboxTypeOK
    <3> QED
      BY <1>2, <2>1, <3>1
  <2>3. x \in walk.view
    BY <1>1, <2>1 DEF MailInv
  <2>4. /\ Newer(x, walk.view) \in Nat /\ Newer(x, walk.view) < Cardinality(walk.view)
        /\ Newer(x, inbox) \in Nat /\ Cardinality(walk.view) \in Nat
    BY <2>1, <2>3, WalkType, NewerNat, UidsFinite
  <2>5. Newer(x, walk.view) < First \/ Newer(x, walk.view) >= Past
    BY <2>1, <2>2, <2>3, <2>4, WalkType, SliceIsRange
  <2>6. Passed(x)
    <3>1. CASE Past < Cardinality(walk.view)
      <4>1. First' = Past
        BY <1>1, <3>1, WalkType DEF First, Past
      <4>2. Newer(x, inbox) < Past
        BY <1>1, <2>1, <3>1, <4>1, NextPassedCases
      <4> QED
        BY <1>1, <2>5, <4>2, PassedCases
    <3>2. CASE ~(Past < Cardinality(walk.view))
      <4>1. Newer(x, walk.view) < First
        BY <2>4, <2>5, <3>2, WalkType
      <4> QED
        BY <1>1, <4>1, PassedCases
    <3> QED
      BY <3>1, <3>2
  <2> QED
    BY <2>1, <2>2, <2>6 DEF Missed
<1> QED
  BY <1>3, <1>4

\* What a session numbers is the inbox as it is.
LEMMA OpenHidesNothing ==
  ASSUME MailboxTypeOK, MailInv, OpenInbox
  PROVE  Missed' = {} \/ (Missed' \subseteq Missed /\ Removed' = Removed)
<1>1. /\ walk.pc = "connect" /\ walk'.pc = "fetch" /\ walk'.view = inbox
      /\ walk'.page = walk.page /\ walk'.limit = walk.limit
      /\ walk.page = 1 => walk'.there = inbox /\ walk'.from = lastUid
      /\ walk.page # 1 => walk'.there = walk.there /\ walk'.from = walk.from
      /\ UNCHANGED <<inbox, lastUid, shown>>
  BY OpenFacts
<1>2. First' = First /\ Past' = Past
  BY <1>1 DEF First, Past
<1>3. ASSUME NEW x \in Missed'
      PROVE  x \in Uid /\ x \in inbox /\ shown[x] = 0 /\ Newer(x, inbox) < First
             /\ x \in walk'.there /\ Newer(x, inbox) \in Nat
  <2>1. x \in Uid /\ x \in inbox /\ shown[x] = 0 /\ Passed(x)' /\ x \in walk'.there
    BY <1>1, <1>3, WalkType DEF Missed
  <2>2. Newer(x, inbox) \in Nat
    BY <2>1, WalkType, NewerNat
  <2> QED
    BY <1>1, <1>2, <2>1, <2>2, WalkType, NextPassedCases
<1>4. CASE walk.page = 1
  <2>1. First = 0
    BY <1>4, WalkType DEF First
  <2> QED
    BY <1>3, <2>1
<1>5. CASE walk.page # 1
  <2>1. Removed' = Removed
    BY <1>1, <1>5 DEF Removed, Known
  <2>2. Missed' \subseteq Missed
    BY <1>1, <1>3, <1>5, PassedCases DEF Missed
  <2> QED
    BY <2>1, <2>2
<1> QED
  BY <1>4, <1>5

LEMMA SkipStep ==
  ASSUME MailboxTypeOK, MailboxTypeOK', MailInv, SkipInv, [MailboxNext]_mailVars
  PROVE  SkipInv'
<1> SUFFICES ASSUME walk'.pc # "failed"
             PROVE  Cardinality(Missed') <= Cardinality(Removed')
  BY DEF SkipInv
<1>f. /\ Cardinality(Missed) \in Nat /\ Cardinality(Removed) \in Nat
      /\ IsFiniteSet(Missed) /\ IsFiniteSet(Removed)
      /\ IsFiniteSet(Removed') /\ Cardinality(Removed') \in Nat
  BY MissedFinite, RemovedFinite, NextRemovedFinite
<1>k. ASSUME walk.pc # "failed", Missed' \subseteq Missed, Removed \subseteq Removed'
      PROVE  Cardinality(Missed') <= Cardinality(Removed')
  <2>1. Cardinality(Missed') <= Cardinality(Missed) /\ Cardinality(Missed') \in Nat
    BY <1>f, <1>k, Fewer
  <2>2. Cardinality(Removed) <= Cardinality(Removed')
    BY <1>f, <1>k, Fewer
  <2> QED
    BY <1>f, <1>k, <2>1, <2>2 DEF SkipInv
<1>1. CASE Arrive
  BY <1>1, <1>k, ArrivalHidesNothing
<1>2. ASSUME NEW u \in Uid, Remove(u)
      PROVE  Cardinality(Missed') <= Cardinality(Removed')
  <2>1. walk.pc # "failed"
    BY <1>2, RemovalHidesOne
  <2> QED
    BY <1>2, <1>f, <2>1, RemovalHidesOne DEF SkipInv
<1>3. CASE ListEmails \/ FetchFails
  <2>1. /\ walk'.pc = "connect" /\ walk.pc = "request"
        /\ walk'.page = walk.page /\ walk'.limit = walk.limit
        /\ walk'.there = walk.there /\ walk'.from = walk.from
        /\ UNCHANGED <<inbox, lastUid, shown>>
    BY <1>3, ListFacts
  <2>2. First' = First /\ Removed' = Removed
    BY <2>1 DEF First, Removed, Known
  <2>3. \A x : Passed(x)' <=> Passed(x)
    BY <2>1, <2>2, PassedCases, NextPassedCases
  <2>4. Missed' = Missed
    BY <2>1, <2>3 DEF Missed
  <2> QED
    BY <1>k, <2>1, <2>2, <2>4
<1>4. CASE OpenInbox
  <2>1. walk.pc = "connect"
    BY <1>4, OpenFacts
  <2>2. CASE Missed' = {}
    BY <1>f, <2>2, FS_EmptySet
  <2> QED
    BY <1>4, <1>k, <2>1, <2>2, OpenHidesNothing
<1>5. CASE FetchPage
  <2>1. walk.pc = "fetch"
    BY <1>5, FetchFacts
  <2> QED
    BY <1>5, <1>k, <2>1, FetchHidesNothing
<1>6. CASE UNCHANGED <<inbox, lastUid, walk, shown>>
  <2>1. Removed' = Removed /\ \A x : Passed(x)' <=> Passed(x)
    BY <1>6 DEF Removed, Known, Passed, First, Past, Newer
  <2>2. Missed' = Missed
    BY <1>6, <2>1 DEF Missed
  <2> QED
    BY <1>6, <1>k, <2>1, <2>2
<1> QED
  BY <1>1, <1>2, <1>3, <1>4, <1>5, <1>6, MailboxSteps

-----------------------------------------------------------------------------
(* RepeatInv: a mail that will be listed again is paid for by an arrival.  *)

LEMMA RepeatsFinite ==
  ASSUME MailboxTypeOK
  PROVE  /\ IsFiniteSet(Repetitions) /\ IsFiniteSet(Again) /\ IsFiniteSet(Later)
         /\ Cardinality(Repetitions) \in Nat
         /\ Cardinality(Again) \in Nat /\ Cardinality(Later) \in Nat
<1>1. IsFiniteSet(Uid \X (2..MaxMail + 1))
  <2>1. IsFiniteSet(Uid) /\ IsFiniteSet(2..MaxMail + 1)
    BY MailboxAssumption, UidsFinite, FS_Interval
  <2> QED
    BY <2>1, FS_Product
<1>2. Repetitions \subseteq Uid \X (2..MaxMail + 1)
  BY DEF Repetitions
<1>3. Again \subseteq Uid /\ Later \subseteq Uid
  BY WalkType DEF Again, Slice, Later
<1> QED
  BY <1>1, <1>2, <1>3, UidsFinite, Fewer

\* The cases of Later.
LEMMA LaterCases ==
  /\ walk.pc \in {"request", "connect"} =>
       Later = {u \in inbox : shown[u] > 0 /\ Newer(u, inbox) >= First}
  /\ walk.pc = "fetch" =>
       Later = {u \in inbox : (shown[u] > 0 \/ u \in Slice) /\ Newer(u, inbox) >= Past}
  /\ walk.pc \notin {"request", "connect", "fetch"} => Later = {}
  BY DEF Later

LEMMA NextLaterCases ==
  /\ walk'.pc \in {"request", "connect"} =>
       Later' = {u \in inbox' : shown'[u] > 0 /\ Newer(u, inbox') >= First'}
  /\ walk'.pc = "fetch" =>
       Later' = {u \in inbox' : (shown'[u] > 0 \/ u \in Slice') /\ Newer(u, inbox') >= Past'}
  /\ walk'.pc \notin {"request", "connect", "fetch"} => Later' = {}
  BY DEF Later, Newer

\* RepeatInv after a step that lists nothing and lets no mail arrive.
LEMMA RepeatsKept ==
  ASSUME MailboxTypeOK, RepeatInv, UNCHANGED <<lastUid, shown>>, walk'.from = walk.from,
         Again' \subseteq Again, Later' \subseteq Later
  PROVE  RepeatInv'
<1>1. Repetitions' = Repetitions
  BY DEF Repetitions
<1>2. /\ Cardinality(Again') <= Cardinality(Again) /\ Cardinality(Again') \in Nat
      /\ Cardinality(Later') <= Cardinality(Later) /\ Cardinality(Later') \in Nat
  BY RepeatsFinite, Fewer
<1> QED
  BY <1>1, <1>2, RepeatsFinite, WalkType DEF RepeatInv

\* Without a session there is no page.
LEMMA NoPage ==
  /\ walk.view = {} => Again = {}
  /\ walk'.view = {} => Again' = {}
  BY DEF Again, Slice

\* A mail that arrives brings at most one mail back into the part of the list
\* that is still to come.
LEMMA ArrivalRepeatsOne ==
  ASSUME MailboxTypeOK, MailInv, RepeatInv, Arrive
  PROVE  RepeatInv'
<1> DEFINE n == lastUid + 1
<1>1. /\ inbox' = inbox \cup {n} /\ lastUid' = n /\ UNCHANGED <<walk, shown>>
      /\ n \in Uid
  BY WalkType, MailboxAssumption DEF Arrive, Uid
<1>2. (\A v \in inbox : v < n) /\ ~(shown[n] > 0) /\ n \notin Slice
  <2>1. inbox \subseteq 1..lastUid /\ walk.view \subseteq 1..lastUid
    BY WalkType DEF MailInv
  <2>2. ~(shown[n] > 0)
    BY <1>1, WalkType DEF MailInv
  <2> QED
    BY <2>1, <2>2, WalkType DEF Slice
<1>3. First' = First /\ Past' = Past /\ Slice' = Slice
  BY <1>1 DEF First, Past, Slice, Number
<1>4. Repetitions' = Repetitions /\ Again' = Again
  BY <1>1, <1>3 DEF Repetitions, Again
<1> DEFINE p == (IF walk.pc = "fetch" THEN Past ELSE First) - 1
<1>5. ASSUME NEW x \in Later', x \notin Later
      PROVE  x \in inbox /\ Newer(x, inbox) = p
  <2>1. First \in Nat /\ Past \in Nat
    BY WalkType
  <2>2. CASE walk.pc \in {"request", "connect"}
    <3>1. x \in inbox' /\ shown[x] > 0 /\ Newer(x, inbox') >= First
      BY <1>1, <1>3, <1>5, <2>2, NextLaterCases
    <3>2. x \in inbox /\ x \in Uid
      BY <1>1, <1>2, <3>1, WalkType
    <3>3. Newer(x, inbox') = Newer(x, inbox) + 1 /\ Newer(x, inbox) \in Nat
      BY <1>1, <1>2, <3>2, WalkType, NewerArrives, NewerNat
    <3>4. ~(Newer(x, inbox) >= First)
      BY <1>5, <2>2, <3>1, <3>2, LaterCases
    <3> QED
      BY <2>1, <2>2, <3>1, <3>2, <3>3, <3>4
  <2>3. CASE walk.pc = "fetch"
    <3>1. x \in inbox' /\ (shown[x] > 0 \/ x \in Slice) /\ Newer(x, inbox') >= Past
      BY <1>1, <1>3, <1>5, <2>3, NextLaterCases
    <3>2. x \in inbox /\ x \in Uid
      BY <1>1, <1>2, <3>1, WalkType
    <3>3. Newer(x, inbox') = Newer(x, inbox) + 1 /\ Newer(x, inbox) \in Nat
      BY <1>1, <1>2, <3>2, WalkType, NewerArrives, NewerNat
    <3>4. ~(Newer(x, inbox) >= Past)
      BY <1>5, <2>3, <3>1, <3>2, LaterCases
    <3> QED
      BY <2>1, <2>3, <3>1, <3>2, <3>3, <3>4
  <2>4. walk.pc \in {"request", "connect", "fetch"}
    BY <1>1, <1>5, NextLaterCases
  <2> QED
    BY <2>2, <2>3, <2>4
<1>6. Later' \subseteq Later \cup {u \in inbox : Newer(u, inbox) = p}
  BY <1>5
<1>7. Cardinality(Later') <= Cardinality(Later) + 1 /\ Cardinality(Later') \in Nat
  BY <1>6, WalkType, RepeatsFinite, OneMorePlace
<1> QED
  BY <1>1, <1>4, <1>7, RepeatsFinite, WalkType DEF RepeatInv

\* A mail that is removed brings none back.
LEMMA RemovalRepeatsNothing ==
  ASSUME MailboxTypeOK, RepeatInv, NEW r \in Uid, Remove(r)
  PROVE  RepeatInv'
<1>1. r \in inbox /\ inbox' = inbox \ {r} /\ UNCHANGED <<walk, shown, lastUid>>
  BY DEF Remove
<1>2. First' = First /\ Past' = Past /\ Slice' = Slice
  BY <1>1 DEF First, Past, Slice, Number
<1>3. Again' = Again
  BY <1>1, <1>2 DEF Again
<1>4. ASSUME NEW x \in inbox'
      PROVE  x \in inbox /\ \A k \in Nat : Newer(x, inbox') >= k => Newer(x, inbox) >= k
  <2>1. x \in inbox /\ x \in Uid
    BY <1>1, <1>4, WalkType
  <2>2. /\ Newer(x, inbox') = Newer(x, inbox) \/ Newer(x, inbox') = Newer(x, inbox) - 1
        /\ Newer(x, inbox) \in Nat
    BY <1>1, <2>1, WalkType, NewerRemoves, NewerNat
  <2> QED
    BY <2>1, <2>2
<1>5. Later' \subseteq Later
  <2>1. First \in Nat /\ Past \in Nat
    BY WalkType
  <2>2. CASE walk.pc \in {"request", "connect"}
    BY <1>1, <1>2, <1>4, <2>1, <2>2, LaterCases, NextLaterCases
  <2>3. CASE walk.pc = "fetch"
    BY <1>1, <1>2, <1>4, <2>1, <2>3, LaterCases, NextLaterCases
  <2>4. CASE walk.pc \notin {"request", "connect", "fetch"}
    BY <1>1, <2>4, NextLaterCases
  <2> QED
    BY <2>2, <2>3, <2>4
<1> QED
  BY <1>1, <1>3, <1>5, RepeatsKept

\* The first page lists nothing again; a later one lists, now or in a page after
\* it, what was to be listed again.
LEMMA OpenRepeatsNothing ==
  ASSUME MailboxTypeOK, MailboxTypeOK', MailInv, RepeatInv, OpenInbox
  PROVE  RepeatInv'
<1>1. /\ walk.pc = "connect" /\ walk'.pc = "fetch" /\ walk'.view = inbox
      /\ walk'.page = walk.page /\ walk'.limit = walk.limit
      /\ walk.page = 1 => walk'.there = inbox /\ walk'.from = lastUid
      /\ walk.page # 1 => walk'.there = walk.there /\ walk'.from = walk.from
      /\ UNCHANGED <<inbox, lastUid, shown>>
  BY OpenFacts
<1>2. First' = First /\ Past' = Past /\ Past = First + walk.limit
      /\ First \in Nat /\ Past \in Nat /\ walk.limit \in Nat
  BY <1>1, WalkType DEF First, Past
<1>3. Repetitions' = Repetitions
  BY <1>1 DEF Repetitions
<1>4. \A x \in Uid : x \in Slice' <=> x \in inbox /\ First <= Newer(x, inbox)
                                      /\ Newer(x, inbox) < Past
  BY <1>1, WalkType, NextSliceIsRange DEF First, Past
<1>5. inbox \subseteq Uid /\ \A x \in inbox : Newer(x, inbox) \in Nat
  <2>1. inbox \subseteq Uid
    BY WalkType
  <2> QED
    BY <2>1, NewerNat
<1>6. Later = {u \in inbox : shown[u] > 0 /\ Newer(u, inbox) >= First}
  BY <1>1, LaterCases
<1>7. Later' = {u \in inbox : (shown[u] > 0 \/ u \in Slice') /\ Newer(u, inbox) >= Past}
  BY <1>1, <1>2, NextLaterCases
<1>8. Again' = {u \in Slice' : shown[u] > 0} /\ Slice' \subseteq inbox
  BY <1>1 DEF Again, Slice
<1>9. Again' \cup Later' \subseteq Later /\ Again' \cap Later' = {}
  BY <1>2, <1>4, <1>5, <1>6, <1>7, <1>8
<1>10. /\ IsFiniteSet(Again') /\ IsFiniteSet(Later')
       /\ Cardinality(Again') \in Nat /\ Cardinality(Later') \in Nat
       /\ Cardinality(Again') + Cardinality(Later') <= Cardinality(Later)
  <2>1. Again' \subseteq Later /\ Later' \subseteq Later
    BY <1>9
  <2>2. /\ IsFiniteSet(Again') /\ IsFiniteSet(Later')
        /\ Cardinality(Again') \in Nat /\ Cardinality(Later') \in Nat
    BY <2>1, RepeatsFinite, Fewer
  <2>3. Cardinality(Again' \cup Later')
          = Cardinality(Again') + Cardinality(Later') - Cardinality(Again' \cap Later')
    BY <2>2, FS_Union
  <2>4. Cardinality(Again' \cap Later') = 0
    BY <1>9, FS_EmptySet
  <2>5. Cardinality(Again' \cup Later') <= Cardinality(Later)
    BY <1>9, RepeatsFinite, Fewer
  <2> QED
    BY <2>2, <2>3, <2>4, <2>5
<1>11. CASE walk.page = 1
  <2>1. \A u \in Uid : shown[u] \in Nat /\ ~(shown[u] > 0)
    <3>1. \A u \in Uid : shown[u] \in Nat /\ shown[u] <= walk.page - 1
      BY <1>1, MailboxAssumption DEF MailInv, Walking, MailboxTypeOK
    <3> QED
      BY <1>11, <3>1
  <2>2. Later = {}
    BY <1>5, <1>6, <2>1
  <2>3. Repetitions = {}
    BY <2>1 DEF Repetitions
  <2>4. Cardinality(Again') + Cardinality(Later') = 0 /\ Cardinality(Repetitions') = 0
    BY <1>3, <1>10, <2>2, <2>3, FS_EmptySet
  <2>5. Cardinality(Repetitions') + Cardinality(Again') + Cardinality(Later') = 0
    BY <1>10, <2>4
  <2>6. lastUid' - walk'.from = 0
    BY <1>1, <1>11, WalkType
  <2> QED
    BY <2>5, <2>6 DEF RepeatInv
<1>12. CASE walk.page # 1
  <2>1. Cardinality(Again) \in Nat /\ Cardinality(Repetitions) \in Nat
        /\ Cardinality(Later) \in Nat
    BY RepeatsFinite
  <2>2. lastUid' - walk'.from = lastUid - walk.from /\ lastUid - walk.from \in Int
    BY <1>1, <1>12, WalkType
  <2> QED
    BY <1>3, <1>10, <2>1, <2>2 DEF RepeatInv
<1> QED
  BY <1>11, <1>12

\* A page that is fetched repeats what it was about to.
LEMMA FetchRepeatsAgain ==
  ASSUME MailboxTypeOK, MailInv, RepeatInv, FetchPage
  PROVE  RepeatInv'
<1>1. /\ walk.pc = "fetch" /\ walk'.view = {} /\ walk'.limit = walk.limit
      /\ walk'.from = walk.from
      /\ \/ walk'.pc = "request" /\ walk'.page = walk.page + 1
         \/ walk'.pc = "done"
      /\ UNCHANGED <<inbox, lastUid>>
  BY FetchFacts
<1>2. PICK listed \in SUBSET Slice :
        shown' = [u \in Uid |-> shown[u] + IF u \in listed THEN 1 ELSE 0]
  BY FetchFacts
<1>t. \A u \in Uid : shown[u] \in Nat /\ shown[u] <= MaxMail
  <2>1. \A u \in Uid : shown[u] \in 0..MaxMail + 1 /\ shown[u] <= walk.page - 1
    BY <1>1 DEF MailInv, Walking, MailboxTypeOK
  <2>2. walk.page \in 1..MaxMail + 1
    BY DEF MailboxTypeOK, Walk
  <2> QED
    BY <2>1, <2>2, MailboxAssumption
<1>3. Slice \subseteq Uid
  BY WalkType DEF Slice
<1> DEFINE B == {u \in listed : shown[u] > 0}
           f == [u \in B |-> <<u, shown[u] + 1>>]
           new == {<<u, shown[u] + 1>> : u \in B}
<1>4. Repetitions' \subseteq Repetitions \cup new
  <2>1. ASSUME NEW d \in Repetitions', d \notin Repetitions
        PROVE  d \in new
    <3>1. /\ d \in Uid \X (2..MaxMail + 1) /\ d[2] <= shown'[d[1]] /\ ~(d[2] <= shown[d[1]])
      BY <2>1 DEF Repetitions
    <3>2. d = <<d[1], d[2]>> /\ d[1] \in Uid /\ d[2] \in Nat /\ d[2] >= 2
      BY <3>1, MailboxAssumption
    <3>3. d[1] \in listed /\ d[2] = shown[d[1]] + 1 /\ shown[d[1]] > 0
      BY <1>2, <1>t, <3>1, <3>2
    <3> QED
      BY <3>2, <3>3
  <2> QED
    BY <2>1
<1>5. IsFiniteSet(B) /\ Cardinality(B) <= Cardinality(Again) /\ Cardinality(B) \in Nat
  <2>1. B \subseteq Again
    BY DEF Again
  <2> QED
    BY <2>1, RepeatsFinite, Fewer
<1>6. IsFiniteSet(new) /\ Cardinality(new) <= Cardinality(B) /\ Cardinality(new) \in Nat
  <2>1. f \in Surjection(B, new)
    BY DEF Surjection
  <2> HIDE DEF B, f, new
  <2> QED
    BY <1>5, <2>1, FS_Surjection, FS_CardinalityType
<1> HIDE DEF B, f, new
<1>7. Cardinality(Repetitions') <= Cardinality(Repetitions) + Cardinality(Again)
      /\ Cardinality(Repetitions') \in Nat
  <2>1. /\ IsFiniteSet(Repetitions \cup new)
        /\ Cardinality(Repetitions \cup new)
             = Cardinality(Repetitions) + Cardinality(new) - Cardinality(Repetitions \cap new)
    BY <1>6, RepeatsFinite, FS_Union
  <2>2. Cardinality(Repetitions \cap new) \in Nat
    BY <1>6, Fewer
  <2>3. Cardinality(Repetitions') <= Cardinality(Repetitions \cup new)
        /\ Cardinality(Repetitions') \in Nat
    BY <1>4, <2>1, Fewer
  <2> QED
    BY <1>5, <1>6, <2>1, <2>2, <2>3, RepeatsFinite
<1>8. Again' = {}
  BY <1>1, NoPage
<1>9. Later' \subseteq Later
  <2>1. CASE walk'.pc = "request"
    <3>1. First' = Past
      BY <1>1, <2>1, WalkType DEF First, Past
    <3>2. Later' = {u \in inbox : shown'[u] > 0 /\ Newer(u, inbox) >= Past}
      BY <1>1, <2>1, <3>1, NextLaterCases
    <3>3. ASSUME NEW u \in inbox, shown'[u] > 0 PROVE shown[u] > 0 \/ u \in Slice
      BY <1>2, <1>t, <3>3, WalkType
    <3> QED
      BY <1>1, <3>2, <3>3, LaterCases
  <2>2. CASE walk'.pc = "done"
    BY <2>2, NextLaterCases
  <2> QED
    BY <1>1, <2>1, <2>2
<1>10. Cardinality(Later') <= Cardinality(Later) /\ Cardinality(Later') \in Nat
  BY <1>9, RepeatsFinite, Fewer
<1>11. Cardinality(Again') = 0
  BY <1>8, FS_EmptySet
<1> QED
  BY <1>1, <1>7, <1>10, <1>11, RepeatsFinite, WalkType DEF RepeatInv

LEMMA RepeatStep ==
  ASSUME MailboxTypeOK, MailboxTypeOK', MailInv, RepeatInv, [MailboxNext]_mailVars
  PROVE  RepeatInv'
<1>1. CASE Arrive
  BY <1>1, ArrivalRepeatsOne
<1>2. ASSUME NEW u \in Uid, Remove(u) PROVE RepeatInv'
  BY <1>2, RemovalRepeatsNothing
<1>3. CASE ListEmails \/ FetchFails
  <2>1. /\ walk'.pc \in {"connect", "failed"} /\ walk'.view = {}
        /\ walk'.pc = "connect" => walk.pc = "request"
        /\ walk'.page = walk.page /\ walk'.limit = walk.limit /\ walk'.from = walk.from
        /\ UNCHANGED <<inbox, lastUid, shown>>
    BY <1>3, ListFacts DEF MailInv
  <2>2. First' = First
    BY <2>1 DEF First
  <2>3. Later' \subseteq Later
    BY <2>1, <2>2, LaterCases, NextLaterCases
  <2>4. Again' \subseteq Again
    BY <2>1, NoPage
  <2> QED
    BY <2>1, <2>3, <2>4, RepeatsKept
<1>4. CASE OpenInbox
  BY <1>4, OpenRepeatsNothing
<1>5. CASE FetchPage
  BY <1>5, FetchRepeatsAgain
<1>6. CASE UNCHANGED <<inbox, lastUid, walk, shown>>
  <2>1. Again' = Again /\ Later' = Later
    BY <1>6 DEF Again, Later, Slice, Number, Newer, First, Past
  <2> QED
    BY <1>6, <2>1, RepeatsKept
<1> QED
  BY <1>1, <1>2, <1>3, <1>4, <1>5, <1>6, MailboxSteps

-----------------------------------------------------------------------------
(* The theorems about the inbox view.                                      *)

BoxInv == MailboxTypeOK /\ MailInv /\ SkipInv /\ RepeatInv

LEMMA BoxInit == MailboxInit => BoxInv
<1> SUFFICES ASSUME MailboxInit
             PROVE  BoxInv
  OBVIOUS
<1>1. PICK limit \in Limit :
        walk = [pc |-> "request", page |-> 1, limit |-> limit, view |-> {},
                there |-> {}, from |-> 0]
  BY DEF MailboxInit
<1>2. /\ inbox = {} /\ lastUid = 0 /\ shown = [u \in Uid |-> 0] /\ channel = TRUE
  BY DEF MailboxInit
<1>3. MailboxTypeOK
  <2>1. walk \in Walk
    BY <1>1, MailboxAssumption DEF Walk
  <2> QED
    BY <1>2, <2>1, MailboxAssumption DEF MailboxTypeOK
<1>4. MailInv
  BY <1>1, <1>2 DEF MailInv, Known, Walking
<1>5. Missed = {} /\ Again = {} /\ Later = {} /\ Repetitions = {}
  <2>1. Later = {}
    BY <1>1, <1>2, LaterCases
  <2>2. Repetitions = {}
    BY <1>2, MailboxAssumption DEF Repetitions
  <2> QED
    BY <1>1, <1>2, <2>1, <2>2, NoPage DEF Missed
<1>6. Cardinality({}) = 0
  BY FS_EmptySet
<1>7. SkipInv
  BY <1>3, <1>5, <1>6, RemovedFinite DEF SkipInv
<1>8. RepeatInv
  BY <1>1, <1>2, <1>5, <1>6 DEF RepeatInv
<1> QED
  BY <1>3, <1>4, <1>7, <1>8 DEF BoxInv

LEMMA BoxStep == BoxInv /\ [MailboxNext]_mailVars => BoxInv'
  BY MailboxTypeStep, MailStep, SkipStep, RepeatStep DEF BoxInv

LEMMA BoxInvariant == MailboxSpec => []BoxInv
  BY BoxInit, BoxStep, PTL DEF MailboxSpec

\* A client that went through all the pages missed at most one mail for each
\* that was deleted meanwhile, for any number of mails and any page size.
THEOREM SkipsExplained == MailboxSpec => []SkipsAreDeletions
<1>1. BoxInv => SkipsAreDeletions
  <2> SUFFICES ASSUME BoxInv, walk.pc = "done"
               PROVE  Cardinality({u \in walk.there \cap inbox : shown[u] = 0})
                        <= Cardinality(Removed)
    BY DEF SkipsAreDeletions
  <2>1. Missed = {u \in walk.there \cap inbox : shown[u] = 0}
    BY PassedCases DEF Missed
  <2> QED
    BY <2>1 DEF BoxInv, SkipInv
<1> QED
  BY <1>1, BoxInvariant, PTL

\* All the repetitions of a walk are no more than the mails that arrived since
\* it began, for any number of mails and any page size.
THEOREM RepeatsExplained == MailboxSpec => []RepeatsAreArrivals
<1>1. BoxInv => RepeatsAreArrivals
  BY RepeatsFinite, WalkType DEF BoxInv, RepeatInv, RepeatsAreArrivals
<1> QED
  BY <1>1, BoxInvariant, PTL

-----------------------------------------------------------------------------
(* The statistics of a day.                                                *)

\* Two sets that agree but for some elements are about as large.
LEMMA CloseSets ==
  ASSUME NEW A \in SUBSET Ticket, NEW B \in SUBSET Ticket, NEW T \in SUBSET Ticket,
         A \ T = B \ T
  PROVE  Differ(Cardinality(A), Cardinality(B), Cardinality(T))
<1>1. ASSUME NEW C \in SUBSET Ticket, NEW D \in SUBSET Ticket, C \ T = D \ T
      PROVE  Cardinality(C) <= Cardinality(D) + Cardinality(T)
             /\ Cardinality(C) \in Nat /\ Cardinality(D) \in Nat /\ Cardinality(T) \in Nat
  <2>1. IsFiniteSet(C) /\ IsFiniteSet(D) /\ IsFiniteSet(T) /\ IsFiniteSet(D \cup T)
    <3>1. D \cup T \subseteq Ticket
      OBVIOUS
    <3> QED
      BY <3>1, Fewer, AnalyticsAssumption
  <2>2. /\ Cardinality(C) \in Nat /\ Cardinality(D) \in Nat /\ Cardinality(T) \in Nat
        /\ Cardinality(D \cap T) \in Nat
    BY <2>1, FS_CardinalityType, Fewer
  <2>3. Cardinality(C) <= Cardinality(D \cup T)
    <3>1. C \subseteq D \cup T
      BY <1>1
    <3> QED
      BY <2>1, <3>1, Fewer
  <2>4. Cardinality(D \cup T) = Cardinality(D) + Cardinality(T) - Cardinality(D \cap T)
    BY <2>1, FS_Union
  <2> QED
    BY <2>2, <2>3, <2>4
<1>2. Cardinality(A) <= Cardinality(B) + Cardinality(T)
      /\ Cardinality(A) \in Nat /\ Cardinality(B) \in Nat /\ Cardinality(T) \in Nat
  BY <1>1
<1>3. Cardinality(B) <= Cardinality(A) + Cardinality(T)
  BY <1>1
<1> QED
  BY <1>2, <1>3 DEF Differ

LEMMA WithNat == ASSUME NEW st PROVE With(st) \in Nat
<1>1. {t \in Ticket : tickets[t] = st} \subseteq Ticket
  OBVIOUS
<1> QED
  BY <1>1, Fewer, AnalyticsAssumption DEF With

LEMMA TouchType ==
  ASSUME NEW c \in Counts, NEW t \in Ticket
  PROVE  Touch(c, t) \in Counts
  BY DEF Touch, Counts

LEMMA NoCountsType == NoCounts \in Counts
  BY DEF NoCounts, Counts

LEMMA AnalyticsTypeStep ==
  ASSUME AnalyticsTypeOK, [AnalyticsNext]_statsVars
  PROVE  AnalyticsTypeOK'
<1>t. /\ tickets \in [Ticket -> TicketStatus \cup {"NONE"}]
      /\ job \in [DayJob -> Handler] /\ row \in Counts
  BY DEF AnalyticsTypeOK
<1>1. ASSUME NEW t \in Ticket, NEW st \in TicketStatus \cup {"NONE"}, TicketChanges(t, st)
      PROVE  AnalyticsTypeOK'
  <2>1. ASSUME NEW j \in DayJob PROVE [job[j] EXCEPT !.counts = Touch(@, t)] \in Handler
    <3>1. Touch(job[j].counts, t) \in Counts
      BY <1>t, TouchType DEF Handler
    <3> QED
      BY <1>t, <3>1 DEF Handler
  <2>2. job' \in [DayJob -> Handler]
    BY <1>1, <2>1 DEF TicketChanges
  <2>3. row' \in Counts
    BY <1>1, <1>t, TouchType DEF TicketChanges
  <2> QED
    BY <1>1, <1>t, <2>2, <2>3 DEF TicketChanges, AnalyticsTypeOK
<1>2. ASSUME NEW j \in DayJob, NEW new \in Handler, job' = [job EXCEPT ![j] = new],
             UNCHANGED tickets, row' \in Counts
      PROVE  AnalyticsTypeOK'
  BY <1>2, <1>t DEF AnalyticsTypeOK
<1>3. ASSUME NEW j \in DayJob, CountOpen(j) PROVE AnalyticsTypeOK'
  <2> DEFINE new == [pc |-> "countClosed",
                     counts |-> [NoCounts EXCEPT !.openCount = With("OPEN")]]
  <2>1. new \in Handler
    <3>1. [NoCounts EXCEPT !.openCount = With("OPEN")] \in Counts
      BY WithNat DEF NoCounts, Counts
    <3> QED
      BY <3>1 DEF Handler
  <2>2. job' = [job EXCEPT ![j] = new]
    BY <1>3 DEF CountOpen
  <2> HIDE DEF new
  <2> QED
    BY <1>2, <1>3, <1>t, <2>1, <2>2 DEF CountOpen
<1>4. ASSUME NEW j \in DayJob, CountClosed(j) PROVE AnalyticsTypeOK'
  <2> DEFINE new == [job[j] EXCEPT !.pc = "readMessages",
                                   !.counts.closedCount = With("CLOSED")]
  <2>1. new \in Handler
    <3>1. [job[j].counts EXCEPT !.closedCount = With("CLOSED")] \in Counts
      BY <1>t, WithNat DEF Handler, Counts
    <3> QED
      BY <1>t, <3>1 DEF Handler
  <2>2. job' = [job EXCEPT ![j] = new]
    BY <1>4 DEF CountClosed
  <2> HIDE DEF new
  <2> QED
    BY <1>2, <1>4, <1>t, <2>1, <2>2 DEF CountClosed
<1>5. ASSUME NEW j \in DayJob, ReadMessages(j) PROVE AnalyticsTypeOK'
  <2> DEFINE new == [job[j] EXCEPT !.pc = "upsert"]
  <2>1. new \in Handler
    BY <1>t DEF Handler
  <2>2. job' = [job EXCEPT ![j] = new]
    BY <1>5 DEF ReadMessages
  <2> HIDE DEF new
  <2> QED
    BY <1>2, <1>5, <1>t, <2>1, <2>2 DEF ReadMessages
<1>6. ASSUME NEW j \in DayJob, Upsert(j) \/ Throw(j) PROVE AnalyticsTypeOK'
  <2>1. [pc |-> "ended", counts |-> NoCounts] \in Handler
    BY NoCountsType DEF Handler
  <2>2. job[j].counts \in Counts
    BY <1>t DEF Handler
  <2> QED
    BY <1>2, <1>6, <1>t, <2>1, <2>2 DEF Upsert, Throw
<1>7. CASE UNCHANGED statsVars
  BY <1>7, <1>t DEF statsVars, AnalyticsTypeOK
<1> QED
  BY <1>1, <1>3, <1>4, <1>5, <1>6, <1>7 DEF AnalyticsNext

\* A count stays right but for the tickets that changed.
LEMMA RecentKept ==
  ASSUME NEW n, NEW st, NEW T, NEW U, Recent(n, st, T), T \subseteq U,
         \A t \in Ticket : t \notin U => tickets'[t] = tickets[t]
  PROVE  \E S \in SUBSET Ticket :
           n = Cardinality(S) /\ S \ U = {t \in Ticket : tickets'[t] = st} \ U
<1>1. PICK S \in SUBSET Ticket :
        n = Cardinality(S) /\ S \ T = {t \in Ticket : tickets[t] = st} \ T
  BY DEF Recent
<1>2. S \ U = {t \in Ticket : tickets'[t] = st} \ U
  BY <1>1
<1> QED
  BY <1>1, <1>2

\* What has been counted is there.
LEMMA RecentIsCount ==
  ASSUME NEW n, NEW st, NEW T, Recent(n, st, T)
  PROVE  n \in Nat
  BY Fewer, AnalyticsAssumption DEF Recent

\* A count is right when it is taken.
LEMMA JustCounted ==
  ASSUME NEW st, NEW T
  PROVE  Recent(With(st), st, T)
  BY DEF Recent, With

\* What StatsInv says of one handler.
HandlerInv(h) ==
  /\ h.pc \in {"count", "ended"} => h.counts = NoCounts
  /\ h.pc \in {"countClosed", "readMessages", "upsert"} =>
       Recent(h.counts.openCount, "OPEN", h.counts.touched)
  /\ h.pc \in {"readMessages", "upsert"} =>
       Recent(h.counts.closedCount, "CLOSED", h.counts.touched)

LEMMA StatsStep ==
  ASSUME AnalyticsTypeOK, StatsInv, [AnalyticsNext]_statsVars
  PROVE  StatsInv'
<1>t. /\ tickets \in [Ticket -> TicketStatus \cup {"NONE"}]
      /\ job \in [DayJob -> Handler] /\ row \in Counts
  BY DEF AnalyticsTypeOK
\* The steps of a handler.
<1>1. ASSUME NEW j \in DayJob, NEW new, job' = [job EXCEPT ![j] = new], UNCHANGED tickets,
             HandlerInv(new), row' = row \/ (row' = job[j].counts /\ job[j].pc = "upsert")
      PROVE  StatsInv'
  <2>1. \A n, st, T : Recent(n, st, T)' <=> Recent(n, st, T)
    BY <1>1 DEF Recent
  <2> QED
  <3>1. ASSUME NEW i \in DayJob
        PROVE  /\ job'[i].pc \in {"count", "ended"} => job'[i].counts = NoCounts
               /\ job'[i].pc \in {"countClosed", "readMessages", "upsert"} =>
                    Recent(job[i].counts.openCount, "OPEN", job[i].counts.touched)'
               /\ job'[i].pc \in {"readMessages", "upsert"} =>
                    Recent(job[i].counts.closedCount, "CLOSED", job[i].counts.touched)'
    <4>1. CASE i = j
      <5>1. job'[i] = new
        BY <1>1, <1>t, <4>1
      <5> QED
        BY <1>1, <2>1, <5>1 DEF HandlerInv
    <4>2. CASE i # j
      <5>1. job'[i] = job[i]
        BY <1>1, <1>t, <4>2
      <5> QED
        BY <2>1, <5>1 DEF StatsInv
    <4> QED
      BY <4>1, <4>2
  <3>2. ASSUME row' # NoCounts
        PROVE  /\ Recent(row.openCount, "OPEN", row.touched)'
               /\ Recent(row.closedCount, "CLOSED", row.touched)'
    <4>1. CASE row' = row
      BY <2>1, <3>2, <4>1 DEF StatsInv
    <4>2. CASE row' = job[j].counts /\ job[j].pc = "upsert"
      BY <2>1, <4>2 DEF StatsInv
    <4> QED
      BY <1>1, <4>1, <4>2
  <3> QED
    BY <3>1, <3>2 DEF StatsInv
<1>2. ASSUME NEW j \in DayJob, CountOpen(j) PROVE StatsInv'
  <2> DEFINE new == [pc |-> "countClosed",
                     counts |-> [NoCounts EXCEPT !.openCount = With("OPEN")]]
  <2>1. HandlerInv(new)
    <3>1. new.pc = "countClosed" /\ new.counts.openCount = With("OPEN")
      BY DEF NoCounts
    <3> HIDE DEF new
    <3> QED
      BY <3>1, JustCounted DEF HandlerInv
  <2>2. job' = [job EXCEPT ![j] = new] /\ UNCHANGED <<tickets, row>>
    BY <1>2 DEF CountOpen
  <2> HIDE DEF new
  <2> QED
    BY <1>1, <2>1, <2>2
<1>3. ASSUME NEW j \in DayJob, CountClosed(j) PROVE StatsInv'
  <2> DEFINE new == [job[j] EXCEPT !.pc = "readMessages",
                                   !.counts.closedCount = With("CLOSED")]
  <2>1. HandlerInv(new)
    <3>1. /\ new.pc = "readMessages" /\ new.counts.closedCount = With("CLOSED")
          /\ new.counts.openCount = job[j].counts.openCount
          /\ new.counts.touched = job[j].counts.touched
      BY <1>t DEF Handler, Counts
    <3>2. Recent(job[j].counts.openCount, "OPEN", job[j].counts.touched)
      BY <1>3 DEF CountClosed, StatsInv
    <3> HIDE DEF new
    <3> QED
      BY <3>1, <3>2, JustCounted DEF HandlerInv
  <2>2. job' = [job EXCEPT ![j] = new] /\ UNCHANGED <<tickets, row>>
    BY <1>3 DEF CountClosed
  <2> HIDE DEF new
  <2> QED
    BY <1>1, <2>1, <2>2
<1>4. ASSUME NEW j \in DayJob, ReadMessages(j) PROVE StatsInv'
  <2> DEFINE new == [job[j] EXCEPT !.pc = "upsert"]
  <2>1. HandlerInv(new)
    <3>1. new.pc = "upsert" /\ new.counts = job[j].counts
      BY <1>t DEF Handler
    <3> HIDE DEF new
    <3> QED
      BY <1>4, <3>1 DEF HandlerInv, ReadMessages, StatsInv
  <2>2. job' = [job EXCEPT ![j] = new] /\ UNCHANGED <<tickets, row>>
    BY <1>4 DEF ReadMessages
  <2> HIDE DEF new
  <2> QED
    BY <1>1, <2>1, <2>2
<1>5. ASSUME NEW j \in DayJob, Upsert(j) \/ Throw(j) PROVE StatsInv'
  <2> DEFINE new == [pc |-> "ended", counts |-> NoCounts]
  <2>1. HandlerInv(new)
    BY DEF HandlerInv
  <2>2. /\ job' = [job EXCEPT ![j] = new] /\ UNCHANGED tickets
        /\ row' = row \/ (row' = job[j].counts /\ job[j].pc = "upsert")
    BY <1>5 DEF Upsert, Throw
  <2> HIDE DEF new
  <2> QED
    BY <1>1, <2>1, <2>2
\* A ticket changes: every count under way notes it.
<1>6. ASSUME NEW t \in Ticket, NEW st \in TicketStatus \cup {"NONE"}, TicketChanges(t, st)
      PROVE  StatsInv'
  <2>1. \A x \in Ticket : x # t => tickets'[x] = tickets[x]
    BY <1>6, <1>t DEF TicketChanges
  <2> DEFINE StillRecent(n, s, T) ==
        \E S \in SUBSET Ticket :
          n = Cardinality(S) /\ S \ T = {x \in Ticket : tickets'[x] = s} \ T
  <2>2. ASSUME NEW c \in Counts, NEW n, NEW s, Recent(n, s, c.touched), c # NoCounts
        PROVE  StillRecent(n, s, Touch(c, t).touched)
    <3>1. Touch(c, t).touched = c.touched \cup {t}
      BY <2>2 DEF Touch, Counts
    <3> QED
      BY <2>1, <2>2, <3>1, RecentKept
  <2> HIDE DEF StillRecent
  <2>3. ASSUME NEW c \in Counts
        PROVE  /\ Touch(c, t).openCount = c.openCount /\ Touch(c, t).closedCount = c.closedCount
               /\ c = NoCounts => Touch(c, t) = NoCounts
    BY DEF Touch, Counts
  <2>4. ASSUME NEW j \in DayJob
        PROVE  /\ job'[j].pc = job[j].pc /\ job'[j].counts = Touch(job[j].counts, t)
               /\ job[j].counts \in Counts
    BY <1>6, <1>t DEF TicketChanges, Handler
  <2>5. ASSUME NEW j \in DayJob
        PROVE  /\ job'[j].pc \in {"count", "ended"} => job'[j].counts = NoCounts
               /\ job'[j].pc \in {"countClosed", "readMessages", "upsert"} =>
                    Recent(job[j].counts.openCount, "OPEN", job[j].counts.touched)'
               /\ job'[j].pc \in {"readMessages", "upsert"} =>
                    Recent(job[j].counts.closedCount, "CLOSED", job[j].counts.touched)'
    <3>1. CASE job[j].pc \in {"count", "ended"}
      BY <2>3, <2>4, <3>1 DEF StatsInv
    <3>2. CASE job[j].pc \in {"countClosed", "readMessages", "upsert"}
      <4>1. Recent(job[j].counts.openCount, "OPEN", job[j].counts.touched)
        BY <3>2 DEF StatsInv
      <4>2. job[j].counts # NoCounts
        BY <4>1, RecentIsCount DEF NoCounts
      <4>3. Recent(job[j].counts.openCount, "OPEN", job[j].counts.touched)'
        <5>1. StillRecent(job[j].counts.openCount, "OPEN", Touch(job[j].counts, t).touched)
          BY <2>2, <2>4, <4>1, <4>2
        <5>2. StillRecent(job'[j].counts.openCount, "OPEN", job'[j].counts.touched)
          BY <2>3, <2>4, <5>1
        <5> QED
          BY <5>2 DEF Recent, StillRecent
      <4>4. ASSUME job[j].pc \in {"readMessages", "upsert"}
            PROVE  Recent(job[j].counts.closedCount, "CLOSED", job[j].counts.touched)'
        <5>1. Recent(job[j].counts.closedCount, "CLOSED", job[j].counts.touched)
          BY <4>4 DEF StatsInv
        <5>2. StillRecent(job[j].counts.closedCount, "CLOSED", Touch(job[j].counts, t).touched)
          BY <2>2, <2>4, <4>2, <5>1
        <5>3. StillRecent(job'[j].counts.closedCount, "CLOSED", job'[j].counts.touched)
          BY <2>3, <2>4, <5>2
        <5> QED
          BY <5>3 DEF Recent, StillRecent
      <4> QED
        BY <2>4, <3>2, <4>3, <4>4
    <3> QED
      BY <1>t, <3>1, <3>2 DEF Handler
  <2>6. ASSUME row' # NoCounts
        PROVE  /\ Recent(row.openCount, "OPEN", row.touched)'
               /\ Recent(row.closedCount, "CLOSED", row.touched)'
    <3>1. row' = Touch(row, t)
      BY <1>6 DEF TicketChanges
    <3>2. row # NoCounts
      BY <1>t, <2>3, <2>6, <3>1
    <3>3. /\ Recent(row.openCount, "OPEN", row.touched)
          /\ Recent(row.closedCount, "CLOSED", row.touched)
      BY <3>2 DEF StatsInv
    <3>4. /\ StillRecent(row.openCount, "OPEN", Touch(row, t).touched)
          /\ StillRecent(row.closedCount, "CLOSED", Touch(row, t).touched)
      BY <1>t, <2>2, <3>2, <3>3
    <3>5. /\ StillRecent(row'.openCount, "OPEN", row'.touched)
          /\ StillRecent(row'.closedCount, "CLOSED", row'.touched)
      BY <1>t, <2>3, <3>1, <3>4
    <3> QED
      BY <3>5 DEF Recent, StillRecent
  <2> QED
    BY <2>5, <2>6 DEF StatsInv
<1>7. CASE UNCHANGED statsVars
  BY <1>7 DEF statsVars, StatsInv, Recent
<1> QED
  BY <1>2, <1>3, <1>4, <1>5, <1>6, <1>7 DEF AnalyticsNext

DayInv == AnalyticsTypeOK /\ StatsInv

LEMMA DayInit == AnalyticsInit => DayInv
<1> SUFFICES ASSUME AnalyticsInit
             PROVE  DayInv
  OBVIOUS
<1>1. AnalyticsTypeOK
  BY NoCountsType DEF AnalyticsInit, AnalyticsTypeOK, Handler
<1>2. StatsInv
  BY DEF AnalyticsInit, StatsInv
<1> QED
  BY <1>1, <1>2 DEF DayInv

LEMMA DayInvariant == AnalyticsSpec => []DayInv
<1>1. DayInv /\ [AnalyticsNext]_statsVars => DayInv'
  BY AnalyticsTypeStep, StatsStep DEF DayInv
<1> QED
  BY <1>1, DayInit, PTL DEF AnalyticsSpec

\* Each count of the row of a day is off by no more than the tickets that
\* changed since its job began to count, for any number of tickets and jobs.
THEOREM StatsRecent == AnalyticsSpec => []StatsAreRecent
<1>1. ASSUME DayInv, row.openCount >= 0, NEW n, NEW st, Recent(n, st, row.touched)
      PROVE  Differ(n, With(st), Cardinality(row.touched))
  <2>1. row.touched \in SUBSET Ticket
    BY <1>1 DEF DayInv, AnalyticsTypeOK, Counts
  <2>2. PICK S \in SUBSET Ticket :
          /\ n = Cardinality(S)
          /\ S \ row.touched = {t \in Ticket : tickets[t] = st} \ row.touched
    BY <1>1 DEF Recent
  <2>3. {t \in Ticket : tickets[t] = st} \in SUBSET Ticket
    OBVIOUS
  <2> QED
    BY <2>1, <2>2, <2>3, CloseSets DEF With
<1>2. DayInv => StatsAreRecent
  <2> SUFFICES ASSUME DayInv, row.openCount >= 0
               PROVE  /\ Differ(row.openCount, With("OPEN"), Cardinality(row.touched))
                      /\ Differ(row.closedCount, With("CLOSED"), Cardinality(row.touched))
    BY DEF StatsAreRecent
  <2>1. row # NoCounts
    BY DEF NoCounts
  <2>2. /\ Recent(row.openCount, "OPEN", row.touched)
        /\ Recent(row.closedCount, "CLOSED", row.touched)
    BY <2>1 DEF DayInv, StatsInv
  <2> QED
    BY <1>1, <2>2
<1> QED
  BY <1>2, DayInvariant, PTL

-----------------------------------------------------------------------------
(* Side by side.                                                           *)

\* Type correctness of the inbox view and of the statistics.
THEOREM SideBySideTypeCorrect == MailboxSpec /\ AnalyticsSpec => []SideBySideTypeOK
<1>1. BoxInv /\ DayInv => SideBySideTypeOK
  BY DEF BoxInv, DayInv, SideBySideTypeOK
<1> QED
  BY <1>1, BoxInvariant, DayInvariant, PTL

\* Checking the three side by side checks behaviours of each of them: what is
\* proved of one alone holds in the composition.
THEOREM EachAsAlone == AllSpec => Spec /\ MailboxSpec /\ AnalyticsSpec
<1>1. AllInit => Init /\ MailboxInit /\ AnalyticsInit
  BY DEF AllInit
<1>2. [AllNext]_<<vars, mailVars, statsVars>>
        => [Next]_vars /\ [MailboxNext]_mailVars /\ [AnalyticsNext]_statsVars
  BY DEF AllNext
<1> QED
  BY <1>1, <1>2, PTL DEF AllSpec, Spec, MailboxSpec, AnalyticsSpec
=============================================================================
