--------------------------- MODULE ChannelsProofs ---------------------------
(***************************************************************************)
(* Proofs about Channels, for any number of organisations, channels and    *)
(* requests and every platform: types, that a set-up reported as           *)
(* successful sticks, and that answers go back where they belong.          *)
(***************************************************************************)
EXTENDS Channels, TLAPS

USE ChannelsAssumption, ConnectorsAssumption

Place == {Nowhere} \cup ({"inbox"} \X Person) \cup ({"post"} \X Post)

\* What a connector files an event under is a thread.
LEMMA ThreadIsThread ==
  ASSUME NEW type \in ChannelType, NEW ev \in Event
  PROVE  ThreadOf(type, ev) \in Thread
<1>1. ev.from \in Person /\ ev.post \in Post /\ ev.subject \in Subject
      /\ ev.kind \in {"direct", "comment", "simulated"}
  BY DEF Event
<1>2. CASE type \in Meta
  BY <1>1, <1>2 DEF ThreadOf, MetaThread, Direct, Simulated, Thread, Meta
<1>3. CASE type \notin Meta
  BY <1>1, <1>3 DEF ThreadOf, WhatsAppThread, TwitterThread, TelegramThread, EmailThread,
                    MockThread, Thread, Meta, Stubbed, ChannelType
<1>4. QED
  BY <1>2, <1>3

\* Facebook and Instagram take the answer to where the event came from.
LEMMA MetaAnswer ==
  ASSUME NEW type \in Meta, NEW ev \in Event
  PROVE  AddressOf(type, ThreadOf(type, ev)) = PlaceOf(ev)
<1>1. AddressOf(type, ThreadOf(type, ev)) = MetaAddress(MetaThread(ev))
  BY DEF AddressOf, ThreadOf, Meta, Stubbed
<1>2. CASE ev.kind = "comment"
  <2>1. MetaThread(ev) = <<"post", ev.post>>
    BY <1>2 DEF MetaThread, Simulated, Direct
  <2>2. QED
    BY <1>1, <1>2, <2>1 DEF MetaAddress, PlaceOf
<1>3. CASE ev.kind = "direct"
  <2>1. MetaThread(ev) = <<"id", ev.from>>
    BY <1>3 DEF MetaThread, Simulated, Direct
  <2>2. QED
    BY <1>1, <1>3, <2>1 DEF MetaAddress, PlaceOf
<1>4. CASE ev.kind = "simulated"
  <2>1. MetaThread(ev) = <<"prefixed", ev.from>>
    BY <1>4 DEF MetaThread, Simulated, Direct
  <2>2. QED
    BY <1>1, <1>4, <2>1 DEF MetaAddress, PlaceOf
<1>5. QED
  BY <1>2, <1>3, <1>4 DEF Event

\* A subject leads to the inbox of a person or nowhere.
LEMMA EmailPlace ==
  ASSUME NEW s \in Subject
  PROVE  EmailAddress(<<"subject", s>>) \in Place
<1>1. AddressIn[s] \in Person \cup {Nowhere}
  OBVIOUS
<1>2. <<"subject", s>>[2] = s
  OBVIOUS
<1>3. EmailAddress(<<"subject", s>>) = IF AddressIn[s] = Nowhere THEN Nowhere ELSE <<"inbox", AddressIn[s]>>
  BY <1>2 DEF EmailAddress
<1>4. QED
  BY <1>1, <1>3 DEF Place

\* The answer to an event is delivered to a person, below a post, or nowhere.
LEMMA AddressIsPlace ==
  ASSUME NEW type \in ChannelType, NEW ev \in Event
  PROVE  AddressOf(type, ThreadOf(type, ev)) \in Place
<1>1. ev.from \in Person /\ ev.post \in Post /\ ev.subject \in Subject
      /\ ev.kind \in {"direct", "comment", "simulated"}
  BY DEF Event
<1>2. CASE type \in Meta
  BY <1>1, <1>2, MetaAnswer DEF PlaceOf, Place
<1>3. CASE type = "EMAIL"
  <2>1. AddressOf(type, ThreadOf(type, ev)) = EmailAddress(<<"subject", ev.subject>>)
    BY <1>3 DEF AddressOf, ThreadOf, EmailThread, Meta, Stubbed
  <2>2. QED
    BY <1>1, <2>1, EmailPlace
<1>4. CASE type \in Stubbed \cup {"TELEGRAM"}
  BY <1>1, <1>4 DEF ThreadOf, TelegramThread, AddressOf, StubAddress,
                    TelegramAddress, Place, Meta, Stubbed, ChannelType
<1>5. QED
  BY <1>2, <1>3, <1>4 DEF ChannelType

\* If it is delivered at all, it is delivered where the sender of the event
\* looks for it: sendMessage inverts what parseIncomingWebhook did, except that
\* of the e-mail connector.
LEMMA AnswersReachSender ==
  ASSUME NEW type \in ChannelType \ {"EMAIL"}, NEW ev \in Event,
         Parses(type, ev),
         AddressOf(type, ThreadOf(type, ev)) # Nowhere
  PROVE  AddressOf(type, ThreadOf(type, ev)) = PlaceOf(ev)
<1>1. CASE type \in Meta
  BY <1>1, MetaAnswer
<1>2. CASE type = "TELEGRAM"
  BY <1>2 DEF ThreadOf, TelegramThread, AddressOf, TelegramAddress, PlaceOf, Parses, Direct,
              Meta, Stubbed
<1>3. CASE type \in Stubbed
  BY <1>3 DEF AddressOf, StubAddress, Stubbed, Meta
<1>4. QED
  BY <1>1, <1>2, <1>3 DEF ChannelType

-----------------------------------------------------------------------------
(* Types.                                                                  *)

LEMMA InitTyped == ChannelsInit => ChannelsTypeOK
<1>1. ASSUME ChannelsInit PROVE ChannelsTypeOK
  <2>1. row \in [Chan -> Row \cup NoRow]
    BY <1>1 DEF ChannelsInit, NoRow
  <2>2. hook \in [App -> Hook]
    BY <1>1 DEF ChannelsInit, Hook, NoHook
  <2>3. req \in [Request -> Call]
    BY <1>1 DEF ChannelsInit, Call, Free
  <2>4. QED
    BY <1>1, <2>1, <2>2, <2>3 DEF ChannelsInit, ChannelsTypeOK, Accepted
<1>2. QED
  BY <1>1

\* A request frees its slot.
LEMMA AnswerTyped ==
  ASSUME ChannelsTypeOK, NEW q \in Request, Answer(q)
  PROVE  req' \in [Request -> Call]
BY DEF ChannelsTypeOK, Answer, Call, Free

LEMMA CallTyped ==
  ASSUME ChannelsTypeOK, NEW q \in Request, req[q].pc \in {"hook", "wait", "page"}
  PROVE  /\ req[q].config \in Config /\ req[q].type \in Type /\ req[q].chan \in Chan
         /\ req[q] = [pc |-> req[q].pc, config |-> req[q].config, type |-> req[q].type,
                      chan |-> req[q].chan]
         /\ AppFor(q) \in App
<1>1. req[q] \in Call
  BY DEF ChannelsTypeOK
<1>2. req[q] \in [pc : {"hook", "wait", "page"}, config : Config, type : Type, chan : Chan]
  BY <1>1 DEF Call, Free
<1>3. req[q].config.owner \in Org
  BY <1>2 DEF Config
<1>4. QED
  BY <1>2, <1>3 DEF AppFor, App

LEMMA InsertTyped ==
  ASSUME ChannelsTypeOK, NEW q \in Request, At(q, "insert")
  PROVE  req[q].config \in Config /\ req[q].type \in Type /\ req[q].config.owner \in Org
<1>1. req[q] \in Call
  BY DEF ChannelsTypeOK
<1>2. req[q] \in [pc : {"insert"}, config : Config, type : Type]
  BY <1>1 DEF Call, Free, At
<1>3. QED
  BY <1>2 DEF Config

LEMMA RowTyped ==
  ASSUME ChannelsTypeOK, NEW c \in Chan, Live(c)
  PROVE  /\ row[c].org \in Org /\ row[c].type \in Type /\ row[c].config \in Config
         /\ row[c].type \in ChannelType
         /\ AppOf(c) \in App
<1>1. row[c] \in Row
  BY DEF ChannelsTypeOK, Live, NoRow
<1>2. QED
  BY <1>1 DEF Row, AppOf, App

LEMMA AcceptTyped ==
  ASSUME ChannelsTypeOK, NEW app \in App, NEW c \in Chan, Accept(app, c)
  PROVE  pending' \subseteq Accepted
<1> DEFINE late == app[2] = "TELEGRAM" /\ ~Live(c)
<1>1. pending' = pending \cup {[app |-> app, chan |-> c, late |-> late]}
  BY DEF Accept
<1>2. late \in BOOLEAN
  OBVIOUS
<1> HIDE DEF late
<1>3. [app |-> app, chan |-> c, late |-> late] \in Accepted
  BY <1>2 DEF Accepted
<1>4. QED
  BY <1>1, <1>3 DEF ChannelsTypeOK

LEMMA CreateTyped ==
  ASSUME ChannelsTypeOK, NEW q \in Request,
         \/ \E cfg \in Config, type \in Type : CreateCheck(q, cfg, type)
         \/ \E c \in Chan : CreateInsert(q, c)
         \/ CreateFails(q)
  PROVE  ChannelsTypeOK'
<1>1. ASSUME NEW cfg \in Config, NEW type \in Type, CreateCheck(q, cfg, type)
      PROVE  ChannelsTypeOK'
  <2>1. api' \in [Type -> Config \cup {NoConfig}]
    BY <1>1 DEF ChannelsTypeOK, CreateCheck
  <2>2. [pc |-> "insert", config |-> cfg, type |-> type] \in Call
    BY DEF Call
  <2>3. req' \in [Request -> Call]
    BY <1>1, <2>2 DEF ChannelsTypeOK, CreateCheck
  <2>4. QED
    BY <1>1, <2>1, <2>3 DEF ChannelsTypeOK, CreateCheck, traffic
<1>2. ASSUME NEW c \in Chan, CreateInsert(q, c)
      PROVE  ChannelsTypeOK'
  <2>1. req[q].config \in Config /\ req[q].type \in Type /\ req[q].config.owner \in Org
    BY <1>2, InsertTyped DEF CreateInsert
  <2>2. row' \in [Chan -> Row \cup NoRow]
    <3>1. [st |-> "live", org |-> req[q].config.owner, type |-> req[q].type,
           config |-> req[q].config] \in Row
      BY <2>1 DEF Row
    <3>2. QED
      BY <1>2, <3>1 DEF ChannelsTypeOK, CreateInsert
  <2>3. req' \in [Request -> Call] /\ api' \in [Type -> Config \cup {NoConfig}]
    <3>1. CASE req[q].type = "TELEGRAM"
      <4>1. [pc |-> "hook", config |-> req[q].config, type |-> req[q].type, chan |-> c] \in Call
        BY <2>1 DEF Call
      <4>2. QED
        BY <1>2, <2>1, <3>1, <4>1 DEF ChannelsTypeOK, CreateInsert
    <3>2. CASE req[q].type # "TELEGRAM"
      BY <1>2, <3>2, AnswerTyped DEF ChannelsTypeOK, CreateInsert
    <3>3. QED
      BY <3>1, <3>2
  <2>4. QED
    BY <1>2, <2>2, <2>3 DEF ChannelsTypeOK, CreateInsert, traffic
<1>3. CASE CreateFails(q)
  BY <1>3, AnswerTyped DEF ChannelsTypeOK, CreateFails, traffic
<1>4. QED
  BY <1>1, <1>2, <1>3

LEMMA SetupTyped ==
  ASSUME ChannelsTypeOK, NEW q \in Request,
         \/ \E c \in Chan : SetupRead(q, c)
         \/ SetupHook(q) \/ AnswerHook(q) \/ LoseAnswer(q) \/ SetupPage(q) \/ SetupFails(q)
  PROVE  ChannelsTypeOK'
<1>1. ASSUME NEW c \in Chan, SetupRead(q, c)
      PROVE  ChannelsTypeOK'
  <2>1. row[c].config \in Config /\ row[c].type \in Type
    BY <1>1, RowTyped DEF SetupRead
  <2>2. [pc |-> "hook", config |-> row[c].config, type |-> row[c].type, chan |-> c] \in Call
    BY <2>1 DEF Call
  <2>3. req' \in [Request -> Call]
    BY <1>1, <2>2 DEF ChannelsTypeOK, SetupRead
  <2>4. api' \in [Type -> Config \cup {NoConfig}]
    BY <1>1, <2>1 DEF ChannelsTypeOK, SetupRead
  <2>5. QED
    BY <1>1, <2>3, <2>4 DEF ChannelsTypeOK, SetupRead, traffic
<1>2. CASE SetupHook(q)
  <2>1. /\ req[q].chan \in Chan /\ AppFor(q) \in App
        /\ req[q].config \in Config /\ req[q].type \in Type
        /\ req[q] = [pc |-> req[q].pc, config |-> req[q].config, type |-> req[q].type,
                     chan |-> req[q].chan]
    BY <1>2, CallTyped DEF SetupHook, At
  <2>2. [req[q] EXCEPT !.pc = "wait"] \in Call
    BY <2>1 DEF Call
  <2>3. req' \in [Request -> Call]
    BY <1>2, <2>2 DEF ChannelsTypeOK, SetupHook
  <2>4. pending' \subseteq Accepted
    BY <1>2, <2>1, AcceptTyped DEF SetupHook
  <2>5. QED
    BY <1>2, <2>3, <2>4 DEF ChannelsTypeOK, SetupHook, traffic
<1>3. CASE AnswerHook(q)
  <2>1. /\ req[q].chan \in Chan /\ req[q].config \in Config /\ req[q].type \in Type
        /\ req[q] = [pc |-> req[q].pc, config |-> req[q].config, type |-> req[q].type,
                     chan |-> req[q].chan]
    BY <1>3, CallTyped DEF AnswerHook, At
  <2>2. [req[q] EXCEPT !.pc = "page"] \in Call
    BY <2>1 DEF Call
  <2>3. req' \in [Request -> Call]
    BY <1>3, <2>2, AnswerTyped DEF ChannelsTypeOK, AnswerHook, Succeed
  <2>4. told' \subseteq Chan
    BY <1>3, <2>1 DEF ChannelsTypeOK, AnswerHook, Succeed
  <2>5. QED
    BY <1>3, <2>3, <2>4 DEF ChannelsTypeOK, AnswerHook, traffic
<1>4. CASE SetupPage(q)
  <2>1. req[q].chan \in Chan /\ AppFor(q) \in App
    BY <1>4, CallTyped DEF SetupPage, At
  <2>2. hook[AppFor(q)] \in Hook
    BY <2>1 DEF ChannelsTypeOK
  <2>3. [hook[AppFor(q)] EXCEPT !.page = TRUE] \in Hook
    BY <2>2 DEF Hook
  <2>4. hook' \in [App -> Hook]
    BY <1>4, <2>3 DEF ChannelsTypeOK, SetupPage
  <2>5. req' \in [Request -> Call] /\ told' \subseteq Chan
    BY <1>4, <2>1, AnswerTyped DEF ChannelsTypeOK, SetupPage, Succeed
  <2>6. QED
    BY <1>4, <2>4, <2>5 DEF ChannelsTypeOK, SetupPage, traffic
<1>5. CASE SetupFails(q) \/ LoseAnswer(q)
  BY <1>5, AnswerTyped DEF ChannelsTypeOK, SetupFails, LoseAnswer, traffic
<1>6. QED
  BY <1>1, <1>2, <1>3, <1>4, <1>5

LEMMA CommitTyped ==
  ASSUME ChannelsTypeOK, NEW p \in pending, Commit(p)
  PROVE  ChannelsTypeOK'
<1>1. p.app \in App /\ p.chan \in Chan /\ p.late \in BOOLEAN
  BY DEF ChannelsTypeOK, Accepted
<1>2. [hook[p.app] EXCEPT !.calls = p.chan, !.late = p.late] \in Hook
  <2>1. hook[p.app] \in Hook
    BY <1>1 DEF ChannelsTypeOK
  <2>2. QED
    BY <1>1, <2>1 DEF Hook
<1>3. hook' \in [App -> Hook]
  BY <1>2 DEF ChannelsTypeOK, Commit
<1>4. QED
  BY <1>3 DEF ChannelsTypeOK, Commit, traffic

LEMMA ReplyTyped ==
  ASSUME ChannelsTypeOK, FiledFits, NEW c \in Chan, NEW ev \in Events, Reply(c, ev)
  PROVE  ChannelsTypeOK'
<1> DEFINE type == row[c].type
           cfg == row[c].config
<1>1. Live(c)
  BY DEF FiledFits, Reply
<1>2. type \in Type /\ type \in ChannelType /\ cfg \in Config
  BY <1>1, RowTyped
<1>3. ev \in Event
  OBVIOUS
<1>4. SentBy(c, ThreadOf(type, ev), cfg)
        \in [chan : Chan, thread : Thread, by : Config, place : Place]
  BY <1>2, <1>3, ThreadIsThread, AddressIsPlace DEF SentBy
<1>5. sent' \subseteq [chan : Chan, thread : Thread, by : Config, place : Place]
  BY <1>4 DEF ChannelsTypeOK, Reply, Place
<1>6. sender' \in [Type -> Config \cup {NoConfig}]
  BY <1>2 DEF ChannelsTypeOK, Reply
<1>7. QED
  BY <1>5, <1>6 DEF ChannelsTypeOK, Reply, Place

LEMMA NextTyped == ChannelsTypeOK /\ FiledFits /\ [ChannelsNext]_channelsVars => ChannelsTypeOK'
<1> SUFFICES ASSUME ChannelsTypeOK, FiledFits, [ChannelsNext]_channelsVars
             PROVE  ChannelsTypeOK'
  OBVIOUS
<1>1. ASSUME NEW q \in Request, ServeCall(q)
      PROVE  ChannelsTypeOK'
  BY <1>1, CreateTyped, SetupTyped DEF ServeCall
<1>2. ASSUME NEW c \in Chan, HookByHand(c)
      PROVE  ChannelsTypeOK'
  <2>1. AppOf(c) \in App
    BY <1>2, RowTyped DEF HookByHand
  <2>2. [hook[AppOf(c)] EXCEPT !.page = TRUE] \in Hook
    <3>1. hook[AppOf(c)] \in Hook
      BY <2>1 DEF ChannelsTypeOK
    <3>2. QED
      BY <3>1 DEF Hook
  <2>3. hook' \in [App -> Hook]
    BY <1>2, <2>2 DEF ChannelsTypeOK, HookByHand
  <2>4. pending' \subseteq Accepted
    BY <1>2, <2>1, AcceptTyped DEF HookByHand
  <2>5. QED
    BY <1>2, <2>3, <2>4 DEF ChannelsTypeOK, HookByHand, traffic
<1>3. ASSUME NEW c \in Chan, DeleteChannel(c)
      PROVE  ChannelsTypeOK'
  <2>1. row' \in [Chan -> Row \cup NoRow]
    BY <1>3 DEF ChannelsTypeOK, DeleteChannel, NoRow
  <2>2. filed' \subseteq filed /\ sent' \subseteq sent
    BY <1>3 DEF DeleteChannel
  <2>3. ASSUME NEW p \in pending
        PROVE  [p EXCEPT !.late = @ \/ p.chan = c] \in Accepted
    <3> DEFINE late == p.late \/ p.chan = c
    <3>1. p \in Accepted /\ late \in BOOLEAN
      BY DEF ChannelsTypeOK
    <3> HIDE DEF late
    <3>2. [p EXCEPT !.late = late] \in Accepted
      BY <3>1 DEF Accepted
    <3>3. QED
      BY <3>2 DEF late
  <2>4. pending' \subseteq Accepted
    BY <1>3, <2>3 DEF DeleteChannel
  <2>5. QED
    BY <1>3, <2>1, <2>2, <2>4 DEF ChannelsTypeOK, DeleteChannel
<1>4. ASSUME NEW c \in Chan, TestConnection(c)
      PROVE  ChannelsTypeOK'
  <2>1. row[c].config \in Config
    BY <1>4, RowTyped DEF TestConnection
  <2>2. QED
    BY <1>4, <2>1 DEF ChannelsTypeOK, TestConnection, traffic
<1>5. CASE RestartApi
  <2>1. req' \in [Request -> Call]
    BY <1>5 DEF RestartApi, Call, Free
  <2>2. QED
    BY <1>5, <2>1 DEF ChannelsTypeOK, RestartApi, traffic
<1>6. ASSUME NEW a \in App, NEW ev \in Events, HandleWebhook(a, ev)
      PROVE  ChannelsTypeOK'
  <2>1. hook[a].calls \in Chan
    BY <1>6 DEF ChannelsTypeOK, HandleWebhook, Hook
  <2>2. QED
    BY <1>6, <2>1 DEF ChannelsTypeOK, HandleWebhook
<1>7. ASSUME NEW c \in Chan, NEW ev \in Events, Reply(c, ev)
      PROVE  ChannelsTypeOK'
  BY <1>7, ReplyTyped
<1>8. CASE UNCHANGED channelsVars
  BY <1>8 DEF ChannelsTypeOK, channelsVars
<1>9. QED
  BY <1>1, <1>2, <1>3, <1>4, <1>5, <1>6, <1>7, <1>8, CommitTyped DEF ChannelsNext

-----------------------------------------------------------------------------
(* Set-ups, one step after the other.                                      *)

UnderWay == {"hook", "wait", "page"}

\* Calls(app, c) after the step.
CallsNext(app, c) == hook'[app].late \/ hook'[app].calls = c

\* A channel that a set-up or a platform knows of is not a new one.
LEMMA KnownChannels ==
  ASSUME ChannelsTypeOK, SetupInv
  PROVE  /\ \A q \in Request : req[q].pc \in UnderWay =>
              /\ req[q].chan \in Chan /\ AppFor(q) \in App
              /\ row[req[q].chan].st # "unused"
         /\ \A p \in pending : /\ p.chan \in Chan /\ p.app \in App
                               /\ row[p.chan].st # "unused"
         /\ \A c \in told : c \in Chan /\ row[c].st # "unused"
<1>1. \A q \in Request : req[q].pc \in UnderWay =>
        /\ req[q].chan \in Chan /\ AppFor(q) \in App
        /\ row[req[q].chan].st # "unused"
  BY CallTyped DEF SetupInv, SetupsFit, UnderWay
<1>2. \A p \in pending : p.chan \in Chan /\ p.app \in App /\ row[p.chan].st # "unused"
  BY DEF ChannelsTypeOK, Accepted, SetupInv, PendingFits
<1>3. QED
  BY <1>1, <1>2 DEF ChannelsTypeOK, SetupInv, ToldFits

\* A request that ends leaves everything else alone.
LEMMA SetupKept ==
  ASSUME SetupInv, UNCHANGED <<row, hook, pending, told>>,
         \A q \in Request : req'[q] = req[q] \/ req'[q].pc \notin UnderWay
  PROVE  SetupInv'
<1>1. RowsFit' /\ HooksFit' /\ ToldFits' /\ SetupSticks' /\ PendingFits'
  BY DEF SetupInv, RowsFit, HooksFit, ToldFits, SetupSticks, PendingFits, Live, AppOf, Calls
<1>2. SetupsFit'
  BY DEF SetupInv, SetupsFit, Live, AppOf, AppFor, At, UnderWay
<1>3. HooksReady'
  <2>1. \A q \in Request : (At(q, "page") \/ At(q, "wait"))' =>
          /\ At(q, "page")' = At(q, "page") /\ At(q, "wait")' = At(q, "wait")
          /\ OnItsWay(q)' = OnItsWay(q) /\ AppFor(q)' = AppFor(q) /\ req'[q].chan = req[q].chan
    BY DEF At, OnItsWay, AppFor, UnderWay
  <2>2. QED
    BY <2>1 DEF SetupInv, HooksReady, Live, Calls
<1>4. QED
  BY <1>1, <1>2, <1>3 DEF SetupInv

\* What is left of two parts of the invariant when no row changes.
LEMMA SticksKept ==
  ASSUME UNCHANGED row,
         \A c \in told' : Live(c) =>
           CallsNext(AppOf(c), c) /\ (row[c].type = "FACEBOOK" => hook'[AppOf(c)].page)
  PROVE  SetupSticks'
<1>1. \A c : Live(c)' = Live(c) /\ AppOf(c)' = AppOf(c)
  BY DEF Live, AppOf
<1>2. QED
  BY <1>1 DEF SetupSticks, Calls, CallsNext

LEMMA HooksReadyKept ==
  ASSUME UNCHANGED row,
         \A q \in Request :
           (At(q, "page") \/ (At(q, "wait") /\ ~OnItsWay(q)))' /\ Live(req'[q].chan)
           => CallsNext(AppFor(q)', req'[q].chan)
  PROVE  HooksReady'
BY DEF HooksReady, Live, Calls, CallsNext

LEMMA CreateCheckKeeps ==
  ASSUME ChannelsTypeOK, SetupInv, NEW q \in Request, NEW cfg \in Config, NEW type \in Type,
         CreateCheck(q, cfg, type)
  PROVE  SetupInv'
<1>1. \A r \in Request : req'[r] = req[r] \/ req'[r].pc \notin UnderWay
  BY DEF ChannelsTypeOK, CreateCheck, UnderWay
<1>2. QED
  BY <1>1, SetupKept DEF CreateCheck

LEMMA AnswerKeeps ==
  ASSUME ChannelsTypeOK, SetupInv, NEW q \in Request, Answer(q),
         UNCHANGED <<row, hook, pending, told>>
  PROVE  SetupInv'
<1>1. \A r \in Request : req'[r] = req[r] \/ req'[r].pc \notin UnderWay
  BY DEF ChannelsTypeOK, Answer, Free, UnderWay
<1>2. QED
  BY <1>1, SetupKept

\* The id was unused: nothing knew the new channel.
LEMMA CreateInsertKeeps ==
  ASSUME ChannelsTypeOK, SetupInv, NEW q \in Request, NEW c \in Chan, CreateInsert(q, c)
  PROVE  SetupInv'
<1> DEFINE cfg == req[q].config
           type == req[q].type
           new == [st |-> "live", org |-> cfg.owner, type |-> type, config |-> cfg]
<1>1. /\ row[c].st = "unused"
      /\ ~Taken(cfg.owner, type)
      /\ row' = [row EXCEPT ![c] = new]
      /\ UNCHANGED <<hook, pending, told>>
  BY DEF CreateInsert
<1>2. row'[c] = new /\ \A d \in Chan : d # c => row'[d] = row[d]
  BY <1>1 DEF ChannelsTypeOK
<1>3. new.st = "live" /\ new.org = cfg.owner /\ new.type = type /\ new.config = cfg
  OBVIOUS
<1> HIDE DEF new
<1>4. \A d \in Chan : row[d].st # "unused" =>
        row'[d] = row[d] /\ Live(d)' = Live(d) /\ AppOf(d)' = AppOf(d)
  BY <1>1, <1>2 DEF Live, AppOf
<1>5. RowsFit'
  <2>1. \A d \in Chan : Live(d) => AppOf(d) # <<cfg.owner, type>>
    BY <1>1 DEF Taken, AppOf
  <2>2. QED
    BY <1>2, <1>3, <2>1 DEF SetupInv, RowsFit, Live, AppOf
<1>6. \A r \in Request : \/ req'[r] = req[r]
                         \/ req'[r].pc \notin UnderWay
                         \/ /\ type = "TELEGRAM"
                            /\ req'[r] = [pc |-> "hook", config |-> cfg, type |-> type, chan |-> c]
  BY DEF ChannelsTypeOK, CreateInsert, Answer, Free, UnderWay
<1>7. SetupsFit'
  <2>1. ASSUME NEW r \in Request, req'[r].pc \in UnderWay
        PROVE  /\ row'[req'[r].chan].st # "unused"
               /\ Live(req[r].chan)' => (AppOf(req[r].chan) = AppFor(r))'
               /\ req'[r].type \in Meta \cup {"TELEGRAM"}
               /\ At(r, "page")' => req'[r].type = "FACEBOOK"
    <3>1. CASE req'[r] = req[r]
      <4>1. /\ req[r].chan \in Chan
            /\ row[req[r].chan].st # "unused"
        BY <2>1, <3>1, KnownChannels
      <4>2. AppFor(r)' = AppFor(r)
        BY <3>1 DEF AppFor
      <4>3. QED
        BY <2>1, <3>1, <4>1, <4>2, <1>4 DEF SetupInv, SetupsFit, Live, AppOf, At, UnderWay
    <3>2. CASE req'[r] # req[r]
      BY <2>1, <3>2, <1>2, <1>3, <1>6 DEF Live, AppOf, AppFor, At
    <3>3. QED
      BY <3>1, <3>2
  <2>2. QED
    BY <2>1 DEF SetupsFit, UnderWay
<1>8. HooksReady'
  <2>1. ASSUME NEW r \in Request, (At(r, "page") \/ (At(r, "wait") /\ ~OnItsWay(r)))',
               Live(req[r].chan)'
        PROVE  Calls(AppFor(r), req[r].chan)'
    <3>1. req'[r] = req[r] /\ req[r].pc \in UnderWay
      BY <2>1, <1>6 DEF At, UnderWay
    <3>2. AppFor(r)' = AppFor(r) /\ OnItsWay(r)' = OnItsWay(r)
      BY <3>1, <1>1 DEF AppFor, OnItsWay
    <3>3. Live(req[r].chan)
      BY <2>1, <3>1, <1>4, KnownChannels DEF Live
    <3>4. QED
      BY <2>1, <3>1, <3>2, <3>3, <1>1 DEF SetupInv, HooksReady, Calls, At
  <2>2. QED
    BY <2>1 DEF HooksReady
<1>9. HooksFit'
  <2>1. \A a \in App : hook[a].calls \in Chan \cup {NoChan}
    BY DEF ChannelsTypeOK, Hook
  <2>2. QED
    BY <1>1, <1>4, <2>1 DEF SetupInv, HooksFit, Live, AppOf
<1>10. PendingFits'
  BY <1>1, <1>4, KnownChannels DEF SetupInv, PendingFits, Live, AppOf
<1>11. ToldFits' /\ SetupSticks'
  <2>1. \A d \in told : row'[d] = row[d] /\ row[d].st # "unused"
    BY <1>4, KnownChannels
  <2>2. QED
    BY <1>1, <2>1 DEF SetupInv, ToldFits, SetupSticks, Live, AppOf, Calls
<1>12. QED
  BY <1>5, <1>7, <1>8, <1>9, <1>10, <1>11 DEF SetupInv

\* The row that was read is the channel's row.
LEMMA SetupReadKeeps ==
  ASSUME ChannelsTypeOK, SetupInv, NEW q \in Request, NEW c \in Chan, SetupRead(q, c)
  PROVE  SetupInv'
<1>1. UNCHANGED <<row, hook, pending, told>> /\ Live(c) /\ row[c].type \in Meta \cup {"TELEGRAM"}
  BY DEF SetupRead
<1>2. RowsFit' /\ HooksFit' /\ ToldFits' /\ SetupSticks' /\ PendingFits'
  BY <1>1 DEF SetupInv, RowsFit, HooksFit, ToldFits, SetupSticks, PendingFits, Live, AppOf, Calls
<1>3. req'[q] = [pc |-> "hook", config |-> row[c].config, type |-> row[c].type, chan |-> c]
      /\ \A r \in Request : r # q => req'[r] = req[r]
  BY DEF SetupRead, ChannelsTypeOK
<1>4. SetupsFit'
  <2>1. row[c].config.owner = row[c].org
    BY <1>1 DEF SetupInv, RowsFit
  <2>2. QED
    BY <1>1, <1>3, <2>1 DEF SetupInv, SetupsFit, Live, AppOf, AppFor, At
<1>5. HooksReady'
  <2>1. \A r \in Request : (At(r, "page") \/ At(r, "wait"))' => req'[r] = req[r]
    BY <1>3 DEF At
  <2>2. QED
    BY <1>1, <2>1 DEF SetupInv, HooksReady, OnItsWay, AppFor, At, Live, Calls
<1>6. QED
  BY <1>2, <1>4, <1>5 DEF SetupInv

\* One more webhook on its way, for a channel that exists or marked as late.
LEMMA AcceptKeeps ==
  ASSUME ChannelsTypeOK, SetupInv, NEW app \in App, NEW c \in Chan, Accept(app, c),
         UNCHANGED row,
         row[c].st # "unused",
         Live(c) => AppOf(c) = app,
         app[2] # "TELEGRAM" => Live(c)
  PROVE  PendingFits'
<1> DEFINE new == [app |-> app, chan |-> c, late |-> app[2] = "TELEGRAM" /\ ~Live(c)]
<1>1. pending' = pending \cup {new}
  BY DEF Accept
<1>2. new.app = app /\ new.chan = c /\ (new.late \/ Live(c))
  OBVIOUS
<1> HIDE DEF new
<1>3. QED
  BY <1>1, <1>2 DEF SetupInv, PendingFits, Live, AppOf

\* A platform that verifies has made sure that the channel exists.
LEMMA SetupHookKeeps ==
  ASSUME ChannelsTypeOK, SetupInv, NEW q \in Request, SetupHook(q)
  PROVE  SetupInv'
<1> DEFINE c == req[q].chan
           a == AppFor(q)
<1>1. /\ At(q, "hook")
      /\ req[q].type \in Meta => Live(c)
      /\ Accept(a, c)
      /\ req' = [req EXCEPT ![q] = [@ EXCEPT !.pc = "wait"]]
      /\ UNCHANGED <<row, hook, told>>
  BY DEF SetupHook, VerifyWebhook
<1>2. /\ c \in Chan /\ a \in App
      /\ req[q] = [pc |-> req[q].pc, config |-> req[q].config, type |-> req[q].type, chan |-> c]
  BY <1>1, CallTyped DEF At
<1>3. /\ row[c].st # "unused"
      /\ Live(c) => AppOf(c) = a
      /\ req[q].type \in Meta \cup {"TELEGRAM"}
  BY <1>1 DEF SetupInv, SetupsFit, At
<1>4. PendingFits'
  <2>1. a[2] = req[q].type
    BY DEF AppFor
  <2>2. QED
    BY <1>1, <1>2, <1>3, <2>1, AcceptKeeps
<1>5. /\ req'[q].pc = "wait" /\ req'[q].chan = c /\ req'[q].type = req[q].type
      /\ req'[q].config = req[q].config
      /\ \A r \in Request : r # q => req'[r] = req[r]
  BY <1>1, <1>2 DEF ChannelsTypeOK
<1>6. RowsFit' /\ HooksFit' /\ ToldFits' /\ SetupSticks'
  BY <1>1 DEF SetupInv, RowsFit, HooksFit, ToldFits, SetupSticks, Live, AppOf, Calls
<1>7. SetupsFit'
  BY <1>1, <1>3, <1>5 DEF SetupInv, SetupsFit, Live, AppOf, AppFor, At
<1>8. HooksReady'
  <2>1. OnItsWay(q)' /\ ~At(q, "page")'
    <3> DEFINE new == [app |-> a, chan |-> c, late |-> a[2] = "TELEGRAM" /\ ~Live(c)]
    <3>1. new \in pending'
      BY <1>1 DEF Accept
    <3>2. new.app = a /\ new.chan = c
      OBVIOUS
    <3>3. AppFor(q)' = a
      BY <1>5 DEF AppFor
    <3> HIDE DEF new
    <3>4. QED
      BY <1>5, <3>1, <3>2, <3>3 DEF OnItsWay, At
  <2>2. \A r \in Request : r # q =>
          /\ AppFor(r)' = AppFor(r) /\ (OnItsWay(r) => OnItsWay(r)')
          /\ At(r, "page")' = At(r, "page") /\ At(r, "wait")' = At(r, "wait")
    BY <1>1, <1>5 DEF OnItsWay, Accept, AppFor, At
  <2>3. QED
    BY <1>1, <1>5, <2>1, <2>2 DEF SetupInv, HooksReady, Live, Calls
<1>9. QED
  BY <1>4, <1>6, <1>7, <1>8 DEF SetupInv

\* The app calls a channel from now on: the only one of its kind, or it is late.
LEMMA CommitKeeps ==
  ASSUME ChannelsTypeOK, SetupInv, NEW p \in pending, Commit(p)
  PROVE  SetupInv'
<1> DEFINE new == [hook[p.app] EXCEPT !.calls = p.chan, !.late = p.late]
<1>1. /\ hook' = [hook EXCEPT ![p.app] = new]
      /\ pending' = pending \ {p}
      /\ UNCHANGED <<row, told, req>>
  BY DEF Commit
<1>2. p \in Accepted /\ p.app \in App /\ p.chan \in Chan
  BY DEF ChannelsTypeOK, Accepted
<1>3. new.calls = p.chan /\ new.page = hook[p.app].page /\ new.late = p.late
  BY <1>2 DEF ChannelsTypeOK, Hook
<1>4. hook'[p.app] = new /\ \A b \in App : b # p.app => hook'[b] = hook[b]
  BY <1>1, <1>2 DEF ChannelsTypeOK
<1> HIDE DEF new
<1>5. /\ row[p.chan].st # "unused"
      /\ Live(p.chan) => AppOf(p.chan) = p.app
      /\ p.late \/ Live(p.chan)
  BY DEF SetupInv, PendingFits
<1>6. \A d \in Chan : Live(d) /\ AppOf(d) = p.app => CallsNext(p.app, d)
  BY <1>2, <1>3, <1>4, <1>5 DEF SetupInv, RowsFit, CallsNext
<1>7. \A b \in App, d \in Chan : b # p.app => CallsNext(b, d) = Calls(b, d)
  BY <1>4 DEF Calls, CallsNext
<1>8. RowsFit' /\ ToldFits' /\ SetupsFit' /\ PendingFits'
  BY <1>1 DEF SetupInv, RowsFit, ToldFits, SetupsFit, PendingFits, Live, AppOf, AppFor, At
<1>9. HooksFit'
  <2>1. \A b \in App : b # p.app => hook'[b] = hook[b]
    BY <1>4
  <2>2. hook'[p.app].calls = p.chan
    BY <1>3, <1>4
  <2>3. \A d : Live(d)' = Live(d) /\ AppOf(d)' = AppOf(d)
    BY <1>1 DEF Live, AppOf
  <2>4. ASSUME NEW b \in App, hook'[b].calls # NoChan
        PROVE  /\ row'[hook'[b].calls].st # "unused"
               /\ Live(hook'[b].calls) => AppOf(hook'[b].calls) = b
    <3>1. CASE b = p.app
      BY <1>1, <1>5, <2>2, <3>1
    <3>2. CASE b # p.app
      BY <1>1, <2>1, <2>4, <3>2 DEF SetupInv, HooksFit
    <3>3. QED
      BY <3>1, <3>2
  <2>5. QED
    BY <1>1, <2>4 DEF HooksFit, Live, AppOf
<1>10. SetupSticks'
  <2>1. ASSUME NEW d \in told, Live(d)
        PROVE  CallsNext(AppOf(d), d) /\ (row[d].type = "FACEBOOK" => hook'[AppOf(d)].page)
    <3>1. d \in Chan /\ AppOf(d) \in App
      BY <2>1, RowTyped DEF ChannelsTypeOK
    <3>2. Calls(AppOf(d), d) /\ (row[d].type = "FACEBOOK" => hook[AppOf(d)].page)
      BY <2>1 DEF SetupInv, SetupSticks
    <3>3. CallsNext(AppOf(d), d)
      BY <2>1, <3>1, <3>2, <1>6, <1>7
    <3>4. QED
      BY <3>1, <3>2, <3>3, <1>3, <1>4
  <2>2. QED
    BY <1>1, <2>1, SticksKept
<1>11. HooksReady'
  <2>1. ASSUME NEW r \in Request, (At(r, "page") \/ (At(r, "wait") /\ ~OnItsWay(r)))',
               Live(req'[r].chan)
        PROVE  CallsNext(AppFor(r)', req'[r].chan)
    <3>1. /\ At(r, "page") \/ At(r, "wait")
          /\ req' = req /\ AppFor(r)' = AppFor(r)
          /\ Live(req[r].chan)
      BY <2>1, <1>1 DEF At, AppFor
    <3>2. req[r].chan \in Chan /\ AppFor(r) \in App
      BY <3>1, KnownChannels DEF At, UnderWay
    <3>3. AppOf(req[r].chan) = AppFor(r)
      BY <3>1 DEF At, SetupInv, SetupsFit
    <3>4. CASE AppFor(r) = p.app
      BY <3>1, <3>2, <3>3, <3>4, <1>6
    <3>5. CASE AppFor(r) # p.app
      <4>1. At(r, "page") \/ (At(r, "wait") /\ ~OnItsWay(r))
        BY <2>1, <3>1, <3>5, <1>1 DEF At, OnItsWay
      <4>2. Calls(AppFor(r), req[r].chan)
        BY <3>1, <4>1 DEF SetupInv, HooksReady
      <4>3. QED
        BY <3>1, <3>2, <3>5, <4>2, <1>7
    <3>6. QED
      BY <3>4, <3>5
  <2>2. QED
    BY <1>1, <2>1, HooksReadyKept
<1>12. QED
  BY <1>8, <1>9, <1>10, <1>11 DEF SetupInv

\* Success is reported of a webhook that is in effect; a Facebook set-up goes on
\* with its second call.
LEMMA AnswerHookKeeps ==
  ASSUME ChannelsTypeOK, SetupInv, NEW q \in Request, AnswerHook(q)
  PROVE  SetupInv'
<1> DEFINE c == req[q].chan
           a == AppFor(q)
<1>1. /\ At(q, "wait") /\ ~OnItsWay(q)
      /\ UNCHANGED <<row, hook, pending>>
      /\ \/ /\ req[q].type = "FACEBOOK"
            /\ req' = [req EXCEPT ![q] = [@ EXCEPT !.pc = "page"]]
            /\ UNCHANGED told
         \/ req[q].type # "FACEBOOK" /\ told' = told \cup {c} /\ Answer(q)
  BY DEF AnswerHook, Succeed
<1>2. /\ c \in Chan /\ a \in App
      /\ req[q] = [pc |-> req[q].pc, config |-> req[q].config, type |-> req[q].type, chan |-> c]
  BY <1>1, CallTyped DEF At
<1>3. /\ row[c].st # "unused"
      /\ Live(c) => AppOf(c) = a /\ Calls(a, c)
  BY <1>1 DEF SetupInv, SetupsFit, HooksReady, At
<1>4. /\ \A r \in Request : r # q => req'[r] = req[r]
      /\ req'[q].pc \in UnderWay =>
           /\ req'[q].pc = "page" /\ req'[q].chan = c /\ req'[q].type = req[q].type
           /\ req'[q].config = req[q].config /\ req[q].type = "FACEBOOK"
  BY <1>1, <1>2 DEF ChannelsTypeOK, Answer, Free, UnderWay
<1>5. RowsFit' /\ HooksFit' /\ PendingFits'
  BY <1>1 DEF SetupInv, RowsFit, HooksFit, PendingFits, Live, AppOf
<1>6. ToldFits' /\ SetupSticks'
  <2>1. Live(c) => row[c].type = req[q].type
    BY <1>3 DEF AppOf, AppFor
  <2>2. \A d \in told' : d \in told \/ (d = c /\ req[q].type # "FACEBOOK")
    BY <1>1
  <2>3. QED
    BY <1>1, <1>3, <2>1, <2>2 DEF SetupInv, ToldFits, SetupSticks, Live, AppOf, Calls
<1>7. SetupsFit'
  BY <1>1, <1>3, <1>4 DEF SetupInv, SetupsFit, Live, AppOf, AppFor, At, UnderWay, Meta
<1>8. HooksReady'
  <2>1. (At(q, "page") \/ At(q, "wait"))' => AppFor(q)' = a /\ req'[q].chan = c
    BY <1>4 DEF At, AppFor, UnderWay
  <2>2. \A r \in Request : r # q =>
          /\ AppFor(r)' = AppFor(r) /\ OnItsWay(r)' = OnItsWay(r)
          /\ At(r, "page")' = At(r, "page") /\ At(r, "wait")' = At(r, "wait")
    BY <1>1, <1>4 DEF OnItsWay, AppFor, At
  <2>3. QED
    BY <1>1, <1>3, <1>4, <2>1, <2>2 DEF SetupInv, HooksReady, Live, Calls
<1>9. QED
  BY <1>5, <1>6, <1>7, <1>8 DEF SetupInv

\* The page of an app is subscribed, which changes nothing in its webhook.
LEMMA PageKeeps ==
  ASSUME ChannelsTypeOK, SetupInv, NEW a \in App,
         hook' = [hook EXCEPT ![a] = [@ EXCEPT !.page = TRUE]], UNCHANGED row
  PROVE  /\ hook'[a].page
         /\ \A b \in App : /\ hook'[b].calls = hook[b].calls /\ hook'[b].late = hook[b].late
                           /\ hook[b].page => hook'[b].page
         /\ HooksFit'
         /\ \A c \in told : Live(c) =>
              CallsNext(AppOf(c), c) /\ (row[c].type = "FACEBOOK" => hook'[AppOf(c)].page)
<1>1. hook[a] \in Hook
  BY DEF ChannelsTypeOK
<1>2. /\ hook'[a] = [hook[a] EXCEPT !.page = TRUE]
      /\ \A b \in App : b # a => hook'[b] = hook[b]
  BY DEF ChannelsTypeOK
<1>3. hook'[a].page /\ hook'[a].calls = hook[a].calls /\ hook'[a].late = hook[a].late
  BY <1>1, <1>2 DEF Hook
<1>4. \A b \in App : /\ hook'[b].calls = hook[b].calls /\ hook'[b].late = hook[b].late
                     /\ hook[b].page => hook'[b].page
  BY <1>2, <1>3
<1>5. HooksFit'
  BY <1>4 DEF SetupInv, HooksFit, Live, AppOf
<1>6. ASSUME NEW c \in told, Live(c)
      PROVE  CallsNext(AppOf(c), c) /\ (row[c].type = "FACEBOOK" => hook'[AppOf(c)].page)
  <2>1. AppOf(c) \in App
    BY <1>6, RowTyped DEF ChannelsTypeOK
  <2>2. QED
    BY <1>4, <1>6, <2>1 DEF SetupInv, SetupSticks, Calls, CallsNext
<1>7. QED
  BY <1>3, <1>4, <1>5, <1>6

LEMMA SetupPageKeeps ==
  ASSUME ChannelsTypeOK, SetupInv, NEW q \in Request, SetupPage(q)
  PROVE  SetupInv'
<1> DEFINE c == req[q].chan
           a == AppFor(q)
<1>1. /\ At(q, "page")
      /\ hook' = [hook EXCEPT ![a] = [@ EXCEPT !.page = TRUE]]
      /\ told' = told \cup {c} \/ told' = told
      /\ Answer(q)
      /\ UNCHANGED <<row, pending>>
  BY DEF SetupPage, Succeed
<1>2. c \in Chan /\ a \in App /\ row[c].st # "unused"
  BY <1>1, KnownChannels DEF At, UnderWay
<1>3. /\ hook'[a].page
      /\ \A b \in App : /\ hook'[b].calls = hook[b].calls /\ hook'[b].late = hook[b].late
                        /\ hook[b].page => hook'[b].page
      /\ HooksFit'
      /\ \A d \in told : Live(d) =>
           CallsNext(AppOf(d), d) /\ (row[d].type = "FACEBOOK" => hook'[AppOf(d)].page)
  BY <1>1, <1>2, PageKeeps
<1>4. Live(c) => AppOf(c) = a /\ CallsNext(a, c)
  <2>1. Live(c) => AppOf(c) = a /\ Calls(a, c)
    BY <1>1 DEF SetupInv, SetupsFit, HooksReady, At
  <2>2. QED
    BY <2>1, <1>2, <1>3 DEF Calls, CallsNext
<1>5. RowsFit' /\ ToldFits' /\ PendingFits'
  BY <1>1, <1>2 DEF SetupInv, RowsFit, ToldFits, PendingFits, Live, AppOf
<1>6. \A r \in Request : req'[r].pc \in UnderWay => req'[r] = req[r]
  BY <1>1 DEF Answer, Free, ChannelsTypeOK, UnderWay
<1>7. SetupsFit'
  BY <1>1, <1>6 DEF SetupInv, SetupsFit, Live, AppOf, AppFor, At, UnderWay
<1>8. HooksReady'
  <2>1. ASSUME NEW r \in Request, (At(r, "page") \/ (At(r, "wait") /\ ~OnItsWay(r)))',
               Live(req'[r].chan)
        PROVE  CallsNext(AppFor(r)', req'[r].chan)
    <3>1. req'[r] = req[r]
      BY <2>1, <1>6 DEF At, UnderWay
    <3>2. /\ At(r, "page") \/ (At(r, "wait") /\ ~OnItsWay(r))
          /\ AppFor(r)' = AppFor(r)
      BY <2>1, <3>1, <1>1 DEF At, OnItsWay, AppFor
    <3>3. AppFor(r) \in App /\ Calls(AppFor(r), req[r].chan)
      BY <2>1, <3>1, <3>2, KnownChannels DEF At, UnderWay, SetupInv, HooksReady
    <3>4. QED
      BY <3>1, <3>2, <3>3, <1>3 DEF Calls, CallsNext
  <2>2. QED
    BY <1>1, <2>1, HooksReadyKept
<1>9. SetupSticks'
  <2>1. ASSUME NEW d \in told', Live(d)
        PROVE  CallsNext(AppOf(d), d) /\ (row[d].type = "FACEBOOK" => hook'[AppOf(d)].page)
    <3>1. CASE d \in told
      BY <2>1, <3>1, <1>3
    <3>2. CASE d = c
      BY <2>1, <3>2, <1>3, <1>4
    <3>3. QED
      BY <2>1, <3>1, <3>2, <1>1
  <2>2. QED
    BY <1>1, <2>1, SticksKept
<1>10. QED
  BY <1>3, <1>5, <1>7, <1>8, <1>9 DEF SetupInv

\* What a platform is asked to do by hand, it does as for a call.
LEMMA HookByHandKeeps ==
  ASSUME ChannelsTypeOK, SetupInv, NEW c \in Chan, HookByHand(c)
  PROVE  SetupInv'
<1> DEFINE a == AppOf(c)
<1>1. /\ Live(c)
      /\ Accept(a, c)
      /\ hook' = [hook EXCEPT ![a] = [@ EXCEPT !.page = TRUE]]
      /\ UNCHANGED <<row, told, req>>
  BY DEF HookByHand
<1>2. a \in App
  BY <1>1, RowTyped
<1>3. /\ \A b \in App : hook'[b].calls = hook[b].calls /\ hook'[b].late = hook[b].late
      /\ HooksFit'
      /\ \A d \in told : Live(d) =>
           CallsNext(AppOf(d), d) /\ (row[d].type = "FACEBOOK" => hook'[AppOf(d)].page)
  BY <1>1, <1>2, PageKeeps
<1>4. PendingFits'
  BY <1>1, <1>2, AcceptKeeps DEF Live
<1>5. RowsFit' /\ ToldFits' /\ SetupsFit'
  BY <1>1 DEF SetupInv, RowsFit, ToldFits, SetupsFit, Live, AppOf, AppFor, At
<1>6. SetupSticks'
  BY <1>1, <1>3, SticksKept
<1>7. HooksReady'
  <2>1. ASSUME NEW r \in Request, (At(r, "page") \/ (At(r, "wait") /\ ~OnItsWay(r)))',
               Live(req'[r].chan)
        PROVE  CallsNext(AppFor(r)', req'[r].chan)
    <3>1. req' = req /\ AppFor(r)' = AppFor(r)
      BY <1>1 DEF AppFor
    <3>2. At(r, "page") \/ (At(r, "wait") /\ ~OnItsWay(r))
      BY <2>1, <3>1, <1>1 DEF At, OnItsWay, Accept
    <3>3. AppFor(r) \in App /\ Calls(AppFor(r), req[r].chan)
      BY <2>1, <3>1, <3>2, KnownChannels DEF At, UnderWay, SetupInv, HooksReady
    <3>4. QED
      BY <3>1, <3>3, <1>3 DEF Calls, CallsNext
  <2>2. QED
    BY <1>1, <2>1, HooksReadyKept
<1>8. QED
  BY <1>3, <1>4, <1>5, <1>6, <1>7 DEF SetupInv

\* What is known of a channel that is gone is only that it is gone, and what is
\* on its way for it is late.
LEMMA DeleteChannelKeeps ==
  ASSUME ChannelsTypeOK, SetupInv, NEW c \in Chan, DeleteChannel(c)
  PROVE  SetupInv'
<1> DEFINE next(p) == [p EXCEPT !.late = @ \/ p.chan = c]
<1>1. /\ row' = [row EXCEPT ![c] = [st |-> "deleted"]]
      /\ pending' = {next(p) : p \in pending}
      /\ UNCHANGED <<hook, told, req>>
  BY DEF DeleteChannel
<1>2. \A d \in Chan : /\ row'[d].st # "unused" <=> row[d].st # "unused"
                      /\ row'[d].st = "live" <=> row[d].st = "live" /\ d # c
                      /\ d # c => row'[d] = row[d]
  BY <1>1 DEF ChannelsTypeOK, DeleteChannel, Live
<1>3. \A p \in pending : /\ next(p).app = p.app /\ next(p).chan = p.chan
                         /\ next(p).late <=> p.late \/ p.chan = c
  BY DEF ChannelsTypeOK, Accepted
<1> HIDE DEF next
<1>4. RowsFit'
  BY <1>2 DEF SetupInv, RowsFit, Live, AppOf
<1>5. HooksFit'
  <2>1. \A a \in App : hook[a].calls \in Chan \cup {NoChan}
    BY DEF ChannelsTypeOK, Hook
  <2>2. QED
    BY <1>1, <1>2, <2>1 DEF SetupInv, HooksFit, Live, AppOf
<1>6. ToldFits' /\ SetupSticks'
  BY <1>1, <1>2 DEF SetupInv, ToldFits, SetupSticks, ChannelsTypeOK, Live, AppOf, Calls
<1>7. PendingFits'
  BY <1>1, <1>2, <1>3, KnownChannels DEF SetupInv, PendingFits, Live, AppOf
<1>8. SetupsFit'
  BY <1>1, <1>2, KnownChannels DEF SetupInv, SetupsFit, Live, AppOf, AppFor, At, UnderWay
<1>9. HooksReady'
  <2>1. ASSUME NEW r \in Request, (At(r, "page") \/ (At(r, "wait") /\ ~OnItsWay(r)))',
               Live(req[r].chan)'
        PROVE  Calls(AppFor(r), req[r].chan)'
    <3>1. req' = req /\ hook' = hook /\ AppFor(r)' = AppFor(r)
      BY <1>1 DEF AppFor
    <3>2. At(r, "page") \/ (At(r, "wait") /\ ~OnItsWay(r))
      BY <2>1, <3>1, <1>1, <1>3 DEF At, OnItsWay
    <3>3. Live(req[r].chan)
      BY <2>1, <3>1, <3>2, <1>2, KnownChannels DEF Live, At, UnderWay
    <3>4. Calls(AppFor(r), req[r].chan)
      BY <3>2, <3>3 DEF SetupInv, HooksReady
    <3>5. QED
      BY <3>1, <3>4 DEF Calls
  <2>2. QED
    BY <2>1 DEF HooksReady
<1>10. QED
  BY <1>4, <1>5, <1>6, <1>7, <1>8, <1>9 DEF SetupInv

LEMMA NextKeepsSetups ==
  ChannelsTypeOK /\ SetupInv /\ [ChannelsNext]_channelsVars => SetupInv'
<1> SUFFICES ASSUME ChannelsTypeOK, SetupInv, [ChannelsNext]_channelsVars
             PROVE  SetupInv'
  OBVIOUS
<1>1. ASSUME NEW q \in Request, ServeCall(q)
      PROVE  SetupInv'
  <2>1. CASE CreateFails(q) \/ SetupFails(q) \/ LoseAnswer(q)
    BY <2>1, AnswerKeeps DEF CreateFails, SetupFails, LoseAnswer
  <2>2. QED
    BY <1>1, <2>1, CreateCheckKeeps, CreateInsertKeeps, SetupReadKeeps, SetupHookKeeps,
       AnswerHookKeeps, SetupPageKeeps DEF ServeCall
<1>2. ASSUME NEW c \in Chan, TestConnection(c)
      PROVE  SetupInv'
  BY <1>2, SetupKept DEF TestConnection
<1>3. CASE RestartApi
  <2>1. \A q \in Request : req'[q].pc \notin UnderWay
    BY <1>3 DEF RestartApi, Free, UnderWay
  <2>2. QED
    BY <1>3, <2>1, SetupKept DEF RestartApi
<1>4. ASSUME NEW a \in App, NEW ev \in Events, HandleWebhook(a, ev)
      PROVE  SetupInv'
  BY <1>4, SetupKept DEF HandleWebhook
<1>5. ASSUME NEW c \in Chan, NEW ev \in Events, Reply(c, ev)
      PROVE  SetupInv'
  BY <1>5, SetupKept DEF Reply
<1>6. CASE UNCHANGED channelsVars
  BY <1>6, SetupKept DEF channelsVars
<1>7. QED
  BY <1>1, <1>2, <1>3, <1>4, <1>5, <1>6, CommitKeeps, HookByHandKeeps, DeleteChannelKeeps
     DEF ChannelsNext

-----------------------------------------------------------------------------
(* Traffic.                                                                *)

\* Steps that leave the rows of the channels that exist alone.
LEMMA TrafficKept ==
  ASSUME TrafficInv, ChannelsTypeOK, UNCHANGED <<filed, sent>>,
         \A c \in Chan : Live(c) => row'[c] = row[c]
  PROVE  TrafficInv'
<1>1. \A f \in filed : f[1] \in Chan /\ row'[f[1]] = row[f[1]]
  BY DEF TrafficInv, FiledFits, ChannelsTypeOK
<1>2. \A s \in sent : row'[s.chan] = row[s.chan]
  BY DEF TrafficInv, SentFits, ChannelsTypeOK
<1>3. FiledFits'
  BY <1>1 DEF TrafficInv, FiledFits, Live
<1>4. SentFits'
  BY <1>2 DEF TrafficInv, SentFits, Live
<1>5. QED
  BY <1>3, <1>4 DEF TrafficInv

\* The app that calls a channel is of its type: the event is parsed by the
\* connector that checked it.
LEMMA HandleWebhookKeeps ==
  ASSUME ChannelsTypeOK, SetupInv, TrafficInv,
         NEW a \in App, NEW ev \in Events, HandleWebhook(a, ev)
  PROVE  TrafficInv'
<1> DEFINE c == hook[a].calls
<1>1. /\ c # NoChan /\ Live(c) /\ Parses(a[2], ev)
      /\ filed' = filed \cup {<<c, ev>>}
      /\ UNCHANGED <<row, sent>>
  BY DEF HandleWebhook
<1>2. row[c].type = a[2]
  BY <1>1 DEF SetupInv, HooksFit, AppOf, App
<1>3. FiledFits'
  BY <1>1, <1>2 DEF TrafficInv, FiledFits, Live
<1>4. SentFits'
  BY <1>1 DEF TrafficInv, SentFits, Live
<1>5. QED
  BY <1>3, <1>4 DEF TrafficInv

\* Every job starts with init: the answer goes out with the configuration of
\* the channel it belongs to.
LEMMA ReplyKeeps ==
  ASSUME TrafficInv, NEW c \in Chan, NEW ev \in Events, Reply(c, ev)
  PROVE  TrafficInv'
<1> DEFINE new == SentBy(c, ThreadOf(row[c].type, ev), row[c].config)
<1>1. /\ <<c, ev>> \in filed
      /\ sent' \subseteq sent \cup {new}
      /\ UNCHANGED <<row, filed>>
  BY DEF Reply
<1>2. /\ Live(new.chan)
      /\ new.by = row[new.chan].config
      /\ new.place = AddressOf(row[new.chan].type, new.thread)
      /\ \E f \in filed : f[1] = new.chan /\ ThreadOf(row[new.chan].type, f[2]) = new.thread
  <2>1. new.chan = c /\ new.thread = ThreadOf(row[c].type, ev) /\ new.by = row[c].config
        /\ new.place = AddressOf(row[c].type, ThreadOf(row[c].type, ev))
    BY DEF SentBy
  <2>2. Live(c)
    BY <1>1 DEF TrafficInv, FiledFits
  <2>3. <<c, ev>>[1] = new.chan /\ ThreadOf(row[new.chan].type, <<c, ev>>[2]) = new.thread
    BY <2>1
  <2>4. QED
    BY <1>1, <2>1, <2>2, <2>3
<1> HIDE DEF new
<1>3. SentFits'
  BY <1>1, <1>2 DEF TrafficInv, SentFits, Live
<1>4. FiledFits'
  BY <1>1 DEF TrafficInv, FiledFits, Live
<1>5. QED
  BY <1>3, <1>4 DEF TrafficInv

\* The events and answers of a channel go with it.
LEMMA DeleteKeepsTraffic ==
  ASSUME ChannelsTypeOK, TrafficInv, NEW c \in Chan, DeleteChannel(c)
  PROVE  TrafficInv'
<1>1. /\ \A d \in Chan : d # c => row'[d] = row[d]
      /\ filed' = {f \in filed : f[1] # c}
      /\ sent' = {s \in sent : s.chan # c}
  BY DEF DeleteChannel, ChannelsTypeOK
<1>2. \A f \in filed' : f \in filed /\ row'[f[1]] = row[f[1]]
  BY <1>1 DEF ChannelsTypeOK
<1>3. \A s \in sent' : s \in sent /\ s.chan # c /\ row'[s.chan] = row[s.chan]
  BY <1>1 DEF ChannelsTypeOK
<1>4. FiledFits'
  BY <1>2 DEF TrafficInv, FiledFits, Live
<1>5. \A s \in sent : s.chan # c =>
        (\E f \in filed' : f[1] = s.chan /\ ThreadOf(row[s.chan].type, f[2]) = s.thread)
  BY <1>1 DEF TrafficInv, SentFits
<1>6. SentFits'
  BY <1>3, <1>5 DEF TrafficInv, SentFits, Live
<1>7. QED
  BY <1>4, <1>6 DEF TrafficInv

LEMMA NextKeepsTraffic ==
  ChannelsTypeOK /\ SetupInv /\ TrafficInv /\ [ChannelsNext]_channelsVars => TrafficInv'
<1> SUFFICES ASSUME ChannelsTypeOK, SetupInv, TrafficInv, [ChannelsNext]_channelsVars
             PROVE  TrafficInv'
  OBVIOUS
<1>1. ASSUME NEW q \in Request, ServeCall(q)
      PROVE  TrafficInv'
  <2>1. ASSUME NEW c \in Chan, CreateInsert(q, c)
        PROVE  TrafficInv'
    <3>1. \A d \in Chan : Live(d) => row'[d] = row[d]
      BY <2>1 DEF CreateInsert, Live, ChannelsTypeOK
    <3>2. QED
      BY <2>1, <3>1, TrafficKept DEF CreateInsert, traffic
  <2>2. CASE UNCHANGED <<row, filed, sent>>
    BY <2>2, TrafficKept
  <2>3. QED
    BY <1>1, <2>1, <2>2 DEF ServeCall, CreateCheck, CreateFails, SetupRead, SetupHook,
                            AnswerHook, LoseAnswer, SetupPage, SetupFails, traffic
<1>2. CASE \/ \E c \in Chan : HookByHand(c) \/ TestConnection(c)
           \/ \E p \in pending : Commit(p)
           \/ RestartApi
           \/ UNCHANGED channelsVars
  <2>1. UNCHANGED <<row, filed, sent>>
    BY <1>2 DEF HookByHand, TestConnection, Commit, RestartApi, traffic, channelsVars
  <2>2. QED
    BY <2>1, TrafficKept
<1>3. QED
  BY <1>1, <1>2, HandleWebhookKeeps, ReplyKeeps, DeleteKeepsTraffic DEF ChannelsNext

-----------------------------------------------------------------------------
(* The theorems.                                                           *)

ChannelsInv == ChannelsTypeOK /\ SetupInv /\ TrafficInv

LEMMA InitKept == ChannelsInit => ChannelsInv
<1> SUFFICES ASSUME ChannelsInit
             PROVE  ChannelsInv
  OBVIOUS
<1>1. SetupInv
  BY DEF ChannelsInit, SetupInv, RowsFit, SetupsFit, PendingFits, HooksReady, HooksFit, ToldFits,
         SetupSticks, Live, At, NoHook, Free
<1>2. TrafficInv
  BY DEF ChannelsInit, TrafficInv, FiledFits, SentFits
<1>3. QED
  BY <1>1, <1>2, InitTyped DEF ChannelsInv

\* Whatever the requests, the platforms and the process do: rows, set-ups under
\* way, webhooks accepted and in effect, filed events and answers agree.
THEOREM ChannelsInvariant == ChannelsSpec => []ChannelsInv
<1>1. ChannelsInv /\ [ChannelsNext]_channelsVars => ChannelsInv'
  BY NextTyped, NextKeepsSetups, NextKeepsTraffic DEF ChannelsInv, TrafficInv
<1>2. QED
  BY InitKept, <1>1, PTL DEF ChannelsSpec

\* Every table, connector and request always holds a value of its type.
THEOREM ChannelsTypeCorrect == ChannelsSpec => []ChannelsTypeOK
BY ChannelsInvariant, PTL DEF ChannelsInv

\* A set-up that was reported as successful sticks while its channel exists,
\* however many set-ups are under way, accepted or given up: only a webhook that
\* a platform put into effect after its channel was deleted can take its place.
THEOREM SetupsStick == ChannelsSpec => []SetupSticks
BY ChannelsInvariant, PTL DEF ChannelsInv, SetupInv

\* Answers go out with the credentials of their own channel, although one
\* connector serves all organisations.  On Facebook, Instagram and Telegram they
\* arrive where the sender of an event of the thread looks for them, or nowhere.
\* (The stub connectors send nothing.  E-mail is excepted: its answers go to
\* whoever's address the subject contains.)
THEOREM AnswersGoBack == ChannelsSpec => []RepliesGoBack
<1>1. ChannelsInv => RepliesGoBack
  <2>1. ASSUME ChannelsInv, NEW s \in sent
        PROVE  /\ s.by = row[s.chan].config
               /\ s.place # Nowhere /\ row[s.chan].type # "EMAIL" =>
                    \E f \in filed : /\ f[1] = s.chan
                                     /\ ThreadOf(row[s.chan].type, f[2]) = s.thread
                                     /\ PlaceOf(f[2]) = s.place
    <3>1. PICK f \in filed : f[1] = s.chan /\ ThreadOf(row[s.chan].type, f[2]) = s.thread
      BY <2>1 DEF ChannelsInv, TrafficInv, SentFits
    <3>2. f[2] \in Event /\ s.chan \in Chan
      BY <2>1, <3>1 DEF ChannelsInv, ChannelsTypeOK
    <3>3. Live(s.chan) /\ Parses(row[s.chan].type, f[2])
      BY <2>1, <3>1 DEF ChannelsInv, TrafficInv, FiledFits
    <3>4. row[s.chan].type \in ChannelType
      BY <2>1, <3>2, <3>3, RowTyped DEF ChannelsInv
    <3>5. s.by = row[s.chan].config
          /\ s.place = AddressOf(row[s.chan].type, ThreadOf(row[s.chan].type, f[2]))
      BY <2>1, <3>1 DEF ChannelsInv, TrafficInv, SentFits
    <3>6. ASSUME s.place # Nowhere, row[s.chan].type # "EMAIL"
          PROVE  s.place = PlaceOf(f[2])
      BY <3>2, <3>3, <3>4, <3>5, <3>6, AnswersReachSender
    <3>7. QED
      BY <3>1, <3>5, <3>6
  <2>2. QED
    BY <2>1 DEF RepliesGoBack
<1>2. QED
  BY <1>1, ChannelsInvariant, PTL
=============================================================================
