------------------------------ MODULE Channels ------------------------------
(***************************************************************************)
(* Setting channels up and what comes through them: ChannelsService        *)
(* (createChannel, setupWebhookSubscription, deleteChannel), the webhook   *)
(* controller and the answers the outbound worker sends.  All channels of  *)
(* one type share one connector instance per process, so whoever was the   *)
(* last to init it decides the credentials everybody uses.  Calls have one *)
(* action per call to the database or to a platform; what runs between two *)
(* awaits is one step.  updateChannel writes a name and a flag that nothing *)
(* reads and is left out.                                                  *)
(***************************************************************************)
EXTENDS Connectors

CONSTANTS
  Chan,        \* ids of channels; an id is never used again
  NoChan,
  Type,        \* the types of channel that are created; a bound
  Events,      \* the events that happen; a bound
  Request,     \* requests served at the same time
  Production,  \* NODE_ENV = "production"
  Mishaps      \* which of "refuse", "lose" (platform calls), "api" (process) may happen

ASSUME ChannelsAssumption == /\ Type \subseteq ChannelType
                             /\ Events \subseteq Event
                             /\ NoChan \notin Chan
                             /\ Production \in BOOLEAN
                             /\ Mishaps \subseteq {"refuse", "lose", "api"}

VARIABLES
  row,         \* table Channel: live rows, unused ids and deleted rows
  api,         \* the configuration each connector of the API process holds
  sender,      \* the same in the outbound worker
  hook,        \* what an organisation's app on the platform of a type calls
  pending,     \* webhooks a platform has accepted and not put into effect yet
  told,        \* channels whose set-up was answered with success
  req,         \* the createChannel and set-up calls being served
  filed,       \* events that were accepted, per channel
  sent         \* answers the worker sent

channelsVars == <<row, api, sender, hook, pending, told, req, filed, sent>>

traffic == <<sender, filed, sent>>

Row == [st : {"live"}, org : Org, type : Type, config : Config]

NoRow == [st : {"unused", "deleted"}]

App == Org \X Type

\* `late`: the channel was gone before the platform put its webhook into effect
\* (a history variable, like the field of `pending` it comes from).
Hook == [calls : Chan \cup {NoChan}, page : BOOLEAN, late : BOOLEAN]

NoHook == [calls |-> NoChan, page |-> FALSE, late |-> FALSE]

Accepted == [app : App, chan : Chan, late : BOOLEAN]

Free == [pc |-> "free"]

Call == {Free}
        \cup [pc : {"insert"}, config : Config, type : Type]
        \cup [pc : {"hook", "wait", "page"}, config : Config, type : Type, chan : Chan]

ChannelsTypeOK ==
  /\ row \in [Chan -> Row \cup NoRow]
  /\ api \in [Type -> Config \cup {NoConfig}]
  /\ sender \in [Type -> Config \cup {NoConfig}]
  /\ hook \in [App -> Hook]
  /\ pending \subseteq Accepted
  /\ told \subseteq Chan
  /\ req \in [Request -> Call]
  /\ filed \subseteq Chan \X Events
  /\ sent \subseteq [chan : Chan, thread : Thread, by : Config,
                     place : {Nowhere} \cup ({"inbox"} \X Person) \cup ({"post"} \X Post)]

ChannelsInit ==
  /\ row = [c \in Chan |-> [st |-> "unused"]]
  /\ api = [t \in Type |-> NoConfig]
  /\ sender = [t \in Type |-> NoConfig]
  /\ hook = [a \in App |-> NoHook]
  /\ pending = {}
  /\ told = {}
  /\ req = [q \in Request |-> Free]
  /\ filed = {}
  /\ sent = {}

Live(c) == row[c].st = "live"

Taken(org, type) == \E c \in Chan : Live(c) /\ row[c].org = org /\ row[c].type = type

AppOf(c) == <<row[c].org, row[c].type>>

\* The app a request sets up: the organisation is the owner of the credentials.
AppFor(q) == <<req[q].config.owner, req[q].type>>

At(q, pc) == req[q].pc = pc

\* The webhook that a request has set up is not in effect yet.
OnItsWay(q) == \E p \in pending : p.app = AppFor(q) /\ p.chan = req[q].chan

\* The app calls the channel, unless its webhook was put into effect too late.
Calls(app, c) == hook[app].late \/ hook[app].calls = c

Answer(q) == req' = [req EXCEPT ![q] = Free]

-----------------------------------------------------------------------------
(* createChannel.                                                          *)

\* The check, and init as soon as it is answered: the connector holds the new
\* configuration whatever becomes of the call.
CreateCheck(q, cfg, type) ==
  /\ At(q, "free")
  /\ ~Taken(cfg.owner, type)
  /\ api' = [api EXCEPT ![type] = cfg]
  /\ IF InitThrows(type, cfg)
     THEN UNCHANGED req
     ELSE req' = [req EXCEPT ![q] = [pc |-> "insert", config |-> cfg, type |-> type]]
  /\ UNCHANGED <<row, hook, pending, told, traffic>>

\* A Telegram channel is set up at once; the webhook test that Facebook and
\* Instagram channels get only asks verifyWebhook.  EMAIL needs no set-up.
CreateInsert(q, c) ==
  /\ At(q, "insert")
  /\ row[c].st = "unused"
  /\ ~Taken(req[q].config.owner, req[q].type)
  /\ row' = [row EXCEPT ![c] = [st |-> "live", org |-> req[q].config.owner,
                                type |-> req[q].type, config |-> req[q].config]]
  /\ IF req[q].type = "TELEGRAM"
     THEN /\ req' = [req EXCEPT ![q] = [pc |-> "hook", config |-> req[q].config,
                                       type |-> req[q].type, chan |-> c]]
          /\ api' = [api EXCEPT !["TELEGRAM"] = req[q].config]
     ELSE Answer(q) /\ UNCHANGED api
  /\ UNCHANGED <<hook, pending, told, traffic>>

\* The unique key (orgId, type).
CreateFails(q) ==
  /\ At(q, "insert")
  /\ Taken(req[q].config.owner, req[q].type)
  /\ Answer(q)
  /\ UNCHANGED <<row, api, hook, pending, told, traffic>>

-----------------------------------------------------------------------------
(* setupWebhookSubscription.                                               *)

\* The row is read, Telegram's connector initialised, the first call made.  An
\* EMAIL channel is answered at once and the other types have no set-up.
SetupRead(q, c) ==
  /\ At(q, "free")
  /\ Live(c)
  /\ row[c].type \in Meta \cup {"TELEGRAM"}
  /\ req' = [req EXCEPT ![q] = [pc |-> "hook", config |-> row[c].config,
                                type |-> row[c].type, chan |-> c]]
  /\ api' = IF row[c].type = "TELEGRAM" THEN [api EXCEPT !["TELEGRAM"] = row[c].config] ELSE api
  /\ UNCHANGED <<row, hook, pending, told, traffic>>

\* Mutant of VerifyWebhook: it answers the challenge whatever the channel.
VerifyAnything(c) == TRUE

\* verifyWebhook: the channel exists (and its token is the one that was sent).
VerifyWebhook(c) == Live(c)

Succeed(q) ==
  /\ told' = told \cup {req[q].chan}
  /\ Answer(q)

Refused(q) == ~req[q].config.complete \/ "refuse" \in Mishaps

\* The platform takes the webhook of a channel on.  A channel that is gone (only
\* Telegram would take one) makes it late from the start.
Accept(app, c) ==
  pending' = pending \cup {[app |-> app, chan |-> c, late |-> app[2] = "TELEGRAM" /\ ~Live(c)]}

\* The first call reaches the platform, which asks verifyWebhook (Telegram
\* does not).  A call that arrives after its sender has died or given up does
\* nothing that the same call does not do by arriving before.
SetupHook(q) ==
  /\ At(q, "hook")
  /\ req[q].config.complete
  /\ req[q].type \in Meta => VerifyWebhook(req[q].chan)
  /\ Accept(AppFor(q), req[q].chan)
  /\ req' = [req EXCEPT ![q] = [@ EXCEPT !.pc = "wait"]]
  /\ UNCHANGED <<row, api, hook, told, traffic>>

\* The platform puts an accepted webhook into effect: from now on it calls the
\* channel, whatever happened to the channel since.
Commit(p) ==
  /\ hook' = [hook EXCEPT ![p.app] = [@ EXCEPT !.calls = p.chan, !.late = p.late]]
  /\ pending' = pending \ {p}
  /\ UNCHANGED <<row, api, told, req, traffic>>

\* The platform reports success of a webhook that is in effect.
AnswerHook(q) ==
  /\ At(q, "wait")
  /\ ~OnItsWay(q)
  /\ IF req[q].type = "FACEBOOK"
     THEN /\ req' = [req EXCEPT ![q] = [@ EXCEPT !.pc = "page"]]
          /\ UNCHANGED told
     ELSE Succeed(q)
  /\ UNCHANGED <<row, api, hook, pending, traffic>>

\* The answer is lost, before or after the webhook is in effect.
LoseAnswer(q) ==
  /\ "lose" \in Mishaps
  /\ At(q, "wait")
  /\ Answer(q)
  /\ UNCHANGED <<row, api, hook, pending, told, traffic>>

\* Facebook only: the page is subscribed to the app.  Nothing ends a
\* subscription, so that a moment between acceptance and effect changes nothing.
SetupPage(q) ==
  /\ At(q, "page")
  /\ hook' = [hook EXCEPT ![AppFor(q)] = [@ EXCEPT !.page = TRUE]]
  /\ \/ Succeed(q)
     \/ "lose" \in Mishaps /\ Answer(q) /\ UNCHANGED told
  /\ UNCHANGED <<row, api, pending, traffic>>

\* The platform refuses: the call throws, and what an earlier step did stays.
SetupFails(q) ==
  /\ req[q].pc \in {"hook", "page"}
  /\ Refused(q) \/ (At(q, "hook") /\ ~VerifyWebhook(req[q].chan))
  /\ Answer(q)
  /\ UNCHANGED <<row, api, hook, pending, told, traffic>>

\* The webhook of an app is entered by hand in the platform's console, as the
\* answer of createChannel asks for, and its page is subscribed there; Telegram
\* has no such console.
HookByHand(c) ==
  /\ Live(c)
  /\ row[c].type # "TELEGRAM"
  /\ VerifyWebhook(c)
  /\ Accept(AppOf(c), c)
  /\ hook' = [hook EXCEPT ![AppOf(c)] = [@ EXCEPT !.page = TRUE]]
  /\ UNCHANGED <<row, api, told, req, traffic>>

-----------------------------------------------------------------------------
\* Tickets and messages of the channel go with it; the app's webhook stays, and
\* one that the platform has accepted is on its way.
DeleteChannel(c) ==
  /\ Live(c)
  /\ row' = [row EXCEPT ![c] = [st |-> "deleted"]]
  /\ pending' = {[p EXCEPT !.late = @ \/ p.chan = c] : p \in pending}
  /\ filed' = {f \in filed : f[1] # c}
  /\ sent' = {s \in sent : s.chan # c}
  /\ UNCHANGED <<api, sender, hook, told, req>>

\* The test of a Telegram or Email channel initialises the shared connector.
TestConnection(c) ==
  /\ Live(c)
  /\ row[c].type \in {"TELEGRAM", "EMAIL"}
  /\ api' = [api EXCEPT ![row[c].type] = row[c].config]
  /\ UNCHANGED <<row, hook, pending, told, req, traffic>>

\* The API process dies: calls end where they are, connectors start afresh.
RestartApi ==
  /\ "api" \in Mishaps
  /\ api' = [t \in Type |-> NoConfig]
  /\ req' = [q \in Request |-> Free]
  /\ UNCHANGED <<row, hook, pending, told, traffic>>

-----------------------------------------------------------------------------
(* Traffic.                                                                *)

\* The app of an organisation delivers an event; handleWebhook accepts it if
\* the channel exists and, in production, the shared connector finds the
\* signature right.  A refused event changes nothing.
HandleWebhook(a, ev) ==
  LET c == hook[a].calls IN
  /\ c # NoChan
  /\ Live(c)
  /\ Parses(a[2], ev)
  /\ Production => SignatureValid(a[2], api[a[2]], a[1])
  /\ filed' = filed \cup {<<c, ev>>}
  /\ UNCHANGED <<row, api, sender, hook, pending, told, req, sent>>

SentBy(c, thread, cfg) ==
  [chan |-> c, thread |-> thread, by |-> cfg, place |-> AddressOf(row[c].type, thread)]

\* Mutant of Reply: the connector is initialised when it is first used only.
ReplyInitOnce(c, ev) ==
  /\ <<c, ev>> \in filed
  /\ LET type == row[c].type
         cfg == IF sender[type] = NoConfig THEN row[c].config ELSE sender[type]
     IN  /\ sender' = [sender EXCEPT ![type] = cfg]
         /\ sent' = IF cfg.complete THEN sent \cup {SentBy(c, ThreadOf(type, ev), cfg)} ELSE sent
  /\ UNCHANGED <<row, api, hook, pending, told, req, filed>>

\* The outbound worker answers in the thread of an event: init with the
\* channel's configuration, then send; incomplete credentials are refused.  A
\* worker has one job at a time, so nothing comes between the two.
Reply(c, ev) ==
  /\ <<c, ev>> \in filed
  /\ LET type == row[c].type
         cfg == row[c].config
     IN  /\ sender' = [sender EXCEPT ![type] = cfg]
         /\ sent' = IF cfg.complete THEN sent \cup {SentBy(c, ThreadOf(type, ev), cfg)} ELSE sent
  /\ UNCHANGED <<row, api, hook, pending, told, req, filed>>

-----------------------------------------------------------------------------
ServeCall(q) ==
  \/ \E cfg \in Config, type \in Type : CreateCheck(q, cfg, type)
  \/ \E c \in Chan : CreateInsert(q, c) \/ SetupRead(q, c)
  \/ CreateFails(q) \/ SetupHook(q) \/ AnswerHook(q) \/ LoseAnswer(q)
  \/ SetupPage(q) \/ SetupFails(q)

ChannelsNext ==
  \/ \E q \in Request : ServeCall(q)
  \/ \E p \in pending : Commit(p)
  \/ \E c \in Chan : HookByHand(c) \/ DeleteChannel(c) \/ TestConnection(c)
  \/ RestartApi
  \/ \E a \in App, ev \in Events : HandleWebhook(a, ev)
  \/ \E c \in Chan, ev \in Events : Reply(c, ev)

ChannelsSpec == ChannelsInit /\ [][ChannelsNext]_channelsVars

-----------------------------------------------------------------------------
(* Properties.                                                             *)

\* A set-up that was answered with success sticks as long as the channel
\* exists, although other set-ups, for channels deleted in the meantime, may be
\* under way: its page is subscribed, and its app calls it, unless the platform
\* has since put into effect a webhook whose channel was gone by then.  (That
\* can happen to every platform, and verifyWebhook cannot prevent it.)
SetupSticks ==
  \A c \in told : Live(c) =>
    /\ Calls(AppOf(c), c)
    /\ row[c].type = "FACEBOOK" => hook[AppOf(c)].page

\* Answers come from the channel's own account, although the worker serves the
\* channels of all organisations with one connector; and one that arrives
\* somewhere arrives where somebody whose message is in the thread reads it
\* (not so for EMAIL, see MailsAnswered; stubs send nothing anywhere).
RepliesGoBack ==
  \A s \in sent :
    /\ s.by = row[s.chan].config
    /\ s.place # Nowhere /\ row[s.chan].type # "EMAIL" =>
         \E f \in filed : /\ f[1] = s.chan
                          /\ ThreadOf(row[s.chan].type, f[2]) = s.thread
                          /\ PlaceOf(f[2]) = s.place

\* EMAIL_INTEGRATION_GUIDE.md:8 "Reply to emails directly from the dashboard":
\* every mail that is answered has its answer where its sender reads it.
MailsAnswered ==
  \A s \in sent : row[s.chan].type = "EMAIL" =>
    \E f \in filed : f[1] = s.chan /\ PlaceOf(f[2]) = s.place

-----------------------------------------------------------------------------
(* The inductive invariant behind SetupSticks and RepliesGoBack.           *)

\* An organisation has one channel of a type, with its own credentials.
RowsFit ==
  \A c, d \in Chan :
    /\ Live(c) => row[c].config.owner = row[c].org
    /\ Live(c) /\ Live(d) /\ AppOf(c) = AppOf(d) => c = d

\* A set-up under way knows its channel as it is, or the channel is gone.
SetupsFit ==
  \A q \in Request : req[q].pc \in {"hook", "wait", "page"} =>
    /\ row[req[q].chan].st # "unused"
    /\ Live(req[q].chan) => AppOf(req[q].chan) = AppFor(q)
    /\ req[q].type \in Meta \cup {"TELEGRAM"}
    /\ At(q, "page") => req[q].type = "FACEBOOK"

\* A webhook that is on its way is for a channel that exists or is late.
PendingFits ==
  \A p \in pending :
    /\ row[p.chan].st # "unused"
    /\ Live(p.chan) => AppOf(p.chan) = p.app
    /\ p.late \/ Live(p.chan)

\* A set-up whose webhook is not on its way any more finds it in effect.
HooksReady ==
  \A q \in Request :
    (At(q, "page") \/ (At(q, "wait") /\ ~OnItsWay(q))) /\ Live(req[q].chan)
    => Calls(AppFor(q), req[q].chan)

\* An app calls a channel of its own organisation and type, or one that is gone.
HooksFit ==
  \A a \in App : hook[a].calls # NoChan =>
    /\ row[hook[a].calls].st # "unused"
    /\ Live(hook[a].calls) => AppOf(hook[a].calls) = a

ToldFits == \A c \in told : row[c].st # "unused"

\* Events are filed with channels that exist and parse them.
FiledFits == \A f \in filed : Live(f[1]) /\ Parses(row[f[1]].type, f[2])

\* An answer was sent as the channel, in the thread of an event.
SentFits ==
  \A s \in sent :
    /\ Live(s.chan)
    /\ s.by = row[s.chan].config
    /\ s.place = AddressOf(row[s.chan].type, s.thread)
    /\ \E f \in filed : f[1] = s.chan /\ ThreadOf(row[s.chan].type, f[2]) = s.thread

SetupInv == RowsFit /\ SetupsFit /\ PendingFits /\ HooksReady /\ HooksFit /\ ToldFits /\ SetupSticks

TrafficInv == FiledFits /\ SentFits
=============================================================================
