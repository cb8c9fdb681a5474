----------------------------- MODULE Connectors -----------------------------
(***************************************************************************)
(* What the connectors of the platforms do with a configuration, with an   *)
(* incoming event and with an answer: operators only, no state.  Texts,    *)
(* media and the formats of the webhooks are left out; a thread is what    *)
(* parseIncomingWebhook makes of an event to file it under, a place is     *)
(* where somebody reads answers.                                           *)
(***************************************************************************)
CONSTANTS
  Org,
  Person,
  Post,       \* posts people comment on
  Subject,    \* subjects of mails
  AddressIn,  \* whose address the mail library finds in a subject, if any
  Nowhere,    \* the place of an answer that nobody gets
  NoConfig    \* what a connector holds before its first init

Meta == {"FACEBOOK", "INSTAGRAM"}

\* Connectors whose sendMessage is a stub that reports success.
Stubbed == {"WHATSAPP", "TWITTER", "LINKEDIN", "MOCK"}

ChannelType == Meta \cup Stubbed \cup {"TELEGRAM", "EMAIL"}

\* The credentials of one organisation's app; incomplete if the fields that
\* init looks for, and the app secret, are missing.
Config == [owner : Org, complete : BOOLEAN]

ASSUME ConnectorsAssumption == /\ Nowhere \notin {"inbox", "post"} \X (Person \cup Post)
                               /\ NoConfig \notin Config
                               /\ AddressIn \in [Subject -> Person \cup {Nowhere}]

\* init throws on missing fields, after it has replaced the configuration;
\* Facebook and Instagram only warn, the mock connector does not look.
InitThrows(type, cfg) == type \notin Meta \cup {"MOCK"} /\ ~cfg.complete

\* Whether a connector that holds `held` accepts the signature of an event
\* that the app of `org` signed with its secret.  Without a secret Facebook and
\* Instagram accept everything (also in production) and WhatsApp nothing.
HasSecret(held) == held # NoConfig /\ held.complete

LenientSignatureValid(held, org) == HasSecret(held) => held.owner = org

WhatsAppSignatureValid(held, org) == HasSecret(held) /\ held.owner = org

SignatureValid(type, held, org) ==
  CASE type = "WHATSAPP" -> WhatsAppSignatureValid(held, org)
    [] type \in Meta \cup {"TWITTER", "LINKEDIN"} -> LenientSignatureValid(held, org)
    [] OTHER -> TRUE

-----------------------------------------------------------------------------
(* Events.  A "direct" one is a message or a mail to the organisation, a   *)
(* "comment" is public, a "simulated" one has the format of the tests      *)
(* (senderPhone, message).                                                 *)

Event == [kind : {"direct", "comment", "simulated"}, from : Person, post : Post, subject : Subject]

Direct(ev) == ev.kind = "direct"

Simulated(ev) == ev.kind = "simulated"

Thread == ({"id", "prefixed"} \X Person) \cup ({"post"} \X Post) \cup ({"subject"} \X Subject)

\* externalThreadId, connector by connector: the id of the sender or the chat,
\* post-<id> for comments, a prefix and the number for simulated events, for a
\* mail its subject (or the thread id a mail service gives, no address either).
MetaThread(ev) ==
  CASE ev.kind = "comment" -> <<"post", ev.post>>
    [] Simulated(ev) -> <<"prefixed", ev.from>>
    [] Direct(ev) -> <<"id", ev.from>>

WhatsAppThread(ev) == <<"id", ev.from>>

TwitterThread(ev) == IF Simulated(ev) THEN <<"prefixed", ev.from>> ELSE <<"id", ev.from>>

TelegramThread(ev) == <<"id", ev.from>>

EmailThread(ev) == <<"subject", ev.subject>>

MockThread(ev) == <<"prefixed", ev.from>>

\* parseIncomingWebhook throws on the other events.
Parses(type, ev) ==
  CASE type \in Meta -> TRUE
    [] type \in {"WHATSAPP", "TWITTER", "LINKEDIN"} -> Direct(ev) \/ Simulated(ev)
    [] type \in {"TELEGRAM", "EMAIL"} -> Direct(ev)
    [] type = "MOCK" -> Simulated(ev)

ThreadOf(type, ev) ==
  CASE type \in Meta -> MetaThread(ev)
    [] type = "WHATSAPP" -> WhatsAppThread(ev)
    [] type \in {"TWITTER", "LINKEDIN"} -> TwitterThread(ev)
    [] type = "TELEGRAM" -> TelegramThread(ev)
    [] type = "EMAIL" -> EmailThread(ev)
    [] type = "MOCK" -> MockThread(ev)

\* Where the sender of an event looks for the answer.
PlaceOf(ev) ==
  CASE ev.kind = "comment" -> <<"post", ev.post>>
    [] ev.kind = "direct" -> <<"inbox", ev.from>>
    [] OTHER -> Nowhere

\* Mutant of MetaAddress: the thread id is taken for an address.
ThreadAsAddress(thread) == thread

\* Where sendMessage takes the answer.  Facebook and Instagram: below the post
\* for post-<id>, else to the user with that id, which no prefixed number is.
MetaAddress(thread) ==
  CASE thread[1] = "post" -> thread
    [] thread[1] = "id" -> <<"inbox", thread[2]>>
    [] OTHER -> Nowhere

TelegramAddress(thread) == <<"inbox", thread[2]>>

\* `to:` is the thread id, the subject: the answer goes to whoever's address is
\* written in it, mostly to nobody.
EmailAddress(thread) ==
  LET to == AddressIn[thread[2]] IN IF to = Nowhere THEN Nowhere ELSE <<"inbox", to>>

StubAddress(thread) == Nowhere

AddressOf(type, thread) ==
  CASE type \in Meta -> MetaAddress(thread)
    [] type = "TELEGRAM" -> TelegramAddress(thread)
    [] type = "EMAIL" -> EmailAddress(thread)
    [] type \in Stubbed -> StubAddress(thread)
=============================================================================
