# TLA+ model of the omnichannel support backend

This directory models the NestJS backend under `src/`: the API process, its
BullMQ workers and the tables they share. It holds TLA+ modules, TLC
configurations and TLAPS proofs. `PROJECT.json` maps every definition to the
lines it was translated from. Paths below are relative to the repository's
root (`src/src/...` in `PROJECT.json` is `src/...` here).

1. [The system](#1-the-system)
2. [Modules](#2-modules)
3. [Runs](#3-runs)
4. [Bounds](#4-bounds)
5. [Fairness](#5-fairness)
6. [Proofs](#6-proofs)
7. [Where the code and its documents disagree](#7-where-the-code-and-its-documents-disagree)
8. [What is not modelled](#8-what-is-not-modelled)
9. [Plan](#9-plan)

## 1. The system

Customers write on Facebook, Instagram, WhatsApp, Telegram, Twitter, LinkedIn or
by e-mail; agents answer from one desk. `docker-compose.yml` starts PostgreSQL,
Redis, the API and one process each for the inbound, outbound, campaign and
analytics workers (`INSTAGRAM_SETUP_GUIDE.md:291` recommends several).

```
 platform --webhook--> WebhooksController --add--> "inbound" --> inbound worker
                                                                     |  rows
                                                                     v
 staff ---------------> TicketsService ------------------------> PostgreSQL
   |                                                              ^     ^
   +-----------------> MessagesService --add--> "outbound" --> outbound worker --> platform
   +-----------------> CampaignsService -add--> "campaigns" -> campaign worker --> platform
   +-----------------> ChannelsService  (configures connectors and platforms)
   +-----------------> AuthService, UsersService (accounts, invites, tokens)
```

The processes share nothing but the database and the queues. Every Prisma call is
its own transaction (the code never uses `$transaction`), no handler takes a
lock, and no job is given `attempts`, so a job that throws is failed for good. Inside one process
everything between two `await`s is atomic. All channels of one type share one
connector object per process, whose `init(config)` replaces the configuration for
everybody.

### Inventory

| component | source | state | operations | what makes it correct |
|---|---|---|---|---|
| inbound pipeline | `api/webhooks`, `workers/inbound.worker.ts` | queue, rows of Customer, Ticket, Message, Notification | `handleWebhook`, `processInboundMessage` (10 calls) | an accepted message is stored, once per delivery, in a ticket somebody can see |
| outbound pipeline | `api/messages`, `workers/outbound.worker.ts` | queue, OUTBOUND rows, what the platform accepted | `createMessage`, `processOutboundMessage` | the row tells the truth about what the customer received (a stub's row excepted); nothing stored is forgotten |
| ticket desk | `api/tickets` | ticket status, assignee | create, update, assign, close | agents touch only their tickets; others' changes survive |
| campaigns | `api/campaigns`, `workers/campaign.worker.ts` | campaign status, recipients, queue | add recipients, start, process a batch | SENT means received (a stub connector's SENT means nothing), COMPLETED means nobody left, nobody is written to without cause, no campaign hangs |
| job queue | Bull in the API, BullMQ in the workers (external) | job states, locks, stalls | add, take, finish, stall | taken as given; the pipelines rest on it |
| accounts | `api/auth`, `api/users`, `common/email` | organisations, users, invites, tokens | signup, login, refresh, accept, invite, deactivate | nobody comes in uninvited, no invite is wasted, an organisation can be entered, the deactivated are shut out |
| channels | `api/channels`, `api/webhooks` | channel rows, connector configurations, webhooks at the platforms | create, set up, delete, test, verify, receive | a reported set-up sticks |
| connectors | `connectors/*.ts` | one configuration per type and process | parse, verify, send | answers go to the thread's customer, from the right account |
| e-mail inbox view | `api/channels/email.service.ts` | none kept; the IMAP server's | page through the inbox | a client that goes through all pages sees what is there |
| analytics | `api/analytics`, `workers/analytics.worker.ts` | one row per organisation and day | count, count, read, upsert | the row is no older than its job |
| customers, macros, notifications, audit, wiring, scripts | several | flags and texts | CRUD | see section 8 |

The behaviours that are hard to test, each at its line, are the `hazards` of
`PROJECT.json`. Most fall into four groups:
several workers between two Prisma calls of one handler; a process that dies
between two writes to two systems; a check that is stale when the write happens;
a connector that another organisation's call has re-configured.

## 2. Modules

| module | models | extends |
|---|---|---|
| `JobQueue` | one job queue as this code relies on it (external) | |
| `Store` | Channel, Customer, Ticket tables with the constraints and cascades of `schema.prisma` | |
| `Inbound` | webhook to stored message | `Store`, an instance of `JobQueue` |
| `Outbound` | agent's reply to the platform | `Store`, an instance of `JobQueue` |
| `Desk` | `TicketsService` | `Store` |
| `Conversation` | the three together on the same tables | `Inbound`, `Desk`, `Outbound` |
| `Campaign` | one campaign | an instance of `JobQueue` |
| `Mailing` | what a campaign promises (abstract), under every fault | |
| `Mailbox` | the inbox view of one e-mail channel: `EmailService`, the IMAP server and its other clients | |
| `Analytics` | `aggregateAnalytics` for one organisation and one day | |
| `Accounts` | `AuthService` and `UsersService` | |
| `Connectors` | pure operators: signatures, threads, addresses per platform | |
| `Channels` | `ChannelsService`, webhook acceptance, replies through shared connectors | `Connectors` |
| `*Proofs` | theorems of the module of that name | that module, `TLAPS` |
| `ConversationProofs` | the theorems of the composition | `Conversation`, `InboundProofs`, `OutboundProofs` |
| `SideBySideProofs` | the theorems of `Mailbox`, of `Analytics`, and of the three instances side by side | `MCSideBySide`, `CampaignProofs` |
| `MC*` | instances for TLC | the module they instantiate |

How state and actions correspond to the code:

* **Handlers.** A handler is a program counter per call to the database, queue or
  platform, in source order (`run[w].pc`, `api[r].pc`, `call[q].pc`, `req[q].pc`),
  with the local variables it uses after the call (`seen`: the ticket status read
  at `inbound.worker.ts:71`). An early return or a throw is an action with the
  negated guard (`Rejected`, `FailJob`, `SetupFails`). `createMessage` can end early in three ways that are
  kept apart: the ticket is gone (`RejectReply`), the database or Redis fails and the agent is told
  (`FailReply`), the process dies (`DieInReply`).
* **Producers of `Inbound`.** `handleWebhook` reads the channel (`HandleWebhook`) and later adds the job
  (`QueueEvent`), so a channel may go in between. `email-test.controller.ts` adds jobs in the same two steps.
* **Threads.** A `Thread` is a pair (channel, externalThreadId); it identifies at
  most one ticket and, as an organisation has one channel per platform, at most
  one customer. Texts are left out.
* **Rows.** Message rows are kept as the job and the delivery that wrote them, so
  "stored twice" can be said. Deleting a channel cascades in the same step.
* **Deliveries.** The a-th delivery of a job is the one after its a-th stall; a worker
  whose lock expired goes on with its delivery, as it does in BullMQ.
* **Platform calls.** A connector turns any exception of its HTTP call into `success: false`, so a message that
  the platform accepted may be reported as a failure. The connectors of WhatsApp, Twitter, LinkedIn and the mock
  are stubs: they report success and call no platform. `Outbound.Send` chooses independently whether the platform
  accepted the message and whether the answer arrived, for the channels in `StubChannel` always success without
  acceptance. `Campaign.SendToNext` does the same by `SendEnds`, for the three states `Connector` can be in:
  "stub", "blank" (a real connector without the `init()` that the campaign worker does not call) and "ready".
* **History variables** (`closedAfter`, `unanswered`, `unrecorded`, `cut`, `shown`, `Campaign.late`, the counters
  `arrived`, `attempts`, `copies`, and the fields `there`, `from`, `touched` and, of `hook` and `pending`, `late`)
  are written but never read by a guard.
* **Rounds** (`Campaign`): a campaign is set going once by each start that added its job and once by
  each job that was given out again; how often anybody may be written to is stated in these terms.
* **Pages** (`Mailbox`): each `fetchEmails` is an IMAP session of its own. `OpenInbox` takes the
  numbering that `FetchPage` cuts its page from: mails are their uids, and the sequence number of a mail is
  the number of uids up to its own that the session sees (`Number`). Between two pages, and between the two calls of one
  page, mail may arrive and be deleted. The walk is that of a client which asks for page 1, 2, ... while
  `hasNext` is true.
* **Counts** (`Analytics`): the two counts are separate queries; `touched` are the tickets that
  changed since the first of them, which travel with the counts into the row.
* **Configurations** (`Channels`) are the organisation they belong to and whether the
  required fields are there. Everything else in them is passed through unread.
* **Webhooks at the platform** (`Channels`). That the platform accepts a webhook, after `verifyWebhook` has
  answered it, and that it puts the webhook into effect are two steps (`SetupHook`, `Commit`); in between the
  webhook is `pending`, and the channel may be deleted, another one created and set up. An answer of success
  comes when the webhook is in effect (`AnswerHook`); the answer may be lost at any time before or after
  (`LoseAnswer`). A webhook entered by hand in the console is accepted and takes effect in the same way.
* **Accounts.** A `Person` is an e-mail address. A link exists for a person once the
  mail with it was sent: `sendInvite` answers after the mail and the listings do not
  return the token. Refresh tokens are kept apart from access tokens because they live longer, not because they
  open less: both are signed with one secret, carry no type, and `JwtStrategy` takes either as bearer token without
  looking at `isActive` (`ShutOut` is about both).
* **JobQueue** is external: one attempt, a lock per active job, a stalled checker that
  requeues at most `maxStalledCount` times. Delay, priority and rate limits only restrict
  orders that the model allows anyway. The API adds its jobs through `@nestjs/bull` queues that are registered without
  connection options (`webhooks.module.ts:11`, `messages.module.ts:14`, `campaigns.module.ts:11`), the workers take them with BullMQ from `REDIS_HOST`. The
  model takes the two ends as one queue, as the code means them to be.
* **`job.queue.add`** (`campaign.worker.ts:106`): a BullMQ job has no public `queue`, so the call most likely always
  throws, and a campaign of more than one batch then ends in a failed job. `Requeue` lets the call succeed as well as
  throw: what holds for the model holds for the code, whichever of the two happens. The completion of larger
  campaigns (`EveryStartCompletes`) excuses the failed job and so says little about them if the call always throws.

Mutants (definitions whose comment begins "Mutant of") are wrong versions of the
definition that follows them. With one of them in place of the original TLC finds the property
violated that `PROJECT.json` names, which shows that the property depends on the code.

## 3. Runs

| run | cfg | instance | what it shows |
|---|---|---|---|
| `inbound_faults` | `MCInboundFaults` | 2 events of one thread, 2 workers, 1 stall, every fault | what "done" guarantees: the message stored, once per delivery, readable; nobody is notified of a message that was not stored |
| `inbound_live` | `MCInboundLive` | 2 threads, 2 workers that crash, 2 stalls | every accepted message is stored by a job that is done, or its job used up its stalls and failed |
| `inbound_scaled` | `MCInboundScaled` | 2 events of a new customer, 2 workers, no fault | **violated**: one of two first messages is lost |
| `outbound` | `MCOutbound` | 1 reply, 2 workers, 1 stall, every fault | sent means received (real connectors), received is on record, error means not received unless an answer was lost or a job repeated, every stored reply settles unless its job was not added because the API died or Redis failed |
| `conversation` | `MCConversation` | one event, reply, desk call and worker of each kind, staff, deletion, a stub's channel | the whole implements `InboundSpec` and `OutboundSpec`; a message whose job is done is not left in a closed ticket, unless it was closed after the status was read |
| `desk_race` | `MCDeskRace` | 2 calls, an admin and an agent | **violated**: an agent's checked update hits a ticket that was reassigned |
| `campaign_faults` | `MCCampaignFaults` | 2 recipients, 2 starts, 2 jobs, 2 workers, a real connector made ready, lost answers, all faults but live lock loss | SENT means received, FAILED has a reason (a refusal, a lost answer, a failed update), COMPLETED is drained, nobody is written to more often than there were rounds, SENDING is never forgotten silently; the whole implements `Mailing` |
| `side_by_side` | `MCSideBySide` | campaign: a stub's channel, 3 recipients in batches of 2, 3 jobs, 2 workers, fairness; mailbox: 4 mails, pages of 1 and 2; statistics: 2 tickets, 2 jobs | a campaign completes unless its channel, its start or a job was lost; deletions alone hide a mail from a client, arrivals alone repeat one; the statistics are off by no more than the tickets touched meanwhile |
| `campaign_no_init` | `MCCampaignNoInit` | the worker as written | **violated**: COMPLETED with nobody reached |
| `accounts` | `MCAccounts` | 2 people, 2 organisations, 2 requests, process and mail failures | members came in properly, invites are neither wasted nor mailed twice, an organisation that nobody can enter has an explanation, the deactivated are shut out once their tokens have expired |
| `channels` | `MCChannels` | 2 organisations, 2 channel ids, Facebook and Telegram, 2 requests, refusals, lost answers, restarts, webhooks that take effect late | a reported set-up sticks; answers go back to where the sender reads, from the channel's account |
| `email_replies` | `MCEmailReplies` | one e-mail channel, 2 people, 2 subjects, one containing an address | **violated**: replies go to the subject |

With two starts, or a job given out again, recipients really are written to twice.
`SendsAreExplained` says how often this may happen (once per round, however
many batches and workers overlap), and `Mailing` has the rounds as a parameter, so both are checked
under all faults of `campaign_faults`.

The three instances of `side_by_side` share no state. `AllNext` lets only one of them leave its
initial state, so that their state counts add up. Fairness is asked of the campaign alone, and takes nothing
from the other two: while one of them moves the campaign is in its initial state, where
no start, worker or lock has a fair step to take.

`CHECK_DEADLOCK FALSE` everywhere: all inputs are bounded (events, replies, starts,
channel ids), so every instance comes to rest when they are used up.

## 4. Bounds

* **Two workers** are enough for every race the handlers have: each reads and later
  writes one thread's rows, so a property is violated by a pair.
* **`MaxStalled`** is 1 in BullMQ unless configured, which gives two deliveries, the least
  that can duplicate something; `inbound_live` takes 2 so that a second crash hits a
  second delivery. `conversation` and the campaign of `side_by_side` take 0: redelivery is the
  business of the other runs. For `NotLeftClosed` that is not: a worker
  that lost its lock writes statuses too. The theorem `NothingLeftClosed` covers any number of them.
* **One or two threads.** Handlers of different threads meet only in the channel
  row and the queue. `inbound_faults` puts both events in one thread (the conflict),
  `inbound_live` in two (no conflict, so loss can only come from crashes).
* **One reply** in `outbound`: replies share only the ticket's status, which
  `OthersWrite` lets the environment overwrite at will.
* **Three recipients, batches of two**: a full batch, a partial one, a requeue. `Job`
  bounds the batches. In `campaign_faults`, with two jobs for two starts, a requeue can find no
  job left; the worker then waits there, which safety properties do not mind.
* **Two organisations** in `accounts`, bounded by `Bound` (in `MCAccounts`): they are founded in one order,
  nobody is invited while both exist, and one person at most is invited. Invitations are thus explored with one organisation
  and racing signups with two; the theorems of `AccountsProofs` have no such bound.
* **Four mails** (`MaxMail`) with pages of one and of two: a full page, a partial one, an empty inbox, and
  room for an arrival and a deletion between any two pages. `Limit` excludes 0: `?limit=0` makes
  `Math.ceil(total / 0)` infinite, so `hasNext` stays true on empty pages for ever.
* **Two tickets, two statistics jobs**: a count is off by a ticket that moved between the queries, and an
  older job overwrites the row of a newer one.
* **Channel ids** are used once; two ids let a channel be deleted and replaced while the set-up
  of the first is under way. Facebook has the two-step set-up and Telegram the immediate one.
  Symmetry permutes organisations, channel ids and requests, which no definition
  distinguishes, and is used with invariants only. `campaign_faults` does the same with
  recipients, jobs and workers.
  `MCBound` (a state constraint) allows one event on file and at most two at a time of calls being served and
  events on file, and of webhooks on their way and events on file; two set-ups whose webhooks take
  effect in either order are within it. The theorems of `ChannelsProofs` have no such bound.
* **Stubs.** `outbound` and `campaign_faults` take real connectors, `conversation` and `side_by_side` stubs,
  `campaign_no_init` a connector without `init`. The theorems hold for every `StubChannel` and `Connector`.
* **Live lock loss** ("expire") is left out of `campaign_faults` for its size; the theorems of `CampaignProofs` include it.

No counter is capped in an action: `inRows`, `arrived`, `mails` and the like are finite because each
delivery or request writes once, which is what the properties say; some mutants carry a cap.

## 5. Fairness

Weak fairness only, of what the processes do by themselves: a worker that can take a
step takes it; the stalled checker returns an abandoned lock; an API call that
passed its first check is carried on, or ends with the process; access
tokens (15 minutes) and refresh tokens (30 days) expire. BullMQ's worker loop and Node's event loop justify these.
`docker-compose.yml` has no restart policy: the liveness results are about a deployment
in which a dead worker is started again, by hand or by a supervisor. Nobody is obliged to send
events, to reply, to start campaigns or to click. Fairness of crashes, of expired locks under
a *living* worker, and of failing calls is never assumed. A worker that keeps crashing uses up
the stalls, after which the job is failed: that is why `EveryMessageStored` ends in one of its two ways without an
assumption that crashes stop.

## 6. Proofs

All are checked with `tlapm`, for every value of the constants that satisfies the
named assumptions (`InboundAssumption` and so on, which TLC evaluates in every run).

| module | theorem | says |
|---|---|---|
| `InboundProofs` | `InboundTypeCorrect`, `InboundInvariant` | type correctness, `InboundInv` |
| | `AtMostOncePerDelivery` | `[]OneRowPerDelivery` |
| | `CompletedJobsAreStored`, `StoredMessagesAreReadable`, `NoticesAreTrue` | `[]DoneMeansStored`, `[]RowsHaveContext`, `[]NoticeHasMessage` |
| | `OnlyStallsLose` | `[]LostOnlyByStalls`, if workers only crash and no two events share a thread (`Apart`) |
| `OutboundProofs` | `OutboundTypeCorrect`, `OutboundInvariant` | type correctness, `OutboundInv` |
| | `SentRepliesReceived`, `RepliesOnRecord`, `SentOncePerDelivery` | `[]SentUnlessStub`, `[]ReceivedIsOnRecord`, `[]OneSendPerDelivery` |
| | `ErrorsAreTrue`, `DoneRepliesMarked`, `StoredRepliesQueued` | `[]ErrorWasNotReceived`, `[]DoneIsMarked`, `[]StoredIsQueued` |
| `ConversationProofs` | `WholeIsInbound`, `WholeIsOutbound` | `ImplementsInbound`, `ImplementsOutbound` |
| | `WholeKeepsPromises` | what is proved of each pipeline alone holds of the whole |
| | `ConversationTypeCorrect`, `NothingLeftClosed` | type correctness, `[]NotLeftClosed` |
| `CampaignProofs` | `CampaignTypeCorrect` | type correctness |
| | `SentMeansReceived`, `FailedHasReason` | `[]SentUnlessStub`, `[]FailureHasReason` |
| | `CompletedMeansDrained`, `NeverForgotten` | `[]CompletedIsDrained`, `[]NotStuck` |
| | `SendsBounded` | `[]SendsAreExplained` |
| | `CampaignIsMailing` | the campaign implements `Mailing`: `ImplementsMailing` |
| `SideBySideProofs` | `SkipsExplained`, `RepeatsExplained` | `[]SkipsAreDeletions`, `[]RepeatsAreArrivals` |
| | `StatsRecent` | `[]StatsAreRecent` |
| | `SideBySideTypeCorrect` | type correctness of `Mailbox` and `Analytics` |
| | `EachAsAlone` | a behaviour of `side_by_side` is one of each instance alone |
| `AccountsProofs` | `AccountsInvariant`, `AccountsTypeCorrect` | `AccountsInv`, type correctness |
| | `MembersCameInCorrectly`, `InvitesBringMembers`, `InvitesMailedOnce` | `[]MembersCameIn`, `[]AcceptedMeansMember`, `[]OneMailPerInvite` |
| | `OrgsCanBeEntered` | `[]OrgCanBeEntered` |
| `ChannelsProofs` | `ChannelsInvariant`, `ChannelsTypeCorrect` | `ChannelsInv`, type correctness |
| | `SetupsStick` | `[]SetupSticks` |
| | `AnswersGoBack` | `[]RepliesGoBack`: from the channel's own account on every platform; to the sender on Facebook, Instagram and Telegram |

**Inbound.** `OneRowPerDelivery` is not inductive: a worker about to insert might do so
for a delivery that has its row already, or for one another worker is on. `DeliveryInv`
adds that locks belong to active jobs (`LocksFit`), that a worker's delivery is the
current one while it holds the lock and an earlier one once the job is queued again
(`RunsFit`), and that therefore no two workers share a delivery (`OneRunPerDelivery`).
`RowsFollowRun` ties the rows of a delivery to its program counter, and `ContextFits` says that the
customer and the linked ticket are there when the message is inserted; a channel's
deletion removes rows and tickets together, which keeps both. It ties the notifications of a delivery to it as well, for `NoticeHasMessage`.
What the proofs need to know of the queue's operations are the lemmas of `JobQueueProofs`.

**Apart.** `OnlyStallsLose` assumes what makes `inbound_scaled` impossible: workers only crash, and no two
events belong to one thread. Without live lock loss every handler holds the lock of its job (`HoldsLocks`),
so a job has one worker; without a second event nobody else inserts what `FindCustomer` and `FindTicket` did not
find, so no insert is rejected (`NotRejected`). What remains of the ways to fail a job is its last stall.

**Outbound.** `SendInv` says of locks and deliveries what `DeliveryInv` says for `Inbound`, and that a
copy was sent by a delivery that was made. `ArrivalsFollowSender` ties the copies of a running
delivery to its program counter: none before the call to the platform, one after a success unless the connector is
a stub, and after a reported failure one only if the answer was lost. `StubsSendNothing` is the other half of
`SentUnlessStub`: no reply of a stub's channel ever reached anybody. `RecordFits` orders the three writes of
`createMessage` and the worker's update: no job without a row (unless the channel took the row away),
an outcome in the row only when there is a job, and one before the handler returns. `ErrorsFit` says that
when the first delivery has recorded a failure, no worker is left that could still send: the worker was
alone on the job, which is not waiting.

**Conversation.** The invariant `Fits` (links belong to tickets, tickets to channels) is all the components need
of each other's tables. Under it, what the desk and the replies write is a ticket written by hand
(`WriteByHand`), which `Inbound` allows as `StaffWrites` and `Outbound` as `OthersWrite`; what the inbound
worker writes (customers, tickets, links) is `OthersWrite` as well, and the common deletion is each
pipeline's own. Hence every step of the whole is a step of either specification or a
stutter (`WholeStep`), and the invariants of each carry over (`WholeKeepsPromises`).
`ConversationAssumption` says that each pipeline allows for the others ("staff", "others").
`NotLeftClosed` needs to know at every program counter of the worker that holds the lock what it read and whether
the ticket was closed since (`ClosingsFit`); workers that lost the lock go on, but can only reopen.

**Campaign.** `SentInv` adds to `SentUnlessStub` that a worker about to record SENT
has a recipient whose message was accepted, if the connector is no stub, and that a stub sends nobody anything. `DrainInv` adds that a worker about to complete
the campaign saw nobody PENDING who was there before the start: PENDING is never entered again.
`FailInv` says that no more copies than attempts exist and that a worker about to record FAILED
has in hand a refusal, an answer that was lost or an update that failed. `StuckInv` says more than `NotStuck`: the job that keeps a SENDING
campaign going is not one whose handler is about to return, because that one has
added another or completed the campaign; with `LockedWhileActive` no late handler can undo a failure.

**Rounds.** `SendsInv` counts rights to send. A waiting job, or a worker in its handler, may still write to a
recipient once if his row is PENDING or he is in the worker's batch and not the one in hand. `StartJob` hands
the right from the job to the worker, `Requeue` back to the next job, `SendToNext` turns it into an attempt,
ends and crashes drop it, and only a start and a redelivery (a new round) create one. A recipient added late
gets all rights that exist, which is why the number of jobs and workers under way is bounded by the rounds as
well, and why `RowsInv` says that nobody without a row was ever written to. The sets of starts, jobs and
workers must be finite (`FiniteAssumption`) for their cardinalities to mean anything.

**Mailing.** The mapping takes `rounds` to `Rounds`, the starts that added their job and the jobs given out
again. Most steps are one step of `Mailing` or a stutter, and `DrainInv` gives `Close` its guard. The hard one is
recording an outcome: `Mailing` lets an outcome be overwritten only in a second round, so it must be shown that a
worker which records one for somebody who has one already lives in a campaign set going at least twice. `HandsInv` says
that a recipient was written to once for his outcome and once more by every worker that has him in hand; with
`SendsAreExplained` two writes need two rounds (`SecondOutcome`). It is kept because a worker takes a recipient in hand in
the step that writes to him and lets go in the step that records the outcome.

**Mailbox.** Neither bound holds from page to page by itself. `Newer(u, mails)` is where a mail stands in the list
(how many mails are newer), `First` and `Past` are where the page begins and ends. `SkipInv` bounds the mails that no
later page will list (`Missed`): those that were not shown and stand before the page to come. An arrival moves every
mail down the list, away from that; a deletion moves each older mail up by one, so that at most one mail crosses the
boundary, the one that stands on it, because no two mails have the same number of newer ones; and a fetched page
shows what it passes, except what was deleted before the FETCH. For repetitions the same argument runs the other way: what has been shown twice, what the page
being fetched shows again (`Again`) and what a later page would show again (`Later`) are together no more than the
arrivals (`RepeatInv`), because an arrival moves at most one mail from a page that was listed into one to come. `MailInv` ties
the uids, the session's view and the number of pages a mail was shown on to each other.

**Analytics.** A count is the size of a set that agrees with the tickets of that status outside the tickets touched
since (`Recent`). A change of a ticket enters every `touched` there is, so it keeps this of counts under way
and of the row alike; whose counts overwrite whose makes no difference. That the sizes of two such sets
differ by at most the tickets touched is a lemma about finite sets.

**Accounts.** `CallsFit` says what each request may rely on although its check is old: an
organisation it founded is its own, an invite it is accepting was mailed and has the
role it copied, an invite it is mailing was not mailed yet, and who deactivates somebody is somebody else. `OneMailer`
follows from the unique key (orgId, email): only the request that inserted the row reaches the mail.
`OrgCanBeEntered` is inductive over it: an active member stays in his organisation (`MembersStay`) until somebody
deactivates him, who then either is an active member of it himself or puts the organisation into `cut`
(`DeactivationNoted`); and an organisation without members has its founder's request under way (`FoundersStay`)
until that creates the account or is cut off.

**Channels.** `RowsFit` (an organisation has one channel of a type, with its own credentials)
makes the channel an app should call unique; `SetupsFit` says that a set-up under way knows its
channel as it is unless the channel is gone; `PendingFits` that a webhook on its way is for a channel that
exists, or late; `HooksReady` that a set-up whose webhook is not on its way any more finds it in effect;
`HooksFit` that an app calls a channel of its own organisation and type or one that is gone. A late webhook is the
only thing that undoes a set-up: it was accepted while its channel existed, so `verifyWebhook` had nothing to
object to, and the code neither takes a webhook back when its channel is deleted nor looks again later.
For the answers, `FiledFits` and `SentFits` tie each answer to an event of its thread, and the lemma
`AnswersReachSender` says, platform by platform, that `sendMessage` takes a thread back to where
`parseIncomingWebhook` found it, or nowhere. It says something for Facebook, Instagram and Telegram; the stubs send
nothing anywhere, and for e-mail it is not true (`email_replies`): a mail's answer goes to whoever's address its subject contains.
The run has one person and two platforms; the theorems have any number and all eight.

**Only model-checked**: the four properties under fairness (`EveryMessageStored`, `EveryReplySettles`,
`EveryStartCompletes`, `ShutOut`), because liveness is beyond the prover. Every other property of a passing run is a theorem.

## 7. Where the code and its documents disagree

1. `inbound_scaled`: with several workers the first two messages of a new customer race on
   the unique keys of Customer and Ticket (`inbound.worker.ts:46`, `:79`); the loser's job is failed and,
   for want of `attempts`, its message never stored. `TELEGRAM_SETUP.md:37-40` says messages are
   stored automatically, `INSTAGRAM_SETUP_GUIDE.md:291` says to scale workers.
2. `desk_race`: `tickets.service.ts:107` lets agents update their own tickets only; the write at
   `:112` is by id alone, after the check.
3. `campaign_no_init`: `campaign.worker.ts:47` never calls `connector.init()`, as
   `outbound.worker.ts:37` does; on the channels that are not stubs
   (Facebook, Instagram, Telegram, e-mail) every recipient fails and the campaign is COMPLETED.
   `README.md:10` promises batch sending with retry.
4. `email_replies`: `email.connector.ts:79` addresses the reply to the external thread id, which is the
   mail's subject (`:56`, `email-test.controller.ts:50`), so it goes to the address the subject contains, if any. `EMAIL_INTEGRATION_GUIDE.md:8` promises replies.

## 8. What is not modelled

* Texts, media, formats, HTTP headers. Only the first entry of a webhook batch is parsed by the
  connectors; an event is one message.
* `updateChannel` writes a name and a flag that nothing reads. The `test*` calls are reduced to
  the `init` they make.
* Customers, notifications, macros, audit: reads, flags and texts, or code nobody
  calls. Configuration, wiring and scripts have no state that changes at run time.
* The analytics worker has a queue to which nothing in the repository adds a job. Its average response time is
  left out: it is computed from one query, so no interleaving matters, but it can be negative (the first
  OUTBOUND message of a ticket may be older than the INBOUND one it is compared with, `analytics.worker.ts:82`).
* `markEmailAsRead` sends a STORE in a session of its own, without selecting a mailbox, and swallows every
  error; nothing depends on the flag. `replyToEmail` is one call to the SMTP server that leaves nothing behind. Mail bodies are
  not parsed.
* What Bull and BullMQ make of each other's jobs, and whether the two ends reach the same Redis (section 2).
* Three hazards are in the steps of `Channels` without a property: a webhook that takes effect after its channel was
  deleted and replaced (`SetupSticks` says that only this undoes a set-up, nothing says that it does not happen), a genuine event refused because the
  shared connector was last configured for somebody else (or, after a restart, for nobody), and
  `testTelegramConnection`, which uses the shared token again after an `await`.

## 9. Plan

Done, in the order of importance: `JobQueue`, `Store`, `Inbound`, `Outbound`, `Desk`, `Conversation`,
`Campaign` with `Mailing`, `Accounts`, `Connectors`, `Channels`, `Mailbox`, `Analytics`, and the theorems above.

Next, on the model: events refused through the shared connector as a run of its own, and the race of
`testTelegramConnection` in `Channels`.

On the proofs, every invariant, action property and refinement that a passing run checks is a theorem; what an
extension of the model adds should be proved with it.
