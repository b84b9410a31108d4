# stroopwafel in TLA+

A verification project for stroopwafel, a self-hosted planner that publishes posts on LinkedIn, Facebook and
Instagram. `PROJECT.json` lists components, runs, mutants, the map from definitions to source lines, findings,
hazards and theorems; this file explains them.

## The system

Two programs share one SQLite database (WAL mode, foreign keys on, no transaction around a handler):

- **server** (`cmd/server`): a UI for people and a JSON API for people (Basic auth) and agents (API keys). Every
  request runs in a goroutine of its own.
- **scheduler** (`cmd/scheduler`): one pass over the posts that are due, then exit. `scripts/container-start.sh` starts
  it again every `SCHEDULER_INTERVAL_SECONDS`, whatever its exit status; `systemd/stroopwafel.timer` does the same.

Nothing else coordinates them: no lock, no claim on a post, no queue. Each statement is atomic, the sequences of
statements in a handler are not, and a publish is a call over the network in the middle of such a sequence.

| Component | State | Operations | Talks to |
|---|---|---|---|
| Publishing service (`internal/scheduler`) | locals only | `RunDue`, `SendNow`, per channel attempt, retry, daily limit, reconcile | tables, publishers, webhook notifier |
| Publishing tables (`internal/db`) | `posts`, `post_channels`, `channels`, `publish_attempts`, `channel_retry_policies` | statements | - |
| Planning handlers (`internal/handlers`) | `Config.AcceptBeforePlanning` | create, edit, reschedule, accept, bulk channels, delete, policy | tables, publishing service (send-now, send-and-delete) |
| Channels (`internal/handlers`, `internal/db`) | `channels`, rules, policies, audit events | create, edit, test, enable, disable, delete, rotate credentials | tables |
| Publishers (`internal/linkedin`, `facebook`, `instagram`) | none | `Publish`, error classes | the networks |
| Idempotency keys | `api_idempotency` | reserve, complete, replay | every mutating API handler |
| Webhooks and replays | `webhook_deliveries`, `webhook_replays` | emit, queue, replay, cancel | publishing service |
| Migrations | `schema_migrations` | `Migrate`, run by both programs at start | tables |
| Media, templates, analytics, audit, rendering | tables of their own | single statements, reports | - |

What is hard here: two processes publishing the same post; a crash, a cancelled request or a failing statement between
a publish and the row that records it; answers that are lost; a batch of rows that is stale when its turn comes;
several channels with one post status; counts checked before and changed after a publish; approvals, edits and
reschedules that read in one statement and write in another.

What makes each component correct:

- *Publishing*: due posts are published, not early and not again; retries end; a post is `sent` only when everything it
  was to reach has been reached; whatever fails, an open channel is not forgotten.
- *Tables*: the attempt log of a post on a channel is append-only, numbered without gaps and closed by its sent row.
- *Planning*: while the policy is on, the scheduler sees a post of an agent only after a person has accepted it, and
  approval is asked for once; a scheduled post has a time and a channel.
- *Idempotency*: a handler runs at most once per key, later requests get the first answer.
- *Channels*: the status the scheduler goes by fits the stored credentials; every change of credentials is on record;
  what planning accepts for a channel can be published there; nothing is left of a deleted channel.
- *Webhooks*: a failed delivery is queued and replayed, or given up after enough attempts; cancelled replays stay
  cancelled.

## Modules

| Module | What it is |
|---|---|
| `RetryPolicy` | retry delays, daily limits, days: pure operators |
| `Store` | the tables, the clock, queries and statements; shared by `Scheduler` and `Planning` |
| `DeliveryLog` | abstract: what the attempt table promises, an append-only list per post and channel |
| `Scheduler` | the publishing service: a scheduler worker and any number of send-now workers |
| `DailyLimit` | `Scheduler` with a history of what went out on which day, for the limit a channel has |
| `Planning` | the planning handlers, with the scheduler seen from outside |
| `Publishing` | composition: the handlers of `Planning` and the workers of `Scheduler` on one `Store` |
| `Publishers` | what a publish or probe makes of a platform's replies: pure operators |
| `Content` | rules, capabilities and media of posts, when planned and when published: pure operators |
| `Channels` | configuring channels, with their audit events |
| `Webhooks` | delivering, queueing and replaying lifecycle events |
| `AtMostOnce` | abstract: what an Idempotency-Key promises its client |
| `Idempotency` | the wrapper around the mutating API handlers and its table |
| `MCScheduler`, `MCDailyLimit`, `MCPlanning`, `MCPublishing`, `MCChannels`, `MCWebhooks`, `MCIdempotency` | values of the constants for TLC |
| `SchedulerProofs`, `DeliveryProofs`, `SoloProofs`, `PlanningProofs`, `PublishingProofs`, `ChannelsProofs`, `WebhooksProofs`, `IdempotencyProofs` | theorems |

`Scheduler` and `Planning` both extend `Store`, which extends `RetryPolicy`; `Publishing` extends `Planning`,
instantiates `Scheduler` on the same tables as `S`, and `Planning` again, on what it sees of them, as `P`. `Scheduler`
instantiates `DeliveryLog`; `DailyLimit` extends `Scheduler` and adds a variable to each of its steps. `Idempotency`
instantiates `AtMostOnce`. `Channels` extends `Content`, which extends `Publishers`. In `Scheduler` a publisher's answer
is one of five, in `Publishers.Outcome` those five are what the results of the real publishers come to. `Webhooks` and
`Idempotency` share no table with the others.

### Scheduler and the code

A worker is one goroutine in `processPost`: its record holds the local variables and `pc`, one step per statement or
call of a publisher.

| Step | Code in `internal/scheduler/service.go` |
|---|---|
| `RunDue`, `NextDuePost` | `RunDue`: `ListDuePosts`, then the loop over the rows it returned |
| `SendNow` | `SendNow`: `GetPost`, refused when sent |
| `LoadChannels` | `processPost`: `ListChannelsForPost`, disabled channels dropped; none left means failed; none assigned means legacy |
| `GetLatest` | the loop of `processChannelTargets`: `GetLatestPublishAttempt`, `shouldAttemptChannel`, `attemptNo` |
| `CheckDailyLimit` | `enforceChannelDailyLimit`: the count; a deferral goes straight to the insert |
| `Publish` | the publisher's answer and the row that will record it |
| `InsertAttempt` | `InsertPublishAttempt`, refused by the foreign keys and by `UNIQUE(post_id, channel_id, attempt_no)`; it reads the row back, so that a row can be stored and an error returned |
| `Reconcile`, `StorePostState` | `reconcilePostStateFromChannels`: the latest attempts, then `SetPostState` |
| `LegacyPublish`, `LegacyMarkSent` | `attemptLegacyPublish`, for posts without channels |
| `DeleteAfterSend` | the second half of the send-and-delete handlers |
| `Crash`, `StatementFails` | the process or request dies at any step; a statement returns an error |

`published` counts what really reached a channel or the fallback. No process can read it: it is what the properties
compare the tables with. A publisher answers `ok`, `lost` (published, but the answer is an error), `transient`,
`rate_limited` or `permanent`; a violated channel rule is `permanent` as well, since both publish nothing and write a
failed row.

Left out: texts, media, error messages, lifecycle events (they are emitted between statements and decide nothing), and
the loading of the retry policy (a constant per channel, `Policy`). Bulk send-now (`BulkSendNowPosts`) and retry of an
attempt (`APIRetryPostAttempt`) are `SendNow` on one post after another: the retry of one attempt tries every open
channel of the post.

### Planning and the code

A handler is one request: its first step parses the input and makes the first read, further steps are its statements.
`Marked` is `maybeMarkForPlanningApproval`. UI handlers (`session`) skip it and leave the flags alone. `WritePost` is
the UPDATE of `Store.UpdatePost`, `ReplacePostChannels` a transaction, `UndoCreate` the compensating delete of a
create. `Abort` is a cancelled request, a failing statement or a crash. `AskToSend` and `ProcessPost` stand for
the publishing service: it rewrites the status of a post it was given, at any later time. `cleared` is the history the
property needs: the posts that were accepted, that somebody had sent, or that somebody scheduled whom the policy does
not hold back. It holds back the API keys of the table `api_keys` (method `api-key`), while it is on. Basic auth and the
session of the UI are people's; the static keys of the configuration (method `api-key-env`, `handlers/helpers.go:121-127`)
are agents' too, but `maybeMarkForPlanningApproval` asks for `api-key` alone (`api.go:693`), and an agent with one
schedules without approval, although `docs/agents-usage.md:19` says "auth is API key". The model does what the code
does, and the properties claim no more.
Refused requests change nothing and have no step; checks against channel rules and capabilities can only refuse.

### Publishing

`Publishing` has no code of its own. `Plan` is a step of a handler, `Work` one of a worker, `Send` the start of a send-now
or a bulk send, which puts the post in `cleared`. `AskToSend` and `ProcessPost`, by which `Planning` saw the
scheduler, are gone, and so are the posts `Scheduler` starts with. What only the composition has: a scheduled post
whose channels are not stored yet, a post edited, rescheduled, deleted or given other channels while a worker holds it,
a channel deleted between a publish and its row.

`ImplementsPlanning` says that the real publishing service is what `AskToSend`, `ProcessPost` and `RemovePost` took it
for. `P` maps each row to `PlanningRow` (when a post is retried and how often it has failed is hidden) and leaves the
clock and the attempts out; a worker's `StorePostState` or `LegacyMarkSent` is then a `ProcessPost`, its
`DeleteAfterSend` a `RemovePost`, a send-now an `AskToSend` and any other step a stutter.

### Channels, Content and Publishers

A row keeps its type, its status and the two credentials its type needs. An edit or rotation (`UpdateChannel`,
`APIUpdateChannel`, `APIRotateChannelCredentials`) is `GetChannel` and then `WriteUpdate`, the transaction of
`Store.UpdateChannel`, which writes the whole row as it was read and edited, with its audit event. A test
(`runChannelTest`) is `GetChannel`, `SetVerdict` (`Store.TestChannel`), `GetChannel` again, `Probe` and
`SetProbeResult`; an enable writes the status and goes on with a test, a bulk enable does so channel by channel. `fresh`,
`disturbed` and `failedProbes` are histories: whether what a request has read is still stored, which channels got their
status from a stale test, and with which credentials a probe has failed. A probe gets any reply of `Publishers`: it fails
with a refusal, but also with a limit (429), an error of the platform or no answer in time, and the code sets the status
`error` for all of them alike.

`Publishers` maps replies (status, kind of error in the body) to results as each package does, with Instagram's
container request before the one that publishes. Base URLs have defaults and are left out. `Content` has both copies of
the rule check (`KeepsRule` of `agent_features.go`, `ViolatesRule` of `service.go`), the capability table, and
what becomes of a media type: `WithType` infers it when a post is planned, `Scanned` loses it when the post is loaded.

### Webhooks and the code

`Emit` and `Deliver` are `Dispatcher.Emit`, one step per URL; `Record` and `Queue` are the loop of
`persistWebhookOutcomes`, which starts when all URLs have been tried. `GetWebhookReplay`, `Redeliver`, `RecordReplay`
and `UpdateReplay` are `replayWebhookByID`, for one row or for those `ReplayFailedWebhooks` listed. `OutcomeFails` and
`ReplayFails` are failing statements (which may have been carried out all the same: they read back what they have
stored), `EmitterStops` and `ReplayerStops` crashes and cancelled requests. `received` is
what arrived at a target, `spoiled` where a fault has struck: no code reads them. A replay is named by its event and
target because an event fails at a target at most once; the delivery a replay makes has an event id of its own in the
code, which nothing relates to the row but the handler's locals. Of `next_attempt_at` only whether it is set is kept:
`ListWebhookReplaysDue`, the one query that compares it, has no caller.

### Idempotency and the code

A call is one HTTP request with a key, between `WithAPIIdempotency` and the handler behind it. `Reserve` is the INSERT
of `ReserveAPIIdempotency`, which the unique index grants to one call; the others go on to `Get` (the SELECT and the
replay or conflict). `Run` starts the handler behind and `Answer` is what it writes through the capturing writer, so
that calls can arrive, fail or be cut off while it works; `Complete` is the UPDATE guarded by `status_code = 0`.
`Disconnect` cancels `r.Context()`: statements then fail, the handler does not stop. `StatementFails` and `Crash` are
faults. `performed` and `given` are histories that no code reads. A method, path and hash of a body are one `Request`, a
status and body one `Answer`; bodies over 512 KiB, which are cut when they are stored, are left out. So are calls
without a key or with GET, which skip the wrapper, and those with a key that is too long, which it refuses.

## Runs

| Run | Asks | Bounds |
|---|---|---|
| `alone` | the scheduler process with crashes and failing statements: are retries due, final and ended, is nothing forgotten, does the daily limit hold of what goes out? | 2 posts, 2 channels keeping 2 and 1 retries, one of which takes 1 post a day, days of 2 ticks, clock to 3, 1 fault |
| `senders` | RunDue against send-now and send-and-delete: does the attempt log keep its promise, is `sent` true, is a delete safe? | 1 post, 2 channels (the second may be disabled), 1 request, lost answers, 1 fault |
| `race` | is a post published once? No | 1 post, 1 channel, no faults |
| `stale` | does RunDue only publish what is due? No | 1 post, 1 channel, no faults |
| `gate` | does the scheduler see nothing that was to be held back? | 1 post, 1 channel, 2 overlapping requests |
| `kept` | does an approval last? No | as `gate`, 3 requests, 2 at a time |
| `publishing` | is nothing published that was to be held back, and nothing twice, while it is edited, and is the service what `Planning` takes it for? | 1 post, 1 channel, 2 requests one after the other, RunDue and 1 send-now alongside |
| `once` | does a key protect against repeats? | 1 key, 2 requests, 2 answers, 3 calls at a time, 4 in all, 2 faults |
| `stuck` | is "already in progress" true of a request that was carried out? No | 1 key, 1 request, 2 calls, no faults |
| `channels` | do statuses fit credentials, does the audit tell, does what is accepted go out? | 2 channels of Instagram (the one type that requires media), 1 token, 1 account, a rule with a limit and a phrase, 2 overlapping requests, single or bulk |
| `webhooks` | is an event lost, do the tables agree, do cancels hold? | 1 event, 2 targets, 2 backoffs, 4 replays and cancels, 2 at a time, 1 fault |
| `payload` | does a target get the payload? No | 1 event, 1 target, 1 replay, no faults |

**Bounds.** `Horizon` stops the clock, `MaxSends`, `MaxRequests`, `MaxReplays` and `MaxCalls` bound the requests,
`MaxFaults` the crashes and failing statements, `EventIds` the events. One post suffices where the code never relates
two posts (everything but the batch order and the daily limit, for which `alone` has two). Two channels show independent
failures and the order of the loop. A clock of 3 ticks with delays of 1 and 2 covers first attempt, retry, last retry
and a change of day. One fault may hit any step of any worker. Two workers are the least that race; three would repeat
the pairs, and the invariants of the log are proved for any number. In `publishing` one handler at a time is enough for
the steps of a handler to fall between those of the workers; handlers overlap with each other in `gate`. Keys never
meet, so one is enough; three overlapping calls are a first one, a repeat and a different request. In `channels` two
requests meet on one channel or pass each other on two; one value per credential suffices because statuses only tell
missing from present, and what a probe failed with from what it did not; the proofs cover every type and any number. In
`webhooks` two targets show that the loops go on after a failure; four requests with two backoffs reach a dead letter, a
replay of it, and a cancel in between.

**Fairness.** `Scheduler.Fairness` has weak fairness of the clock, of `RunDue` (the container restarts the scheduler
for ever) and of the steps of a running worker. Nobody has to send, crash or fail, so a fault that is always possible
need not happen. `SharedSpec` (run `alone`) has it, for `Settles`. The replay queue has no such property: nothing in
the code drains it. `CHECK_DEADLOCK FALSE` in every run: requests are bounded, and a finished world with its clock
at `Horizon` really stops.

**Passing properties.** `PublishedWhenDue`: the scheduler's attempts are first attempts at or after `scheduled_at`, or
follow a retry row at or after its moment. `RepeatsNeedFaults`: with one worker, a target gets a post again only after a
fault. `NothingForgotten`: with one worker, an open channel keeps its post scheduled and waking in time.
`AttemptNumbersGapless`, `SentIsLast` and `ImplementsDeliveryLog`: the log under races and lost answers; the last says
that `Scheduler` implements `DeliveryLog`. `SentPostWasDelivered` and `OnlyDeliveredPostsAreDeleted`: what a status or a
delete claims has happened, on every enabled channel. `DailyLimitRespected`: the posts that went out to a channel in the
attempts of one UTC day, rather than the sent rows the program counts, stay below the limit and one for each fault. A
crash or failing statement between a publish and its row does hide a post from the count; with one worker and no lost
answers nothing else does. `Settles`: a scheduled post does not stay so. `ApprovalGate`: scheduled posts are in
`cleared`. `OnlyClearedIsPublished`: so are published ones, whatever becomes of the post in a worker's hands.
`ChannelGetsPostOnce`: a channel gets a post once plus at most once per racing send, as long as post and channel exist,
whatever is edited and rescheduled. `LogIntact`: the log while posts and channels are deleted under it.
`ImplementsPlanning`: handlers and service together are a behaviour of `Planning`. `ImplementsAtMostOnce`: under a key
one request is carried out, once, and one answer given, however calls overlap and fail; `StoredIsGiven`: a replay says
what the first client was told. `StatusFitsCredentials`: an active channel has the credentials it needs and one in error
lacks some or has ones that a probe has failed with, for whatever reason, except where the code really lets a stale test
or a cut-off enable have the last word (`disturbed`, `Enabling`). `AuditNamesEveryChange`: no change of credentials
without an event that names it, but for an edit of a row that has changed since it was read.
`NothingOutlivesItsChannel`: no rule, policy or event of a deleted channel. `AcceptedGoesOut`: the two copies of the
rules agree, and neither service nor publisher refuses what planning accepts. `NothingLost`: where nothing failed, a
target got something of the event or keeps a replay. `AttemptsAgree`: deliveries recorded are attempts counted.
`DeadLettersWereTried`: the decision to give up is not made too early although it comes from an old count.
`CancelHolds`: only a replay that was in flight writes over a cancel.

**Properties the code breaks.** `SentOnce`, `FallbackOrChannels`, `ApprovalIsKept`, `InProgressIsTrue` and
`PayloadArrives`; "findings" in `PROJECT.json` quotes what the repository says and tells the story of each
counterexample. For each there is a theorem that says when it does hold, and so what it takes to break it.

Every passing property has a mutant: an operator next to the one it mutates, commented `Mutant:`, that a plausible
bug could turn it into, and that TLC refutes under the run's own configuration. `alone` checks the type invariant of
`Scheduler` for `senders` as well.

## Proofs

`SchedulerProofs` proves for any posts, channels, workers, policies, bounds and interleavings, from the named
assumptions of `RetryPolicy`, `Store` and `Scheduler` only:

- `TypeCorrect`: `Spec => []TypeOK`, strengthened by `InHand`: the locals a worker has set at the steps that use them.
- `LogCorrect`: `Spec => []IInv`, and from it `NumbersCorrect` and `SentIsLastCorrect`.

`AttemptNumbersGapless` and `SentIsLast` are not inductive: an insert is only as good as the number the worker read
steps ago, while other workers wrote. `AttemptInHand` supplies what is missing: between reading and writing, a
worker's number is 1 or follows a row that is still in the table, as long as post and channel exist, and was not sent.
Rows never change and disappear only with their post or channel, after which the foreign keys refuse the insert
(`LogInv` keeps that every row has its post, so that a deleted post leaves none behind). The unique constraint does
the rest: whoever comes second finds the number taken, so a second row after a sent one would need the number the sent
row has.

`RacesBoundedCorrect` says how far racing workers get: when no answer is lost (`NothingLost`), a channel gets a post at
most `1 + faults + sends` times, for any number of workers. The invariant (`SharedInv`, `Bound`) is a sum: the publishes
made, plus those the scheduler process may still make before it looks at the log again (`Claim`, 0 to 2), plus the
requests that may still publish (`Requests`), never exceed `1 + faults + sends`. A request comes in with a credit of its
own, the one in `sends`, and keeps it until it has published or stored that it has failed. The claim of the process
grows only when somebody writes a failed row under the number it holds (`Taken`: its own row is going to be refused, and
it will come back): that somebody is a request, which gives up its credit with that row. After a sent row the process
has no claim left, and a fault pays for itself.

`RoomCorrect` (`RoomInv`) is what the check of the daily limit achieves in the table: the sent rows of a day and the
workers past the check (`Racing`) stay below `maxPostsPerDay + Cardinality(Workers)`. It says nothing of posts whose row
was not stored; `SoloDailyLimit` below builds the bound on what goes out upon it.

`DeliveryProofs` builds on it: `SentPostWasDelivered`, `OnlyDeliveredPostsAreDeleted`, `PublishedWhenDue` and that
`Scheduler` implements `DeliveryLog`, in the same generality. What a worker decides on it has read or done steps ago;
`DeliveryInHand` says what of it still holds: its channels are the post's, a forced request without an error has a
sent row for every channel its loop has left behind, and whoever is about to store "sent" or to delete has a delivered
post. `DueInHand` says why the attempt of the scheduler process is due. Both are conditional on the post, which others
may delete at any time (a write then finds no row, an insert is refused), and both last as long as it does because of
`NextGrows`: no step takes a publish, a row or an assignment away from a post that stays. That uses that `Scheduler`
alone changes neither channels nor assignments, which the handlers of `Publishing` do. For the refinement an insert is
an `Append` (`InsertFollowsLog`: the list is complete below the row and not closed), the delete an `Erase`, every
other step a stutter. `FallbackNeedsDeletion` says of any number of workers that a post that is still there has gone
to the fallback or to channels, not to both: `PlaceInv` ties what was published to the assignment, which stays as long
as the post. What `stale` finds, a post deleted in a batch, is therefore the only way among the steps of
`Scheduler`; handlers that change assignments (in `Publishing`) are another.

`SoloProofs` takes the scheduler process as the only worker (`Solo`), as when nobody sends by hand, and proves
`NothingForgotten`, the daily limit (`SoloDailyLimit`), `FallbackOrChannels` and, when no answer is lost
(`NothingLost`), `RepeatsNeedFaults` and from it `SentOnce` as long as nothing fails. They need the assumption: `race`
and `stale` show what a second worker does to the last of them. Without a request nothing is deleted and no insert is
refused, so that what the process has read is true until it writes, whatever fails and wherever it crashes
(`SoloInHand`). The state it stores then covers every open channel (`VerdictCovers`), no attempt in between changes that
because a retry lies in the future (`RetryAfter`, `DayEndAfter`) of a post that was due (`OpenIsCovered`), and a crash
before the write leaves the post due. For repeats, each publish beyond the faults is on its way to a sent row or to the
status (`RepeatsInv`), and a publish finds neither. `SoloDailyLimit` (of `CountedSpec`, when no answer is lost) counts
the same way: the posts that went out on a day are the sent rows of that day, the one in the worker's hands if it has
just published, and at most one for each fault (`OutInv`). The check of the limit has counted the first of these, and
with one worker nobody adds to them between the check and the row.

`PlanningProofs` proves `TypeOK` and `ApprovalGate` of `Planning`. `ApprovalGate` alone is not inductive: a handler that
has read a post writes it later, and an agent may schedule a post whose `planning_approved` is set. `IInv` adds that an
approved post has been cleared (`ApprovedIsCleared`), and that a request about to write a scheduled or approved row was
not held back or concerns a post that was cleared when it was read (`RequestOK`). That survives any overlap with
approvals, deletions and changes of the policy because nothing is ever taken out of `cleared`; it is also why the same
argument fails for `ApprovalIsKept`, whose flag can be taken back. `ApprovalKeptAlone` proves that one for requests that
do not overlap (`OneAtATime`; the scheduler may still do anything in between): no request then holds a denial of a post
that has been approved (`KeptInv`, `MarkedDenies`).

`PublishingProofs` proves for the composition, in the same generality, `PublishingTypeOK`, `OnlyClearedIsPublished`
and `LogIntact`. `PublishingInv` is the invariants of `PlanningProofs` and `SchedulerProofs` side by side; their
lemmas are taken over (those about the scheduler through an instance, whose assumptions `PublishingAssumption`
discharges), and what is new is that each survives the steps of the other. A handler that deletes a post or a channel
erases whole lists of attempts, and everything a worker relies on about them is conditional on post and channel
(`TablesKept`, `LogKept`). What a worker has in its batch or in hand has been cleared (`Planned`) and stays so, also
when the post is gone. That needs `IdsUsed`: ids are handed out in order and never again, so that no new post gets the
id, and the publishes, of one a worker still holds. A worker in turn writes only posts that were cleared, which is
what the gate asks of a scheduled row.

`ChannelOnceCorrect` carries `SharedInv` through the steps of the handlers, for `ChannelGetsPostOnce`, again when no
answer is lost (`SP!NothingLost`; with lost answers each retry may repeat a publish, and the bound is not claimed).
Handlers never take a list of attempts from a post and channel that both stay, and a post they create has not been
published and is in no worker's hands, because its id is new (`PlanShares`). `PublishingImplementsPlanning` proves the
refinement: `HandlerSeen` takes each statement of a handler to the same statement on the hidden rows, `WorkSeen` and
`SendSeen` the steps of the workers to those `Planning` allows from outside, which needs that a worker holds cleared
posts only (`Planned`) and that assignments exist only for posts that exist (`Assigned`).

`IdempotencyProofs` proves `TypeOK`, `StoredIsGiven` and that `Idempotency` implements `AtMostOnce`: each step is a
`Perform`, a `Give` or a stutter. `IInv` says what a call at work may rely on (`CallOK`: its row is its own and without
an answer, and it alone has performed or given anything), that there is one such call per key (`OneWorks`), and what a
row says about its history (`KeyOK`). A crash leaves the row behind, which is why nothing is carried out twice and also
why the key then stays reserved. `InProgressIsTrue` is about keys whose request was carried out; `StuckNeedsFailure`
proves `InProgressIsTrue` for behaviours in which no client goes away and nothing fails (`Smooth`).

`ChannelsProofs` proves every property of `channels`. `StatusFitsCredentials` is not inductive: `SetVerdict` writes a
verdict about the row it has read, `SetProbeResult` one about the credentials the platform was asked about. `IInv`
adds what each request knows (`RequestOK`: what it has read is what is stored as long as it is `fresh`, an edit is about
to write a row, a failed probe has put its credentials into `failedProbes`). `AcceptedGoesOut` follows from the status and
from two lemmas about `Content`: the two copies of the rule agree on every text, and every media that fits a type's
capabilities is taken by its publisher, although its type is lost on the way.

`WebhooksProofs` proves every property of `webhooks`, for any events, URLs, emitters, replayers and backoffs.
`IInv` says what an emitter has still to do for the targets behind its position (`EmitterOK`) and that no other has
its event (`EventsApart`), that nothing is stored for events to come (`FutureUntouched`), what a replayer between
reading and writing knows (`ReplayerOK`: its row exists and its count was not higher then), and how deliveries and
attempts count (`Counting`). The count in the statement of `UpdateWebhookReplayAfterAttempt`, rather than in the program,
is what the proof of `AttemptsAgree` rests on. `PayloadUntilReplay`
says that what `PayloadArrives` misses comes from replays only: no row of a replay is deleted (`NextRowsStay`), and a
target without one has heard from `Emit` alone (`EmitInv`).

Only model-checked: `Settles`, which needs fairness. The properties of the runs that expect a violation are false as they
stand; the theorems above prove them under the named hypotheses.

## Not modelled

Authentication and sessions (but for the method of a request), configuration but for the approval policy and the
fallback publisher, media, templates, analytics, the audit log of requests and rendering: single statements or pure
functions, nothing interleaves. Guardrails are warnings. The texts and media of stored posts are abstracted away, so
that the properties say nothing about which text is published (a post edited while it waits in the batch goes out with
its old text; a reschedule writes the text back it has read). Migrations run at the start of both programs: each is a
transaction, a second process that finds the same one missing may fail and is started again. `ListWebhookReplaysDue` has
no caller.

## Plan

1. Stored texts: a version per post in `Store`, to state which text is published.
2. `DeliveryLog` for the composition: `Publishing` as an implementation of it, with channels that vanish as well as posts.
3. Migrations by two processes, with restarts.
