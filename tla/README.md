# Verification of the campaign backend

The repository is the backend ("Markos") of a B2B outreach product: a NestJS
server over Postgres (TypeORM). Organizations keep prospects and lists, write
email sequences ("campaigns"), and the server sends one email per campaign and
minute through the mailboxes of the organization, follows opens, clicks, replies
and bounces, and respects an exclusion list.

This directory holds TLA+ modules of the parts where things can go wrong in ways
a unit test would hardly reach, TLC configurations that check them on small
instances, and TLAPS proofs of the same properties for all instances.

Paths below are relative to the repository; `email-campaigns/` stands for
`src/email-campaigns/`.

## 1. Inventory

One Node process serves everything. A handler runs undisturbed from one `await`
to the next; between two awaits anything else may run. Beside the HTTP handlers
there are cron jobs: the campaign scheduler (every minute), the reply and the
bounce monitor (every two minutes), the monthly SEO audit. Each has an in-memory
flag against overlapping with itself, and none against anything else.

The rows are shared by everyone, and the code reads an entity, changes it in
memory and calls TypeORM's `save`, mostly without a transaction, a lock or a
version column. That is the main difficulty of the system: **every loaded entity
is a copy that may be stale when it is written back.**

| Component | State | Operations | Interacts with | Hard behaviour | What makes it correct |
|---|---|---|---|---|---|
| Scheduler and send pipeline (`campaign-scheduler.service.ts`, `campaign-send.service.ts`) | `isProcessing`; campaigns, recipients, messages | one tick: expire pauses, load running campaigns, per campaign seed and spread dates, pick a recipient, screen the exclusion list, insert a message, hand it to the provider, record, advance, close, refresh the status | everything below; mail provider | a dozen awaits with rows in hand; restarts; provider answers lost | steps in order; no row claims what was not delivered; every email has a message row; the list is respected; campaigns finish |
| Campaign lifecycle (`email-campaigns.service.ts`, `campaign-action.util.ts`, `email-campaigns.repository.ts`) | `email_campaigns`, steps, senders | create, update, schedule, pause, stop, resume, manual transitions, reset to draft, delete | tick (stale rows), senders, quota | check then save; children replaced under a running tick | a stopped campaign stays stopped; no step twice |
| Recipients (`campaign-progress.service.ts`, `campaign-recipient-action.util.ts`) | `email_campaign_recipients` | PATCH, exclude, include, pause, stop, resume, global exclusion, add | tick, monitors, exclusion list | sequences of actions, stale saves | unsubscribed stays; an added recipient is served |
| Events (`campaign-event.service.ts`, `campaign-tracking.service.ts`) | `email_campaign_messages`, events | sent, failed, open, click, bounce, reply, unsubscribe | tracking links, monitors | whole-row saves of a message | outcomes are not undone |
| Reply and bounce monitors | a cursor per mailbox, `isRunning` | poll, match, apply; repair false bounces | IMAP, events, mailboxes | slow polls with stale mailboxes | see `hazards` in `PROJECT.json` |
| Exclusion list (`email-excluded.*`) | `email_excluded_addresses` | add, exclude from a list, remove | every campaign of the organization | two awaits: list, then recipients | at most one late email |
| Mailbox senders and lock | sender rows, daily counts | add, update, pause, resume, stop | campaigns, mailboxes | counters in stale rows | batch and daily limits; one campaign per mailbox |
| Spacing and schedule arithmetic | none | dates of first and follow-up sends | tick, schedule | off-by-one, timezones | batch per day, increasing slots |
| Delete requests (campaigns, prospects) | request rows | ask, approve, reject, cancel; direct deletion | campaign and prospect deletion, edits | approval against deletion, rejection and a stale edit | an approved request has had its effect |
| Organization quotas (`org-entitlements/`) | platform caps, own limits | edit either, assert a limit | members, campaigns, prospects, websites | check then insert; two columns validated against each other | limits hold up to the overlap |
| Invitations, signup | invitations, sessions, accounts, organizations | invite, revoke, accept; company, code, completion | quota, accounts | stale sessions, no transaction between organization and account | members were invited, founders proved their email |
| Meetings and calendar connections | meetings, connections; the provider's events | schedule, cancel; connect, refresh, disconnect | prospects, provider | two systems without a transaction; refresh against disconnect | a scheduled meeting is on the calendar |
| SEO audits (`on-page-seo/`) | websites, runs, jobs in memory | create, edit, delete a website; audits by hand or monthly | quota, the audited site | a job that outlives its request, rows deleted under it, restarts | a running audit is running |
| Attribute policies (`abac/`) | policies, assignments | create, edit, delete, assign from either side, decide | every guarded request | delete, then insert | a denial holds |
| Website properties and Google accounts (`website/`) | accounts, apps, the link of a website | connect, refresh, link, unlink, delete | websites | count, then delete | a link is not lost |
| Members and roles (`users/`, `rbac/`, `auth-oauth/`) | status and role of a member, permissions of a role | disable, change level or role, create, edit and remove a role, first login through a provider, seed | every guarded request | whole-row saves of a member; delete, then insert; removal under an assignment; restarts | a member may do what was decided |
| Contact lists and manual lists | rows, a stored count | import, add, append, remove | campaigns of the list | the count is saved from a stale list | the count is the number of rows |
| Mailboxes, OAuth | credentials, tokens, daily counters | connect, edit, refresh | scheduler, monitors | a row saved by five parties | daily limits |
| Prospects, companies, templates, attachments, forms, settings, analytics, audit log | rows | CRUD, imports, reads | | little | |

`PROJECT.json` lists all of them with their files and what is modelled of each,
and the hazards with the lines where they bite.

## 2. Modules

Three independent families, and one module they share.

**The pipeline**, what may be sent to whom:

| Module | Content |
|---|---|
| `CampaignLifecycle` | the statuses of a campaign and what pause, stop, resume, launch, reset and a tick do to its row (shared with `MailboxBudget`) |
| `CampaignRows` | the rows of campaigns and recipients, the queries on one row and what each service does to a row it has loaded; pure operators, the guards are the code's checks |
| `CampaignDispatch` | the pipeline: tables, the tick, the handlers in progress, restarts; the properties; the inductive invariant |
| `OutreachPromise` | what the pipeline promises to the people it writes to, without tables or handlers; `CampaignDispatch` implements it |
| `MCCampaignDispatch` | instances for TLC |
| `CampaignDispatchTypes`, `CampaignDispatchOrder`, `CampaignDispatchLedger`, `CampaignDispatchPromise` | the proofs: types and rows in hand, the order of steps, the message table, the exclusion list and the refinement |

**What the pipeline counts and records**, each with the same tick or monitors,
seen from other tables:

| Module | Content |
|---|---|
| `MailboxBudget`, `MCMailboxBudget` | how many emails may go out: counters of mailbox, campaign and sender with their days, everybody who saves one of these rows, the lock of a mailbox |
| `MessageTracking`, `MCMessageTracking` | what becomes of a sent message: opens, clicks, unsubscriptions, replies, bounces, the repair of false bounces; every save in its two queries |
| `MailboxBudgetSafety`, `MessageTrackingSafety` | the proofs |

**The workspace around them**: request handlers that read, check, await and write.

| Module | Content |
|---|---|
| `HandlerSlots` | the calls in progress: begin, go on to the next call, return, be lost in a restart |
| `OrgQuota` | entitlements, the effective limit, `assertWithinLimit` |
| `Memberships` | invitations, signup sessions, accounts, organizations |
| `DeleteRequests` | campaigns and prospects as rows that come and go, and the requests to delete them |
| `SendCalendar` | active weekdays, the day of the n-th recipient, the estimated end: pure operators |
| `CampaignPlans` | the plan of a campaign: schedule, add a recipient, edit; the cascade of a deletion |
| `Meetings` | calendar connections, meetings, the provider's events |
| `SiteAudits` | websites, audit runs, the jobs in memory |
| `AccessPolicies` | policies, assignments, the decision |
| `SiteConnections` | Google accounts, their apps, the link column of a website |
| `AudienceLists` | rows of lists and the stored count |
| `TeamRoles` | members, their status and role, the permissions of roles, the seed at every start |
| `Workspace`, `MCWorkspace` | all of these with one set of handler slots; restarts; instances for TLC |
| `WorkspaceSafety` | proofs: that a handler keeps to the calls of its part; quotas, Google accounts, memberships, deletions, campaign plans; what a handler holds between calls |
| `WorkspacePartsSafety` | proofs: audits, policies, meetings, lists, repeated requests, limits, members and roles; types |

`Workspace` composes what interacts: the quota counts rows of `Memberships`,
`DeleteRequests` and `SiteAudits`; deleting a campaign cascades into its plan,
deleting a prospect into its meetings.

### The pipeline: state

* `campaign`, `recipient`, `messages`, `excluded` are the four tables. A row is a
  record with the columns the code tests; dates are reduced to "is it set"
  (`timed`, `until`, `contacted`, `replied`, `launched`), and whether a date that
  is set has come is a choice of the action that reads it. `gen` names the
  generation of a campaign's child rows, since a save that carries children of an
  older generation is refused.
* `outbox` is what the mail provider accepted; `late` counts, per address, the
  emails accepted since it was excluded; `life` remembers which recipients were
  deleted. No code reads these three.
* `tick` is the scheduler run: `pc` names the await it is about to return from,
  `todo` the campaigns loaded and not yet processed, `copy` the campaign in hand,
  `held` the recipient rows in memory, `who`, `barred`, `mail`, `sent` the local
  variables.
* `task[w]` is the handler in progress in slot `w`: which one, the call it is
  about to make (`stage`), and the rows it will write.

### The pipeline: actions

An action is the code between two awaits that matter. Reads of rows nobody
changes (senders, attachments, settings) are not split off. `processCampaign`,
in the order of its awaits: `ProcessCampaign`, `ReadUnscheduled`,
`SaveUnscheduled` (ensureInitialSendSchedule), `ReadFollowUps`, `SaveFollowUps`
(ensureFollowUpSendSchedules), `PickRecipient` or `PickNobody`
(findReadyToSend), `ReadExclusionList`, then one of `BarRecipient`,
`FinishRecipient`, `NoSender`, `InsertMessage`; `HandoffAccepted`,
`HandoffRefused` or `HandoffAtLimit` (sendCampaignEmail); `RecordSent` or
`RecordSentThrows`; `RecordSendFailed` and `FailRecipient` (the catch block);
`AdvanceRecipient`, `ReadCohort`, `SaveCohort`; `CloseCampaign`,
`CountIncomplete`, `MarkCampaignSent`.

`HandoffAccepted(lost)` covers the answer that never arrives: the provider has
the email and the code runs its catch block. `TickFails` and `HandlerFails` are a
database call that throws at any other place, `Crash` a restart.

A handler is a first action that reads, checks and prepares the row
(`PauseCampaign`, `RecordReply`, ...), and one action per call it then makes
(`SaveCampaign`, `SaveEdit`, `SaveMessage`, `ExcludeAddress`, `StopAll`, ...).
Transactions are one action.

`Save` is TypeORM's `save`: it overwrites the whole row, and inserts it again if
it is gone, unless a foreign or unique key refuses (`Savable`, `CampaignSavable`,
`MessageSavable`), in which case the handler, or this campaign of the tick, ends.

### MailboxBudget

`campaign`, `sender` and `mailbox` are the tables with the columns that decide
about capacity: status, `used`, `day`, quota, limit. `now` counts half days, so
that the midnight of a campaign (`Ahead`) and UTC midnight, to which a mailbox
resets, fall apart. `tick` holds the campaign in hand with its senders as loaded
(`processCampaign`), the mailboxes it loaded, and the pick; `poll[m]` the mailbox
rows a monitor works on (`findAllActive`), which it saves back one by one.
`task[w]` is a handler with the rows it validated and will save.

The tick goes `LoadCampaigns`, `ProcessCampaign` (day reset, `BatchLeft`) or
`SkipCampaign`, `LoadMailboxes` (`HasCapacity`), `ReadMailbox`,
`HandoffAccepted` or `HandoffRefused`, `CountMailbox`, `SaveCampaign`,
`PersistSender`, `RefreshStatus`; `AnswerLost` and `CountFails` are the catch
block. One email per campaign and turn is the code's own `fetchLimit`
(`campaign-send.service.ts:146`). `accepted` and `shaken` are history: emails per
mailbox, campaign, sender and day, and those of them counted while somebody held
a copy of the row.

### MessageTracking

`message`, `recipient` and `excluded` are tables; `recent` and `bouncedBy` stand
for the event log, reduced to the two questions asked of it
(`hasRecentOpenFingerprint`, `wasBounceMatchedByFallback`). `task[p]` is the
handler in process `p`: the list of calls it still has to make, the row in hand,
the row it selected. A save is `Select...` and `Update...`: TypeORM writes the
columns in which the entity differs from the row it has just selected
(`Merged`). Processes are the request workers, the two monitors, and `Boot`, the
repair of false bounces that starts with the program.

Simplified: messages are already sent; the instance has one per recipient; the
upsert of an exclusion is one step; event inserts nobody asks about are left out;
"imap_token" stands for every certain match; each reply, and the backfill, is a
call of the reply monitor of its own, since a synchronisation that finds neither
leaves no trace.

### The workspace

A call in progress is `call[w]`: an operation, named for the database or provider
call it is about to make, and what the handler holds. `Begin` is a request,
`GoOn` the next await, `Return` the answer or a refusal. `CallFails` is a call that
fails without an effect, at any await of any handler; none of them catches it, so
that what was written stays and the rest does not happen. A
database transaction is one step (appending to a list is two: the transaction
reads its list, and commits). `Restart` forgets the calls and the jobs in memory.
The scheduler, seen from here, is a call like the others: `TickCampaign` loads a
campaign with all its columns, `SaveTicked` writes them back, as `processCampaign`
and `refreshCampaignStatus` do (`campaign-send.service.ts:106`, `:138`, `:154`,
`:364`, `:685`).

* `OrgQuota`, `Memberships`, `DeleteRequests`, `SiteAudits`: the check of a limit
  and the insertion are two steps; `ceiling` is history, the highest limit that
  was in force. `imported` names prospects that came without a check. Members are
  counted in two queries that are awaited together (`countMembers`): either may be
  answered first (`CountUsersFirst`, `CountPendingFirst`), and who accepts between
  them may be in neither. `missed` is history, the most members that a count
  which let an invitation pass had overlooked in this way. The other limits count
  one table, in the step that reads the limit.
* `Memberships.abandoned` is history: organizations that `complete` or
  `completeOAuth` had created when the insert of the account failed or the process
  stopped. A taken email (`CreateAccount`) is not among these.
* TypeORM's `save` of a row that is gone inserts it again: `Restored`
  (`DeleteRequests`), `InsertConnection` (`Meetings`), `SaveSession`
  (`Memberships`), `SaveJob` and `SaveSite` (`SiteAudits`).
* `SiteAudits.job[r]` is `executeRun` between two awaits: `at` names the await,
  `row` the entity it holds, `left` the pages to go.
* `AccessPolicies.assigned` is the join table, replaced by delete and insert;
  `wanted` what an administrator asked for and nobody took back; `lost` the pairs
  whose insertion never happened, because it failed or the process stopped.
* `TeamRoles.rolesOf` and `grants` are join tables, replaced by delete and insert;
  `standing` is the status in a member's row, which every save of the row carries.
  `decided` is what the last handler set out to write, `contested` the members and
  roles whose handlers overlapped, were stopped, or failed between the two
  statements. `TeamRestarted` includes
  `onModuleInit` of the seed: it ends before the first request is served.
* `SiteConnections` has only the link column of a website, `SiteAudits` the rest.
* `CampaignPlans.plan` is the sequence of days its recipients are planned for,
  the stored count and the estimated end.
* `Meetings.interrupted` is history: meetings whose event was deleted, or about to
  be, when their cancellation failed or the process stopped.

### Abstractions to know about

* TypeORM's `save` reads the row and updates the columns that differ from what
  it has just read. Two saves of one row whose read and write halves interleave
  can mix columns; `MessageTracking` and the updates of `Meetings` and
  `DeleteRequests` have both halves, elsewhere a save is one step that overwrites
  the row.
* Keys and cascades are those the entities declare, from which TypeORM builds the
  schema unless `NODE_ENV` is "production" (`database.module.ts:127`). Three files of
  `scripts/migrations` add a unique index that the entities do not have: one pending
  request per prospect (`010`) and per campaign (`034`), one website per domain
  (`017`). With it the second insert throws, which is `CallFails`: what is proved
  holds of either schema, and `FewRequestsPend` and `DomainsNeedOverlap` are the
  bounds of the one without.
* In `CampaignDispatch`, that a batch, a quota or a daily limit is used up is a
  choice (`ExhaustedCampaign`, `NoSender`, `HandoffAtLimit`), made at any time;
  the counters are in `MailboxBudget`.
* The loop of `processCampaign` sends at most one email per campaign and tick
  (`fetchLimit` is at most 1, `campaign-send.service.ts:146`); the model relies on it.
* `CampaignDispatch` leaves out open and click counters, and accepts a bounce for
  any message recorded as sent, although the code refuses it for an opened one;
  `MessageTracking` has them. There every hit has a fingerprint; the code takes a
  hit with neither IP address nor user agent for unique, always.
* Which email a reply or bounce belongs to is an input: any message recorded as
  sent.

## 3. Runs

Operations of `MCCampaignDispatch` and `MCMailboxBudget` are enabled by the
constant `Operations`; `MaxRequests`, `MaxCrashes`, `MaxFaults`, `MaxRevisions` and the set
`MessageIds` bound what would otherwise be unbounded. A tick that has no message
id left does not process a campaign, which only cuts behaviours short.

| Run | Instance | Shows |
|---|---|---|
| `RecipientEdits` | 1 campaign, 1 recipient, 2 steps, 3 messages, 2 requests out of nine recipient and message operations, 1 fault | rows never claim more than was delivered; a message is only ever "sent" or "bounced" if the provider took it; one with an outcome is never pending again. Two requests and the tick are three actors on one row; a step may be sent, rolled back and sent again within 3 messages |
| `Restarts` | 1 campaign, 2 recipients, 2 steps, 3 messages, 1 reply, 1 restart, 1 fault | the inductive invariant, steps in order and the refinement across a restart and a failed call at every await. Two recipients are needed for a tick that holds several rows (a cohort). Three messages are a step, its repetition and the next |
| `Exclusion` | 2 campaigns that mail one address, 2 recipients, 1 step, 3 messages, 2 handlers at a time, 3 requests | at most one late email. A third message and a second campaign are what a violation would need |
| `CampaignControl` | 1 campaign, 2 recipients, 2 steps, 1 replacement of the steps, 3 messages, 3 requests out of ten campaign operations | no email without its message row, no step twice, whatever operators do to the campaign. Three requests reach stop-reset-schedule beside a tick of the former life; the second recipient is the one a new launch or an addition creates |
| `Completion` | 1 campaign, 1 recipient, 2 steps, 5 messages, a pause or a reply, 1 restart, 1 fault, `FairSpec` | a launched campaign ends as "sent" with nobody left over. Five messages are enough for two steps, each repeated, and one more, so that the bound is never what stops the campaign |
| `AddedRecipient`, `StoppedCampaign`, `UnsubscribedRecipient` | the smallest instance of one or two operations | the findings of section 6 |
| `MailboxBudget` | 2 campaigns (one running, one draft) and 3 senders on 1 mailbox, batch, limit and quota 1, 2 half days with the campaign's midnight half a day ahead, 2 emails, 1 handler, 1 monitor, 2 events | each limit is exceeded only by what a stale copy or a failed call gave back. Limits of one make the second email of a day the one too many; one email more would only repeat it |
| `MailboxLock` | the same, a pause and a schedule | finding of section 6 |
| `MessageTracking` | 1 message, 1 reader, 2 requests at a time, both monitors and the repair at boot, 3 events, five minutes pass once, `FairSpec` | what counters may say, that an unsubscription holds, that a false bounce is repaired. Three events are an open, the bounce that overlaps it, and a failure or a second reader |
| `Workspace` | 2 requests at a time, 3 in all, 1 restart; see `Topics` | the seventeen properties of section 4. Two overlapping requests are what every race here needs; the third is the one that sees the result |

`Topics` says which parts' requests meet in one behaviour of `Workspace`: parts
that share rows or limits do (limits with people, limits with rows and imports,
rows with requests, plans or meetings), parts that share nothing (sites, policies,
Google accounts, lists, the team) are explored one at a time, since their steps commute.
Further bounds of this run: ids of each table, `MaxTries` 1 (the code has 5: the
first wrong code is then the last), one page per audit (the second repeats the
first), at most two runs (`RunsLeft`), one user with two policies (each decision
is about one user), two members and four roles of two permissions (system roles
for super admins and admins, one of the organization and one to be created), two launches (a Friday, and a Sunday that is not active) with
audiences of 1 and 4, which fill several days. `MailboxBudget` has 1.65 million
distinct states, `Workspace` 864,332; each takes one to two minutes.

The bound on members has an exception that three requests cannot reach: it takes
two invitations that are accepted while a third is being counted. Checked by hand
with three members at most, five addresses and `MaxCalls` 5 on the topic "people":
`QuotaOverrunBounded` without `Overlooked` is violated, and as stated it holds in
all 1,139,872 states. The theorem covers every instance.

Deadlock is checked in every run.

`PromiseKept` is checked as a refinement: `delivered` is `outbox` without message
ids and `straggled` the addresses with a late email.

### Fairness

`FairSpec` assumes that

* the scheduler goes on (`WF` of `SchedulerStep`): cron fires every minute, and
  its calls return or throw;
* a handler in progress makes its remaining calls (`WF` of `HandlerReturns`);
* what time brings comes around (`SF`): a campaign is not outside its window or
  out of batch at every tick (`ProcessCampaign`), an expired pause is seen
  (`ReadPausedCampaigns`, `StartTick`), a due recipient is picked
  (`PickRecipient`: findReadyToSend orders by date, so a recipient is not
  overtaken for ever), a sender has capacity at some tick (`InsertMessage`), and
  not every attempt meets the daily limit (`HandoffRefused` or
  `HandoffAccepted`: counters reset at midnight).

`MessageTracking`'s `FairSpec` assumes weak fairness of the bounce monitor's own
calls: its synchronisation is started by a timer every two minutes, goes through
its calls and ends. Nothing else is assumed there, and `FalseBouncesHeal` needs
nothing else.

Requests, restarts and failures are never assumed to happen.

`Completion` leaves out operations after which a campaign rightly does not end:
a stop, a pause without a date (`stopSender`), and a recipient whose reply was
categorised while eligible, which `countIncomplete` counts and `findReadyToSend`
never returns.

## 4. Properties

* `StepsInOrder`: nobody gets a step before all the earlier ones.
* `RowsClaimOnlyDelivered`: `currentStepOrder` and the disposition `done` claim
  only steps the provider accepted.
* `SentWasAccepted`, `LedgerCoversEmails`: the message table says "sent" only of
  emails that went out, and has a row for each email of a recipient not deleted.
* `OutcomesStay`: a message that has an outcome is never pending again. The code
  does not guarantee more: an open saved late turns a bounced message into sent.
* `OneEmailPerStep`: without restarts, faults and recipient edits, no step is
  sent twice. With them it may be; the pipeline promises "at least once".
* `ExclusionTakesHold`: at most one email after an exclusion, over all campaigns.
* `PromiseKept`: `CampaignDispatch` implements `OutreachPromise`.
* `CampaignsFinish`: liveness, above.

`MailboxBudget`:

* `MailboxLimitKept`, `BatchKept`: the daily limit of a mailbox and the batch of a
  campaign are exceeded by no more than the emails counted while a copy of the row
  was in use, and the failed calls. They are exceeded: a poll of two minutes that
  saves its mailbox gives back what was sent meanwhile.
* `NeverOvercharged`: stale copies never take capacity away, across both midnights.
* `OneCampaignPerMailbox`: what the lock says; refuted.

`MessageTracking`:

* `RepeatsCountOnce`: an open count exceeds the number of readers only by the hits
  that overlapped, one inferred open, and lost events.
* `UnsubscribeTakesHold`: who was told that he is unsubscribed is on the exclusion
  list, also after a request that failed half-way and was repeated.
* `FalseBouncesHeal`: a bounce matched by address and subject does not stand
  against an open; liveness, above.

`Workspace`:

* `QuotaOverrunBounded`: at most one row too many per other handler past its check;
  of members, also those that a count overlooked between its two queries.
* `CapsBrokenOnlyByOverlap`: own limits exceed the caps only by a stale validation.
* `RepeatsNeedOverlap`, `DomainsNeedOverlap`: pending invitations, organizations of
  one founder and websites of one domain repeat only as often as requests overlap
  (apart from organizations whose completion was cut in two, of which each failed
  attempt leaves one more).
* `AcceptedAreMembers`, `FoundersAreProved`: whatever revocations, expiries and
  stale sessions do.
* `ApprovedMeansDeleted`, `FewRequestsPend`: approved is deleted, unless a stale
  edit brought the row back; requests left over need an overlap.
* `PlanKept`: counts, batches, weekdays and the estimated end of a plan, unless a
  stale copy of the campaign, of a request or of the scheduler, was saved over it.
* `ScheduledIsOnCalendar`, `KeptAsChosen`: a meeting and its event, unless its
  cancellation was cut short; a connection and the account that was chosen.
* `RunningMeansRunning`, `PagesAddUp`: an audit that says running is; pages add up.
* `DenialsHold`: a policy that denies denies, but for the gap in a replacement.
* `LinksKept`: a website loses its account only by intent or by overlap.
* `CountsAddUp`: the number of a list is the number of its rows, unless two
  handlers changed it at once.
* `AccessAsDecided`: what a member may do is what was last decided about status,
  role and the role's permissions, unless handlers overlapped or a replacement
  failed half-way; a restart in the middle of an edit of a system role is repaired
  by the start that follows.

Properties that name an exception (an overlap, a restart, a failure) are as strong
as the code is: without the exception TLC refutes them. History variables
(`shaken`, `overlaps`, `crossed`, `mixed`, `stranded`, `lost`, `interrupted`,
`revived`, `contested`, `abandoned`, `missed`) record just that exception.

## 5. Proofs

A theorem holds for every value of the constants that satisfies the assumptions of
the module it is about: any number of campaigns, recipients, handlers, requests,
restarts and failures, and every subset of the operations. The assumptions say only

* that ids of different tables, and the values that stand for "no row", differ from
  each other and from rows (`RowsAssumption`, `NoRowAssumption`,
  `MessageAssumption`, `RowAssumption`, `IdAssumption`, and one in each part of the
  workspace);
* the types of the remaining constants (`DispatchAssumption`, `BudgetAssumption`,
  `TrackingAssumption`, `SlotsAssumption`, `WorkspaceAssumption`);
* that what is counted is finite: the request workers of `MessageTracking`, the
  `Limits` of `MailboxBudget` (so that a highest one exists), handler slots,
  websites, audits, campaigns, prospects and contacts of the workspace;
* that the registry's caps, 50 and more in `org-entitlements.registry.ts`, have room
  for what `Init` starts with, two people, a website and a row of each kind.

| Theorem | States `Spec => []` of |
|---|---|
| **`CampaignDispatch`** | |
| `TypeCorrect` | `TypeOK` |
| `StepsStayInOrder`, `RowsAreHonest` | `StepsInOrder`, `RowsClaimOnlyDelivered` |
| `EveryEmailIsTraceable`, `SentIsTrue`, `OutcomesAreFinal` | `LedgerCoversEmails`, `SentWasAccepted`, and the action property `OutcomesStay` |
| `OnceWhileCalm`, `OnceWhenSteady` | `OneEmailPerStep`, under the conditions below |
| `AtMostOneLateEmail` | `ExclusionTakesHold` |
| `PipelineIsSound`, `Refinement` | `PipelineInv`; `Spec => PromiseKept` |
| **`MailboxBudget`** | |
| `BudgetTyped` | `TypeOK` |
| `MailboxLimitHolds`, `BatchHolds`, `CountersNeverOvercharge` | `MailboxLimitKept`, `BatchKept`, `NeverOvercharged` |
| **`MessageTracking`** | |
| `TablesTyped` | `TypeOK` |
| `UnsubscribeIsKept`, `OpensCountOnce` | `UnsubscribeTakesHold`, `RepeatsCountOnce` |
| **`Workspace`** | |
| `WorkspaceTyped` | `TypeOK` |
| `CapsNeedOverlap`, `LinksAreKept` | the action properties `CapsBrokenOnlyByOverlap`, `LinksKept` |
| `AcceptedHaveAccounts`, `FoundersProveTheirEmail`, `RepeatsBoundedByOverlap` | `AcceptedAreMembers`, `FoundersAreProved`, `RepeatsNeedOverlap` |
| `ApprovalsDelete`, `PendingRequestsBounded` | `ApprovedMeansDeleted`, `FewRequestsPend` |
| `AuditsAreWorkedOn`, `AuditsAccountForPages`, `DomainsBoundedByOverlap` | `RunningMeansRunning`, `PagesAddUp`, `DomainsNeedOverlap` |
| `DeniedStayOut` | `DenialsHold` |
| `MeetingsAreOnCalendars`, `ChoiceIsKept` | `ScheduledIsOnCalendar`, `KeptAsChosen` |
| `ListsCountTheirRows` | `CountsAddUp` |
| `AccessFollowsDecisions` | `AccessAsDecided` |
| `OverrunNeedsOverlap` | `QuotaOverrunBounded` |
| `PlansFollowCalendars` | `PlanKept` |
| `AddsActiveDays` | (what `addActiveDays` returns, for every day, number and calendar) |

Hardly one of these properties is inductive: a step that saves a stale row is harmless
only because of what the row in memory may claim. Each has an inductive invariant
that says so, checked by TLC on an instance before it was proved, and each proof
takes the same course: one lemma per action, or per group of actions that the same
argument covers, `Init` and `Next` lemmas, and a temporal last step.

### The pipeline

`PipelineInv` (checked by the run `Restarts`), in named parts:

* `TypeOK`, `InHandInv`, `TaskInv`: types, and that at each control location the
  rows the next call needs are there (`CampaignDispatchTypes`);
* `ClaimsOfRows`, `ClaimsOfTick`, `ClaimsOfTasks`: every recipient row, in the
  table, in the tick or in a handler, claims only delivered steps. Deliveries are
  never taken back, so a copy that was honest once stays honest however stale it
  becomes, and writing it back is always allowed. With the fact that the tick
  sends the step its own copy names, whose predecessors that copy claims,
  `StepsInOrder` follows (`CampaignDispatchOrder`);
* `LedgerInv`: a message id belongs to one email, also after its row is gone; the
  message in hand is the one of the email in flight; a message a handler will save
  says "sent" only of an accepted email. The monitors save whole rows, so this is
  needed of their copies and not only of the table (`CampaignDispatchLedger`);
* `LateInv`: an address that passed the screen has no late email yet, since only
  the one tick sends and it screens before each email (`CampaignDispatchPromise`).

Then the refinement: a step that changes neither outbox nor list stutters,
`HandoffAccepted` is `Deliver` (its guards are `StepsInOrder`'s argument and
`LateInv`), the list changes map to `Exclude` and `Readmit`.

That no step is sent twice cannot hold of `Spec`: the code sends again after a
failure between the provider's answer and the save of the recipient, and after a
handler saves back a recipient it had read before the step. `Calm` excludes exactly
these two kinds of step, and `OnceWhileCalm` proves `OneEmailPerStep` of every
behaviour without them; TLC refutes it when either half of `Calm` is dropped. Restarts,
failing calls and edits at any other moment are allowed. The invariant (`OnceInv`) is
that every row, in the table or in the tick, is past each email of its recipient,
or that email is in flight. `OnceWhenSteady` derives the condition of the run
`CampaignControl` (no restarts, no faults, no operation on single recipients).

### Counters and events

* `MailboxBudget`. Every copy of a counter, wherever it is held, is at most what was
  sent on its day (`CountersNeverOvercharge`), and short of it by at most `shaken`, the
  failed calls and the email in flight (`MailboxLimitHolds`, `BatchHolds`). The
  second needs what the tick knows of its pick: that it found capacity in the copy
  it will save. Days only grow, and a copy with an older day is reset before it counts.
  TLC checked `BudgetInv` in all 1,650,643 states of the run. A sender that is saved
  stays in the handler's campaign as it was saved (`Written`), so that the save of
  the campaign that follows in `resumeCampaign` writes it again.
* `MessageTracking`. `TrackingInv` says in which order a handler makes its calls, what
  the next one needs, and that an address is on the list before the answer is
  given, unless somebody took it off. `CountInv` bounds the open count of every row
  and of every copy by the readings that still stand (`Slack`): those in the log,
  or of a handler about to log. The proof showed that a restart in the model did not
  count the handlers it stopped before they logged their reading; it now does
  (`failures`).

### The workspace

The first lemmas (`WorkspaceSafety`) are a frame: a handler makes only calls of its
own part (`Shape`, `Moves`, `StepOf`), and a step of one part leaves the rows of the
others alone, but for the cascades of a deletion and a restart. So each part has an
inductive invariant of its own, about its rows and its calls:

| Invariant | Says |
|---|---|
| `QuotaInv`, `GoogleInv`, `MembershipInv`, `RemovalInv` | the limits a handler will save were validated against those it read; an account is deleted only by a handler that found no link; what was proved, accepted or asked for stays so, and a handler's stale copy claims no more |
| `SiteInv` | the pages a job has counted and has left are those of its audit; enough run ids are left for the audits promised; websites with a domain, jobs of saving it and handlers about to insert it are together at most the handlers |
| `PolicyInv` | a wanted pair is assigned, about to be inserted, or recorded as lost |
| `PlanInv` | recipients are planned one after the other, each on the day of its index, unless a stale copy was saved; the estimated end is that of the audience list |
| `MeetingInv` | what a handler knows of its meeting, the event and the connection; a changed `revision` tells that the latter is stale |
| `ListInv` | the number a handler read is the number of rows as long as they did not change; requests bring different rows |
| `RepeatsInv` | pending invitations of an address and handlers about to insert one are together at most the handlers; so are the organizations of a founder that were not abandoned and those about to found or join |
| `RequestsInv` | pending requests about a row, and handlers about to ask for or to perform its removal, are together at most the handlers, and fewer without the one that is being approved |
| `TeamInv` | an overlap is on record when the later handler begins, so what an uncontested handler holds is still in the tables; a half-replaced set of permissions grants no more than was decided |
| `OverrunInv` | of each kind, what is there or may come back by a handler that has it in hand, and the handlers past the check for one more, are together fewer than limit and handlers; of members, fewer than that and the overlooked ones (`CountsFit`: what a handler between the two queries has counted) |

TLC checked all of these in the 864,332 states of `Workspace`.

Calendars. `PlanInv` says of each recipient only that its day is `PlannedDay` of its
index, which every step keeps for a trivial reason. That such days fill a calendar
as `PlanKept` says is a fact about `addActiveDays`, a loop in the code and a
recursive function in `SendCalendar`. The library's induction theorems take an
operator, which the provers cannot instantiate. That a set of numbers has a least
one follows from its theorems on finite sets (`LeastNumber`), and does instead of
induction over numbers:

* `WalkExists`: a function satisfies the equation of the loop, for every calendar
  with an active weekday, since one of any seven days in a row is active;
* `AddsActiveDays`: what it returns for n is the day such that n active days lie
  between the first and it (`Numbered`); there is just one such day, and a later
  number means a later day;
* `Quotient`: the index of a recipient is divided into full batches and a rest, so
  the recipients of one day are an interval of indices (`OnNumberedDay`). Its size is
  the batch on all days but the last, and two batches on an active launch day.

The attempt to prove this showed that `Overwritten`, what a save of a stale campaign
leaves, was a CASE with two guards that hold at once, of which TLC took the first.
It is an IF now.

Types. `WorkspaceTyped` comes last, since a call is well typed only because of
what its handler knows: that a policy or a role to be inserted still has an id, that
an event is deleted only by a cancellation, that the number of a list is one. Each
part has a lemma (`QuotaActs` to `TeamActs`) that its handlers go on only with calls
of that part, made of what they hold and of the rows. Two parts of `TypeOK` relate
rows to rows, and have arguments of their own: a property's Google account and a
member's role are there, since the step that removes one takes it from all. That no
list changes more often than requests were made needs a count (`ChangesCounted`):
changes of a list and handlers in progress are together at most the requests. The
proof needed two things said of the first state that `Init` had left open: the roles
that members have are there, and a Google account and a property exist.

The counting invariants (`SiteInv`, `RepeatsInv`, `RequestsInv`)
are the same argument: a check that is followed by an insert admits a second one
only to a handler that was past its check, so rows plus handlers past the check never
exceed the handlers. `OverrunInv` is this argument for a limit that changes. The
check counts rows that are there, so what it does not count must be in hand: a row
that was deleted under a handler with a copy of it to save, an invitation that was
revoked while it is being accepted. Each such handler is one that is not past the
check, hence together they are at most the handlers. An invitation that is accepted
turns into a member, one for one, which is why the sets, and not their sizes, are
what the invariant relates. Members are counted twice, and a handler that holds the
first count compares it with a table that has changed. If invitations were counted
first, nobody who accepts is lost: they are counted once or twice. If accounts were
first, those who became members since are in neither count, and `missed` grows by
as many at the moment the handler passes. So the invariant bounds members and
invitations by the limit, the handlers and `missed` (`PeopleLimit`), which can only
grow.

### Only model-checked

* `CampaignsFinish` and `FalseBouncesHeal`: liveness under fairness is out of
  the prover's reach.
* The properties of the four runs that end in a violation: each is false of `Spec`.

No module uses a RECURSIVE operator.

## 6. Findings

* `AddedRecipient`: `refreshCampaignStatus` (`campaign-send.service.ts:677-687`)
  counts, awaits, and saves "sent". A recipient added in between stays pending in
  a campaign that no tick loads again, while the plan of the feature says the
  pipeline picks new recipients up.
* `StoppedCampaign`: the closing save of a tick (`campaign-send.service.ts:364`)
  writes the row it loaded, and undoes a stop that was saved meanwhile.
* `UnsubscribedRecipient`: PATCH of a recipient (`campaign-progress.service.ts:380`)
  accepts any disposition but two for an unsubscribed recipient, which the
  other handlers refuse to modify.
* `MailboxLock`: the lock asks for running campaigns with the mailbox when a
  campaign is scheduled or a sender added. A paused campaign does not count, and
  nobody asks again when it goes on, by itself
  (`email-campaigns.repository.ts:282`) or by hand
  (`email-campaigns.service.ts:449`): two campaigns then run on one mailbox.

Seen on the way, and stated as the exception of a property rather than as a run:

* The launch day gets up to two batches of the plan, or one although it is not an
  active weekday: `computeInitialNextSendAt` hands a zero-based index to
  `addActiveDays`, which counts an active launch day as day 1 (`PlanKept`). The
  daily batch still limits what is sent.
* Prospects from an import (`prospects-import.service.ts:150`) or a list are
  inserted without asking the quota (`QuotaOverrunBounded`).
* A poll of a mailbox gives back the sends counted meanwhile (`MailboxLimitKept`).
* Organizations without a member remain when two completions of a signup overlap,
  or when a failure or a restart comes between the two inserts, once per attempt
  (`RepeatsNeedOverlap`).
* An invitation above the limit passes when others are accepted between the two
  queries of `countMembers` (`QuotaOverrunBounded`).
* The scheduler writes back the `audienceCount` it loaded; a recipient added during
  a tick is not counted, and the next one gets the same index (`PlanKept`).
* A save that fails after its counterpart has happened leaves a meeting scheduled
  without an event (`ScheduledIsOnCalendar`), a member without a role or a role
  without permissions (`AccessAsDecided`).
* A request may be rejected after its approval has deleted the campaign
  (`email-campaign-delete-requests.service.ts:168`). The model has the interleaving;
  no property speaks of it, since the last writer decides and nothing in the code
  says which answer should win.
* Between deletion and insertion of its assignments, or after a failure there, a
  policy denies nobody (`DenialsHold`).
* A restart leaves audits pending or running for ever (`RunningMeansRunning`); a
  page whose result cannot be stored is counted twice (`PagesAddUp`).
* A refresh that overlaps with a disconnection brings the calendar connection back
  (`KeptAsChosen`).
* A member who is disabled while a handler holds their row (a new level, a first
  login through a provider) is active again. What an administrator changes in a
  system role lasts until the next start (`AccessAsDecided`).
* A meeting cancelled by somebody other than its creator, or after the account was
  changed, stays on the provider's calendar.

## 7. Plan

Done:

1. `CampaignRows`, `CampaignLifecycle`, `CampaignDispatch`, `OutreachPromise`.
2. `MailboxBudget`.
3. `MessageTracking`.
4. The `Workspace` family.
5. The theorems of section 5.

6. `TypeOK` of `Workspace`, and the arithmetic of `SendCalendar`. Every invariant and
   every action property of a passing run is proved.

To do: the components of section 1 that are not modelled and whose handlers share
rows with those that are, first the synchronisation of lists with campaigns.

### Not modelled

* Components whose operations read and write one row per request: companies,
  templates, attachments, forms, settings, table preferences, audit log,
  analytics. There is no protocol in them that a step of somebody else could break.
* Names of roles, but for the refusals; the role a sign-up gives its founder, in an
  organization of its own.
* Provider I/O: the OAuth dialogues up to their callback, reading calendars and
  analytics, IMAP and SMTP, fetching and parsing pages. Their answers are choices.
* The text of emails, merge fields, custom fields, the schema of prospects and
  their stage log; header parsing (which message a reply belongs to is an input).
* `list-campaign-member-sync.service.ts`: a loop over handlers that are actions of
  `CampaignDispatch`; the campaigns a list is enrolled in.
* Minutes within a day, time zones beyond one shift of midnight; duplicate names;
  test emails (`sendTestEmail` counts nothing); enabled modules of an organization; `resetToDraft` in the plans.
* `auth.service` creates an account without an organization; super admins; an exception in the catch block of `executeRun`.
