---------------------------- MODULE MailboxBudget ----------------------------
(***************************************************************************)
(* How many emails may still go out today.  Three rows count what was      *)
(* sent, each with the day its count is for: the mailbox (midnight UTC),   *)
(* the campaign and its mailbox senders (midnight of the campaign).  The   *)
(* scheduler counts, and everybody else who saves one of these rows saves  *)
(* the counter he has read: the reply and bounce monitors after a slow     *)
(* poll, operators who edit a mailbox, a sender or a campaign.             *)
(*                                                                         *)
(* The module also has the lock that keeps two running campaigns off one   *)
(* mailbox.  Recipients and messages are those of CampaignDispatch; here   *)
(* somebody is ready to be written to, or nobody is.                       *)
(***************************************************************************)
EXTENDS CampaignLifecycle, Integers, FiniteSets, Sequences, FiniteSetsExt

CONSTANTS
  Campaigns, Mailboxes,
  Senders,      \* ids of email_campaign_mailbox_senders (uuid, never reused)
  Monitors,     \* the pollers: reply, bounce
  Workers,      \* request handlers that may be in progress at once
  Operations,   \* the handlers this instance runs
  Running,      \* campaigns that start scheduled; the others start as drafts
  FirstSenders, \* the senders there are at first: id -> campaign and mailbox
  Limits,       \* values of dailySendLimit
  Quotas,       \* values of dailySendQuota beside null
  Batch,        \* dailyBatchSize of every campaign
  Ahead,        \* by how many half days the campaigns' midnight is ahead of UTC
  MaxNow,       \* bound: half days that pass
  MaxSends,     \* bound: emails
  MaxEvents     \* bound: handlers and polls started, restarts, failed calls

CampaignEdits == {"pauseCampaign", "stopCampaign", "resumeCampaign",
                  "updateStatus", "schedule", "update"}
SenderEdits == {"addSender", "updateSender", "pauseSender", "resumeSender",
                "stopSender"}
MailboxEdits == {"updateMailbox"}

ASSUME BudgetAssumption ==
  /\ Operations \subseteq CampaignEdits \cup SenderEdits \cup MailboxEdits
  /\ Running \subseteq Campaigns
  /\ DOMAIN FirstSenders \subseteq Senders
  /\ \A s \in DOMAIN FirstSenders :
       FirstSenders[s] \in [of : Campaigns, mailbox : Mailboxes]
  /\ Limits \subseteq Nat /\ Limits # {} /\ IsFiniteSet(Limits)
  /\ Quotas \subseteq Nat
  /\ Batch \in Nat /\ Ahead \in Nat /\ MaxNow \in Nat
  /\ MaxSends \in Nat /\ MaxEvents \in Nat

\* The ids of the three tables are different, and null is no day.
ASSUME IdAssumption ==
  /\ Campaigns \cap Mailboxes = {}
  /\ Campaigns \cap Senders = {}
  /\ Mailboxes \cap Senders = {}
  /\ None \notin Nat

VARIABLES
  campaign, sender, mailbox,   \* the tables
  now,                         \* half days since some midnight UTC
  tick,                        \* the scheduler run in progress
  task,                        \* the handler in progress in each worker
  poll,                        \* per monitor, the mailbox rows it has loaded
  born,                        \* sender ids in use so far
  accepted,                    \* emails per mailbox, campaign, sender and day
  shaken,                      \* those of them counted while a copy was in use
  events, failures             \* handlers, polls and failures; failures alone

tables == <<campaign, sender, mailbox>>
history == <<accepted, shaken>>
counters == <<events, failures>>
vars == <<tables, now, tick, task, poll, born, history, counters>>

-----------------------------------------------------------------------------
\* Days and rows.  A counter is a pair of fields, used and day.

UtcDay(t) == t \div 2
CampaignDay(t) == (t + Ahead) \div 2
Days == 0..CampaignDay(MaxNow)

NoRow == None

CampaignRow ==
  [status : CampaignStatuses, before : RunningStatuses \cup {None},
   until : BOOLEAN, launched : BOOLEAN, used : Nat, day : Days \cup {None}]

SenderRow ==
  [of : Campaigns, mailbox : Mailboxes, quota : Quotas \cup {None},
   status : {"active", "paused", "stopped"}, used : Nat,
   day : Days \cup {None}]

MailboxRow ==
  [limit : Limits, active : BOOLEAN, used : Nat, day : Days \cup {None}]

\* Mutant: the day is moved on, and the count of the day before kept.
FreshDayOnly(row, day) == [row EXCEPT !.day = day]

\* applyMailboxDailyReset; applySenderDailyReset and processCampaign do the
\* same with the day of the campaign.
Fresh(row, day) ==
  IF row.day = day THEN row ELSE [row EXCEPT !.used = 0, !.day = day]

Counted(row) == [row EXCEPT !.used = @ + 1]

NewSender(c, b, quota) ==
  [of |-> c, mailbox |-> b, quota |-> quota, status |-> "active",
   used |-> 0, day |-> None]

\* The senders a campaign is loaded with
LoadedSenders(c) ==
  [s \in Senders |-> IF sender[s] # NoRow /\ sender[s].of = c THEN sender[s]
                     ELSE NoRow]

Present(rows) == {s \in DOMAIN rows : rows[s] # NoRow}

Active(rows) == {s \in Present(rows) : rows[s].status = "active"}

NoSenders == [s \in Senders |-> NoRow]
NoMailboxes == [b \in Mailboxes |-> NoRow]

Over(rows, table) ==
  [x \in DOMAIN table |-> IF rows[x] # NoRow THEN rows[x] ELSE table[x]]

\* Saving a campaign saves the senders it was loaded with; a sender added since
\* would lose its campaign, which the table refuses.
CampaignSavable(c, rows) == Present(LoadedSenders(c)) \subseteq Present(rows)

SaveCampaignRow(c, row, rows) ==
  /\ campaign' = [campaign EXCEPT ![c] = row]
  /\ sender' = Over(rows, sender)

-----------------------------------------------------------------------------
(***************************************************************************)
(* The scheduler run.  todo: the campaigns loaded and not yet processed;   *)
(* cur: the one in hand; row, rows: its copy and those of its senders;     *)
(* began: when its turn came; by: the sender picked; box: the mailbox row  *)
(* of the send; sent: an email went out and was recorded.                  *)
(***************************************************************************)
Resting ==
  [pc |-> "idle", todo |-> [c \in Campaigns |-> NoRow], cur |-> None,
   row |-> NoRow, rows |-> NoSenders, began |-> 0, by |-> None,
   box |-> NoRow, sent |-> FALSE]

Moved == [Resting EXCEPT !.pc = "next", !.todo = tick.todo]

At(pc) == tick.pc = pc

Close(sent) == tick' = [tick EXCEPT !.pc = "close", !.box = NoRow, !.sent = sent]

\* resumeExpiredPauses: whether a pause that has a date is over is a choice.
ReadExpiredPauses ==
  /\ At("idle")
  /\ \E S \in SUBSET {c \in Campaigns : MayResumeCampaign(campaign[c]) /\ campaign[c].until} :
       tick' = [Resting EXCEPT !.pc = IF S = {} THEN "load" ELSE "unpause",
                               !.todo = [c \in Campaigns |->
                                          IF c \in S
                                          THEN [row |-> CampaignResumed(campaign[c]),
                                                rows |-> NoSenders]
                                          ELSE NoRow]]
  /\ UNCHANGED <<tables, now, task, poll, born, history, counters>>

\* Loaded without their senders, and saved without them.
ResumeExpiredPauses ==
  /\ At("unpause")
  /\ campaign' = [c \in Campaigns |-> IF tick.todo[c] = NoRow THEN campaign[c]
                                      ELSE tick.todo[c].row]
  /\ tick' = [Resting EXCEPT !.pc = "load"]
  /\ UNCHANGED <<sender, mailbox, now, task, poll, born, history, counters>>

LoadCampaigns ==
  /\ At("load")
  /\ tick' = [Resting EXCEPT !.pc = "next",
                !.todo = [c \in Campaigns |->
                           IF campaign[c].status \in RunningStatuses
                           THEN [row |-> campaign[c], rows |-> LoadedSenders(c)]
                           ELSE NoRow]]
  /\ UNCHANGED <<tables, now, task, poll, born, history, counters>>

EndTick ==
  /\ At("next")
  /\ \A c \in Campaigns : tick.todo[c] = NoRow
  /\ tick' = Resting
  /\ UNCHANGED <<tables, now, task, poll, born, history, counters>>

\* Never launched, outside its window, or without an active sender
SkipCampaign(c) ==
  /\ At("next")
  /\ tick.todo[c] # NoRow
  /\ tick' = [tick EXCEPT !.todo[c] = NoRow]
  /\ UNCHANGED <<tables, now, task, poll, born, history, counters>>

\* Mutant: the batch of the day is full one email later.
BatchLeftOrFull(row) == row.used <= Batch

BatchLeft(row) == row.used < Batch

\* The turn of a campaign inside its window: counters of another day are reset
\* in memory.
ProcessCampaign(c) ==
  /\ At("next")
  /\ tick.todo[c] # NoRow
  /\ tick.todo[c].row.launched
  /\ LET today == CampaignDay(now)
         row == Fresh(tick.todo[c].row, today)
         rows == tick.todo[c].rows
     IN /\ BatchLeft(row) => Active(rows) # {}
        /\ tick' = [tick EXCEPT
             !.pc = IF BatchLeft(row) THEN "mailboxes" ELSE "close",
             !.todo[c] = NoRow, !.cur = c, !.began = now, !.row = row,
             !.rows = [s \in Senders |->
                        IF BatchLeft(row) /\ s \in Active(rows)
                        THEN Fresh(rows[s], today) ELSE rows[s]]]
  /\ UNCHANGED <<tables, now, task, poll, born, history, counters>>

\* Mutant: the limit is reached one email later.
RoomForOneMore(box) == box.used <= box.limit

\* getMailboxRemainingCapacity
RoomIn(box) == box.used < box.limit

\* pickSenderWithCapacity, with getSenderRemainingQuota
HasCapacity(s) ==
  LET row == tick.rows[s]
      box == Fresh(mailbox[row.mailbox], UtcDay(tick.began))
  IN /\ RoomIn(box)
     /\ row.quota # None => row.used < row.quota

\* loadMailboxMap and pickSenderWithCapacity; the order of the senders is open,
\* and there may be nobody to write to.
LoadMailboxes ==
  /\ At("mailboxes")
  /\ \/ Close(FALSE)
     \/ \E s \in Active(tick.rows) :
          /\ HasCapacity(s)
          /\ tick' = [tick EXCEPT !.pc = "send", !.by = s]
  /\ UNCHANGED <<tables, now, task, poll, born, history, counters>>

From == tick.rows[tick.by].mailbox

\* sendCampaignEmail reads the mailbox again.  Inactive: the recipient fails;
\* at its limit: the message is removed; in both cases nothing is counted.
ReadMailbox ==
  /\ At("send")
  /\ LET box == Fresh(mailbox[From], UtcDay(now))
     IN IF box.active /\ RoomIn(box)
        THEN tick' = [tick EXCEPT !.pc = "handoff", !.box = box]
        ELSE Close(FALSE)
  /\ UNCHANGED <<tables, now, task, poll, born, history, counters>>

\* ensureFreshOAuthCredentials on the way to the provider
RefreshSendToken ==
  /\ At("handoff")
  /\ mailbox' = [mailbox EXCEPT ![From] = tick.box]
  /\ UNCHANGED <<campaign, sender, now, tick, task, poll, born, history, counters>>

\* The email is on the account of the day on which each row was looked at.
Accept ==
  accepted' = [accepted EXCEPT ![From][tick.box.day] = @ + 1,
                               ![tick.cur][tick.row.day] = @ + 1,
                               ![tick.by][tick.row.day] = @ + 1]

EmailsSent == MapThenSumSet(LAMBDA c : MapThenSumSet(LAMBDA d : accepted[c][d], Days),
                            Campaigns)

HandoffAccepted ==
  /\ At("handoff")
  /\ EmailsSent < MaxSends
  /\ Accept
  /\ tick' = [tick EXCEPT !.pc = "count"]
  /\ UNCHANGED <<tables, now, task, poll, born, shaken, counters>>

HandoffRefused ==
  /\ At("handoff")
  /\ Close(FALSE)
  /\ UNCHANGED <<tables, now, task, poll, born, history, counters>>

\* Somebody other than the scheduler has a copy of the row that he may save.
MailboxInUse(b) ==
  \/ \E m \in Monitors : poll[m][b] # NoRow
  \/ \E w \in Workers : task[w].b = b

CampaignInUse(c) == \E w \in Workers : task[w].c = c

Shake(x, day, if) ==
  shaken' = IF if THEN [shaken EXCEPT ![x][day] = @ + 1] ELSE shaken

\* The mailbox is counted and saved, the message recorded; the row in memory
\* is the one read before the provider was asked.
CountMailbox ==
  /\ At("count")
  /\ mailbox' = [mailbox EXCEPT ![From] = Counted(tick.box)]
  /\ tick' = [tick EXCEPT !.pc = "close", !.box = NoRow, !.sent = TRUE,
                          !.row = CampaignAfterTick(Counted(tick.row), TRUE),
                          !.rows[tick.by] = Counted(tick.rows[tick.by])]
  /\ Shake(From, tick.box.day, MailboxInUse(From))
  /\ UNCHANGED <<campaign, sender, now, task, poll, born, accepted, counters>>

\* The closing save; it is refused when a sender was added meanwhile, and then
\* the email is in no counter of the campaign.
SaveCampaign ==
  /\ At("close")
  /\ IF CampaignSavable(tick.cur, tick.rows)
     THEN /\ SaveCampaignRow(tick.cur, tick.row, tick.rows)
          /\ tick' = [tick EXCEPT !.pc = IF tick.sent THEN "persist" ELSE "refresh"]
     ELSE /\ tick' = Moved
          /\ UNCHANGED <<campaign, sender>>
  /\ IF tick.sent
     THEN Shake(tick.cur, tick.row.day,
                CampaignInUse(tick.cur) \/ ~CampaignSavable(tick.cur, tick.rows))
     ELSE UNCHANGED shaken
  /\ UNCHANGED <<mailbox, now, task, poll, born, accepted, counters>>

\* saveMailboxSenders
PersistSender ==
  /\ At("persist")
  /\ sender' = [sender EXCEPT ![tick.by] = tick.rows[tick.by]]
  /\ tick' = [tick EXCEPT !.pc = "refresh"]
  /\ UNCHANGED <<campaign, mailbox, now, task, poll, born, history, counters>>

\* refreshCampaignStatus: recipients are left, or the campaign is sent.
RefreshStatus ==
  /\ At("refresh")
  /\ tick' = Moved
  /\ \/ UNCHANGED <<campaign, sender>>
     \/ /\ CampaignSavable(tick.cur, tick.rows)
        /\ SaveCampaignRow(tick.cur, [tick.row EXCEPT !.status = "sent"], tick.rows)
  /\ UNCHANGED <<mailbox, now, task, poll, born, history, counters>>

Happens ==
  /\ events < MaxEvents
  /\ events' = events + 1

Failing ==
  /\ Happens
  /\ failures' = failures + 1

\* The provider has the email and its answer, or the save of the mailbox, is
\* lost: the code runs its catch block, and counts nothing.
AnswerLost ==
  /\ At("handoff")
  /\ EmailsSent < MaxSends
  /\ Accept
  /\ Close(FALSE)
  /\ Failing
  /\ UNCHANGED <<tables, now, task, poll, born, shaken>>

CountFails ==
  /\ At("count")
  /\ Close(FALSE)
  /\ Failing
  /\ UNCHANGED <<tables, now, task, poll, born, history>>

\* Any other call of the run throws: it leaves the campaign, or the run.
TickFails ==
  /\ tick.pc \notin {"idle", "handoff", "count"}
  /\ tick' = IF tick.pc \in {"load", "unpause"} THEN Resting ELSE Moved
  /\ Failing
  /\ UNCHANGED <<tables, now, task, poll, born, history>>

SchedulerStep ==
  \/ ReadExpiredPauses \/ ResumeExpiredPauses \/ LoadCampaigns \/ EndTick
  \/ \E c \in Campaigns : SkipCampaign(c) \/ ProcessCampaign(c)
  \/ LoadMailboxes \/ ReadMailbox \/ RefreshSendToken
  \/ HandoffAccepted \/ HandoffRefused \/ CountMailbox
  \/ SaveCampaign \/ PersistSender \/ RefreshStatus

-----------------------------------------------------------------------------
(***************************************************************************)
(* The reply and bounce monitors: they load the active mailboxes, and save *)
(* each of them after its inbox has been read.                             *)
(***************************************************************************)
StartPoll(m) ==
  /\ poll[m] = NoMailboxes
  /\ Happens
  /\ poll' = [poll EXCEPT ![m] = [b \in Mailboxes |-> IF mailbox[b].active
                                                     THEN mailbox[b] ELSE NoRow]]
  /\ UNCHANGED <<tables, now, tick, task, born, history, failures>>

\* The access token is renewed on the way to the inbox.
RefreshPollToken(m, b) ==
  /\ poll[m][b] # NoRow
  /\ mailbox' = [mailbox EXCEPT ![b] = poll[m][b]]
  /\ UNCHANGED <<campaign, sender, now, tick, task, poll, born, history, counters>>

SavePolled(m, b) ==
  /\ poll[m][b] # NoRow
  /\ mailbox' = [mailbox EXCEPT ![b] = poll[m][b]]
  /\ poll' = [poll EXCEPT ![m][b] = NoRow]
  /\ UNCHANGED <<campaign, sender, now, tick, task, born, history, counters>>

\* A mailbox that cannot be monitored is passed over.
SkipPolled(m, b) ==
  /\ poll[m][b] # NoRow
  /\ poll' = [poll EXCEPT ![m][b] = NoRow]
  /\ UNCHANGED <<tables, now, tick, task, born, history, counters>>

PollFails(m) ==
  /\ poll[m] # NoMailboxes
  /\ poll' = [poll EXCEPT ![m] = NoMailboxes]
  /\ Failing
  /\ UNCHANGED <<tables, now, tick, task, born, history>>

-----------------------------------------------------------------------------
(***************************************************************************)
(* The request handlers.  calls: the calls a handler has still to make;    *)
(* c, row, rows: the campaign it has read, as it will save it, and its     *)
(* senders; new: the senders it will save one by one; b, box: the mailbox. *)
(***************************************************************************)
Idle ==
  [calls |-> <<>>, c |-> None, row |-> NoRow, rows |-> NoSenders,
   new |-> NoSenders, b |-> None, box |-> NoRow]

\* The handler has read campaign c with its senders.
Edit(calls, c, row, new) ==
  [Idle EXCEPT !.calls = calls, !.c = c, !.row = row, !.rows = LoadedSenders(c),
               !.new = new]

Free(w) == task[w] = Idle /\ events < MaxEvents

Begin(w, op, handler) ==
  /\ op \in Operations
  /\ Free(w)
  /\ Happens
  /\ task' = [task EXCEPT ![w] = handler]
  /\ UNCHANGED <<tables, now, tick, poll, history, failures>>

\* requireLiveCampaign
LiveCampaign(c) == campaign[c].status \in RunningStatuses \cup {"paused"}

LiveSender(s) == LiveCampaign(sender[s].of)

\* validateQuotaTotals, of the senders S among rows
QuotasFit(rows, S) ==
  MapThenSumSet(LAMBDA s : rows[s].quota, {s \in S : rows[s].quota # None}) <= Batch

Only(s, row) == [NoSenders EXCEPT ![s] = row]

FreshSender == CHOOSE s \in Senders : s \notin born

PauseCampaign(w, c) ==
  /\ MayPauseCampaign(campaign[c])
  /\ Begin(w, "pauseCampaign",
           Edit(<<"campaign">>, c, CampaignPaused(campaign[c], TRUE), NoSenders))
  /\ UNCHANGED born

StopCampaign(w, c) ==
  /\ MayStopCampaign(campaign[c])
  /\ Begin(w, "stopCampaign",
           Edit(<<"campaign">>, c, CampaignStopped(campaign[c]), NoSenders))
  /\ UNCHANGED born

\* Paused senders are resumed first if the request says so; only then does the
\* handler look at the status of the campaign.
ResumeCampaign(w, c, too) ==
  LET rows == LoadedSenders(c)
      paused == {s \in Present(rows) : rows[s].status = "paused"}
      resumed == [s \in Senders |-> IF s \in paused
                                    THEN [rows[s] EXCEPT !.status = "active"]
                                    ELSE NoRow]
      senders == IF too /\ paused # {} THEN <<"assignment", "senders">> ELSE <<>>
      status == IF MayResumeCampaign(campaign[c]) THEN <<"campaign">> ELSE <<>>
  IN /\ Present(rows) = {} \/ Active(rows) # {} \/ (too /\ paused # {})
     /\ senders # <<>> => QuotasFit(rows, Active(rows) \cup paused)
     /\ senders \o status # <<>>
     /\ Begin(w, "resumeCampaign",
              Edit(senders \o status, c,
                   IF status = <<>> THEN campaign[c] ELSE CampaignResumed(campaign[c]),
                   IF senders = <<>> THEN NoSenders ELSE resumed))
     /\ UNCHANGED born

\* The manual transition of a draft checks nothing; the way back is a reset.
UpdateStatusToScheduled(w, c) ==
  /\ campaign[c].status = "draft"
  /\ Begin(w, "updateStatus",
           Edit(<<"campaign">>, c, [campaign[c] EXCEPT !.status = "scheduled"],
                NoSenders))
  /\ UNCHANGED born

Schedule(w, c) ==
  LET rows == LoadedSenders(c)
  IN /\ campaign[c].status = "draft"
     /\ Present(rows) # {}
     /\ QuotasFit(rows, Present(rows))
     /\ Begin(w, "schedule",
              Edit(<<"launch", "campaign">>, c,
                   [CampaignScheduled(campaign[c]) EXCEPT !.used = 0, !.day = None],
                   NoSenders))
     /\ UNCHANGED born

\* update with new steps: the senders are made anew from those that were read.
UpdateSteps(w, c) ==
  /\ Begin(w, "update", Edit(<<"campaign", "replace">>, c, campaign[c], NoSenders))
  /\ UNCHANGED born

AddSender(w, c, b, quota) ==
  LET rows == LoadedSenders(c)
      s == FreshSender
      new == Only(s, NewSender(c, b, quota))
  IN /\ LiveCampaign(c)
     /\ born # Senders
     /\ \A q \in Present(rows) : rows[q].mailbox = b => rows[q].status = "stopped"
     /\ QuotasFit(Over(new, rows), Active(rows) \cup {s})
     /\ born' = born \cup {s}
     /\ Begin(w, "addSender", Edit(<<"assignment", "senders">>, c, campaign[c], new))

UpdateSender(w, s, b, quota) ==
  LET row == sender[s]
      rows == LoadedSenders(row.of)
      moved == b # row.mailbox
      edited == [row EXCEPT !.mailbox = b, !.quota = quota,
                            !.used = IF moved THEN 0 ELSE @,
                            !.day = IF moved THEN None ELSE @]
  IN /\ LiveSender(s)
     /\ row.status # "stopped"
     /\ moved => \A q \in Present(rows) : rows[q].mailbox = b => rows[q].status = "stopped"
     /\ row.status = "active" => QuotasFit(Over(Only(s, edited), rows), Active(rows))
     /\ Begin(w, "updateSender",
              Edit(<<IF moved THEN "assignment" ELSE "quota", "senders">>, row.of,
                   campaign[row.of], Only(s, edited)))
     /\ UNCHANGED born

\* Pausing or stopping the last active sender of a running campaign pauses the
\* campaign, or is refused.
LastActive(s) ==
  /\ sender[s].status = "active"
  /\ Cardinality(Active(LoadedSenders(sender[s].of))) <= 1
  /\ campaign[sender[s].of].status # "paused"

EndSender(w, op, s, status, timed) ==
  LET c == sender[s].of
      ended == Only(s, [sender[s] EXCEPT !.status = status])
  IN /\ Begin(w, op,
              IF LastActive(s)
              THEN Edit(<<"campaign", "senders">>, c, CampaignPaused(campaign[c], timed), ended)
              ELSE Edit(<<"senders">>, c, campaign[c], ended))
     /\ UNCHANGED born

PauseSender(w, s) ==
  /\ LiveSender(s)
  /\ sender[s].status = "active"
  /\ EndSender(w, "pauseSender", s, "paused", TRUE)

StopSender(w, s) ==
  /\ LiveSender(s)
  /\ sender[s].status # "stopped"
  /\ EndSender(w, "stopSender", s, "stopped", FALSE)

ResumeSender(w, s) ==
  LET rows == LoadedSenders(sender[s].of)
  IN /\ LiveSender(s)
     /\ sender[s].status = "paused"
     /\ QuotasFit(rows, Active(rows) \cup {s})
     /\ Begin(w, "resumeSender",
              Edit(<<"assignment", "senders">>, sender[s].of, campaign[sender[s].of],
                   Only(s, [sender[s] EXCEPT !.status = "active"])))
     /\ UNCHANGED born

\* update and updateStatus of a mailbox
UpdateMailbox(w, b, limit, active) ==
  /\ Begin(w, "updateMailbox",
           [Idle EXCEPT !.calls = <<"mailbox">>, !.b = b,
                        !.box = [mailbox[b] EXCEPT !.limit = limit, !.active = active]])
  /\ UNCHANGED born

-----------------------------------------------------------------------------
\* The calls of a handler

Calls(w, name) == task[w].calls # <<>> /\ Head(task[w].calls) = name

Popped(w) ==
  IF Len(task[w].calls) = 1 THEN Idle ELSE [task[w] EXCEPT !.calls = Tail(@)]

Done(w) == task' = [task EXCEPT ![w] = Popped(w)]

\* findActiveMailboxUsage
Taken(b, c) ==
  \E s \in Senders :
    /\ sender[s] # NoRow
    /\ sender[s].of # c
    /\ campaign[sender[s].of].status \in RunningStatuses
    /\ sender[s].mailbox = b
    /\ sender[s].status = "active"

\* validateMailboxQuota, validateMailboxAssignment and, before a launch, the
\* validateMailboxes of the campaign service.
Accepted(row, c, call) ==
  /\ call # "launch" => mailbox[row.mailbox].active
  /\ row.quota # None => row.quota <= mailbox[row.mailbox].limit
  /\ call # "quota" => ~Taken(row.mailbox, c)

Validate(w) ==
  /\ \E call \in {"quota", "assignment", "launch"} :
       /\ Calls(w, call)
       /\ LET rows == IF call = "launch" THEN task[w].rows ELSE task[w].new
          IN IF \A s \in Present(rows) : Accepted(rows[s], task[w].c, call)
             THEN Done(w)
             ELSE task' = [task EXCEPT ![w] = Idle]
  /\ UNCHANGED <<tables, now, tick, poll, born, history, counters>>

\* A sender is one of the rows that the handler holds: a save of the campaign
\* that follows writes it as it is now.
Written(handler, s) == [handler EXCEPT !.rows[s] = handler.new[s]]

SaveSender(w) ==
  /\ Calls(w, "senders")
  /\ \E s \in Present(task[w].new) :
       /\ sender' = [sender EXCEPT ![s] = task[w].new[s]]
       /\ task' = [task EXCEPT ![w] =
            IF Present(task[w].new) # {s}
            THEN [Written(task[w], s) EXCEPT !.new[s] = NoRow]
            ELSE IF Popped(w) = Idle THEN Idle
            ELSE Written(Popped(w), s)]
  /\ UNCHANGED <<campaign, mailbox, now, tick, poll, born, history, counters>>

SaveEdited(w) ==
  /\ Calls(w, "campaign")
  /\ IF CampaignSavable(task[w].c, task[w].rows)
     THEN /\ SaveCampaignRow(task[w].c, task[w].row, task[w].rows)
          /\ Done(w)
     ELSE /\ task' = [task EXCEPT ![w] = Idle]
          /\ UNCHANGED <<campaign, sender>>
  /\ UNCHANGED <<mailbox, now, tick, poll, born, history, counters>>

\* replaceChildCollections
ReplaceSenders(w) ==
  LET old == Present(task[w].rows)
      of == task[w].c
  IN /\ Calls(w, "replace")
     /\ Cardinality(old) <= Cardinality(Senders \ born)
     /\ \E id \in [old -> Senders \ born] :
          /\ \A s, q \in old : id[s] = id[q] => s = q
          /\ born' = born \cup {id[s] : s \in old}
          /\ sender' = [s \in Senders |->
                \* made anew, untouched, or deleted
                IF \E q \in old : id[q] = s
                THEN LET row == task[w].rows[CHOOSE q \in old : id[q] = s]
                     IN NewSender(of, row.mailbox, row.quota)
                ELSE IF sender[s] # NoRow /\ sender[s].of = of THEN NoRow
                ELSE sender[s]]
     /\ Done(w)
     /\ UNCHANGED <<campaign, mailbox, now, tick, poll, history, counters>>

SaveMailbox(w) ==
  /\ Calls(w, "mailbox")
  /\ mailbox' = [mailbox EXCEPT ![task[w].b] = task[w].box]
  /\ Done(w)
  /\ UNCHANGED <<campaign, sender, now, tick, poll, born, history, counters>>

HandlerFails(w) ==
  /\ task[w] # Idle
  /\ task' = [task EXCEPT ![w] = Idle]
  /\ Failing
  /\ UNCHANGED <<tables, now, tick, poll, born, history>>

-----------------------------------------------------------------------------
Init ==
  /\ campaign = [c \in Campaigns |->
                   [status |-> IF c \in Running THEN "scheduled" ELSE "draft",
                    before |-> None, until |-> FALSE, launched |-> c \in Running,
                    used |-> 0, day |-> None]]
  /\ sender = [s \in Senders |->
                 IF s \in DOMAIN FirstSenders
                 THEN NewSender(FirstSenders[s].of, FirstSenders[s].mailbox, None)
                 ELSE NoRow]
  /\ mailbox \in [Mailboxes -> {[limit |-> l, active |-> TRUE, used |-> 0, day |-> None]
                                 : l \in Limits}]
  /\ now = 0
  /\ tick = Resting
  /\ task = [w \in Workers |-> Idle]
  /\ poll = [m \in Monitors |-> NoMailboxes]
  /\ born = DOMAIN FirstSenders
  /\ accepted = [x \in Campaigns \cup Mailboxes \cup Senders |->
                   [d \in Days |-> 0]]
  /\ shaken = [x \in Campaigns \cup Mailboxes |-> [d \in Days |-> 0]]
  /\ events = 0 /\ failures = 0

Advance ==
  /\ now < MaxNow
  /\ now' = now + 1
  /\ UNCHANGED <<tables, tick, task, poll, born, history, counters>>

\* A restart with nothing in progress changes nothing.
Restart ==
  /\ <<tick.pc, task, poll>> # <<"idle", [w \in Workers |-> Idle],
                                 [m \in Monitors |-> NoMailboxes]>>
  /\ tick' = Resting
  /\ task' = [w \in Workers |-> Idle]
  /\ poll' = [m \in Monitors |-> NoMailboxes]
  /\ Failing
  /\ UNCHANGED <<tables, now, born, history>>

Request(w) ==
  /\ Free(w)
  /\ \/ \E c \in Campaigns :
          \/ PauseCampaign(w, c) \/ StopCampaign(w, c) \/ UpdateSteps(w, c)
          \/ UpdateStatusToScheduled(w, c) \/ Schedule(w, c)
          \/ \E too \in BOOLEAN : ResumeCampaign(w, c, too)
          \/ \E b \in Mailboxes, quota \in Quotas \cup {None} :
               AddSender(w, c, b, quota)
     \/ \E s \in Present(sender) :
          \/ PauseSender(w, s) \/ StopSender(w, s) \/ ResumeSender(w, s)
          \/ \E b \in Mailboxes, quota \in Quotas \cup {None} :
               UpdateSender(w, s, b, quota)
     \/ \E b \in Mailboxes, limit \in Limits, active \in BOOLEAN :
          UpdateMailbox(w, b, limit, active)

HandlerStep(w) ==
  \/ Validate(w) \/ SaveSender(w) \/ SaveEdited(w) \/ ReplaceSenders(w)
  \/ SaveMailbox(w)

PollStep(m) ==
  \/ StartPoll(m) \/ PollFails(m)
  \/ \E b \in Mailboxes :
       RefreshPollToken(m, b) \/ SavePolled(m, b) \/ SkipPolled(m, b)

Next ==
  \/ SchedulerStep
  \/ AnswerLost \/ CountFails \/ TickFails
  \/ \E m \in Monitors : PollStep(m)
  \/ \E w \in Workers : Request(w) \/ HandlerStep(w) \/ HandlerFails(w)
  \/ Advance \/ Restart

Spec == Init /\ [][Next]_vars

-----------------------------------------------------------------------------
\* Properties

\* The rows and the clock keep their types.
TypeOK ==
  /\ campaign \in [Campaigns -> CampaignRow]
  /\ sender \in [Senders -> SenderRow \cup {NoRow}]
  /\ mailbox \in [Mailboxes -> MailboxRow]
  /\ now \in 0..MaxNow
  /\ poll \in [Monitors -> [Mailboxes -> MailboxRow \cup {NoRow}]]
  /\ accepted \in [Campaigns \cup Mailboxes \cup Senders -> [Days -> Nat]]
  /\ shaken \in [Campaigns \cup Mailboxes -> [Days -> Nat]]

\* However many campaigns send through a mailbox, and around both midnights, a
\* mailbox sends more than its dailySendLimit on a day only as far as emails
\* were counted while a monitor or an operator had a copy of the row, or a call
\* failed.
MailboxLimitKept ==
  \A b \in Mailboxes, d \in Days :
    accepted[b][d] <= Max(Limits) + shaken[b][d] + failures

\* A campaign exceeds its dailyBatchSize on one of its days only as far as a
\* handler was saving the campaign while an email was counted, or a sender was
\* added under the scheduler, or a call failed.
BatchKept ==
  \A c \in Campaigns, d \in Days :
    accepted[c][d] <= Batch + shaken[c][d] + failures

\* No counter for a day ever says more than what was sent on that day: a stale
\* copy may give capacity back, but never takes any away.
NeverOvercharged ==
  /\ \A b \in Mailboxes : mailbox[b].day # None =>
       mailbox[b].used <= accepted[b][mailbox[b].day]
  /\ \A c \in Campaigns : campaign[c].day # None =>
       campaign[c].used <= accepted[c][campaign[c].day]
  /\ \A s \in Senders : (sender[s] # NoRow /\ sender[s].day # None) =>
       sender[s].used <= accepted[s][sender[s].day]

\* "<mailbox> is already sending from <campaign>": no mailbox is an active
\* sender of two running campaigns.
OneCampaignPerMailbox ==
  \A b \in Mailboxes, c \in Campaigns :
    (\E s \in Senders : /\ sender[s] # NoRow
                        /\ sender[s].of = c
                        /\ sender[s].mailbox = b
                        /\ sender[s].status = "active"
                        /\ campaign[c].status \in RunningStatuses)
      => ~Taken(b, c)
=============================================================================
