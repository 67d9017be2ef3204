-------------------------- MODULE CampaignDispatch --------------------------
(***************************************************************************)
(* The email-campaign pipeline: the cron tick that sends one email per     *)
(* running campaign and minute, beside the request handlers and the reply  *)
(* and bounce monitors that edit the same rows.                            *)
(*                                                                         *)
(* The server is one Node process.  A handler runs without interruption    *)
(* from one await to the next, so each action below is the code between    *)
(* two awaits of one handler, and every row a handler has loaded is a copy *)
(* that other handlers may make stale.  Saving an entity writes all the    *)
(* columns of the copy over the row, and inserts the row again when it is  *)
(* gone (TypeORM's save).                                                  *)
(***************************************************************************)
EXTENDS CampaignRows

CONSTANTS
  MessageIds,   \* ids of email_campaign_messages (uuid); bounds the emails sent
  Workers,      \* handlers that may be in progress beside the tick
  Operations,   \* the handlers this instance runs
  Launched,     \* campaigns that start scheduled; the others start as drafts
  MaxRequests,  \* bound: handlers started
  MaxCrashes,   \* bound: restarts of the process
  MaxFaults     \* bound: database calls and probes that throw

RecipientOperations ==
  {"updateRecipient", "markReplyAsRead", "pauseRecipient", "stopRecipient",
   "resumeRecipient", "recordReply", "recordOpen", "recordUnsubscribe",
   "recordBounce"}

ExclusionOperations ==
  {"excludeRecipientGlobally", "excludeEmail", "removeExclusion"}

CampaignOperations ==
  {"pauseCampaign", "stopSender", "stopCampaign", "resumeCampaign",
   "updateStatus", "resetToDraft", "schedule", "update", "addRecipient",
   "deleteCampaign"}

ASSUME DispatchAssumption ==
  /\ Operations \subseteq
       RecipientOperations \cup ExclusionOperations \cup CampaignOperations
  /\ Launched \subseteq Campaigns
  /\ MaxRequests \in Nat
  /\ MaxCrashes \in Nat
  /\ MaxFaults \in Nat

VARIABLES
  campaign,     \* table email_campaigns
  recipient,    \* table email_campaign_recipients
  messages,     \* table email_campaign_messages
  excluded,     \* table email_excluded_addresses
  outbox,       \* emails the mail provider has accepted
  late,         \* per address, emails accepted since it was excluded
  life,         \* per recipient id: unborn, live, or erased with its messages
  tick,         \* the scheduler run in progress
  task,         \* the handler in progress in each worker
  revision,     \* generations of campaign child rows made so far
  requests, crashes, faults

tables == <<campaign, recipient, messages, excluded>>
history == <<outbox, late, life>>
counters == <<revision, requests, crashes, faults>>
vars == <<tables, history, tick, task, counters>>

Message ==
  [to : Recipients, step : Steps,
   status : {"pending", "sent", "failed", "bounced"}]

ASSUME MessageAssumption == NoRow \notin Message

\* recordSent, recordSendFailed, markMessageBounced
AsSent(message) == [message EXCEPT !.status = "sent"]

\* Mutant: a failed send is queued again under the same message.
AsQueuedAgain(message) == [message EXCEPT !.status = "pending"]

AsFailed(message) == [message EXCEPT !.status = "failed"]
AsBounced(message) == [message EXCEPT !.status = "bounced"]

Email == [id : MessageIds, to : Recipients, step : Steps]

-----------------------------------------------------------------------------
\* The tables

Live == {r \in Recipients : recipient[r] # NoRow}

Of(c) == {r \in Recipients : CampaignOf[r] = c}

Loaded(rows) == {r \in Recipients : rows[r] # NoRow}

NoRows == [r \in Recipients |-> NoRow]
NoCampaigns == [c \in Campaigns |-> NoRow]

\* The rows of the recipients in S, each changed by Edit.
Copies(S, Edit(_)) ==
  [r \in Recipients |-> IF r \in S THEN Edit(recipient[r]) ELSE NoRow]

\* A row that is gone can be inserted again: its campaign exists (foreign key)
\* and has no other recipient with the address (unique key).
Insertable(r) ==
  /\ campaign[CampaignOf[r]] # NoRow
  /\ \A q \in Live : CampaignOf[q] = CampaignOf[r] => EmailOf[q] # EmailOf[r]

Savable(rows) == \A r \in Loaded(rows) : r \in Live \/ Insertable(r)

Save(rows) ==
  recipient' = [r \in Recipients |->
                 IF rows[r] # NoRow THEN rows[r] ELSE recipient[r]]

\* Saving a campaign that was loaded with its children re-inserts children that
\* are gone and detaches those it does not know, which their NOT NULL foreign
\* key refuses.
CampaignSavable(c, row) ==
  campaign[c] # NoRow => campaign[c].gen \in {row.gen, None}

\* Deleting recipients takes their messages along (ON DELETE CASCADE).
Erase(S) ==
  /\ recipient' = [r \in Recipients |-> IF r \in S THEN NoRow ELSE recipient[r]]
  /\ messages' = [m \in MessageIds |->
                   IF messages[m] # NoRow /\ messages[m].to \in S THEN NoRow
                   ELSE messages[m]]

Died(S) == [r \in Recipients |-> IF r \in S THEN "erased" ELSE life[r]]

\* A message row can be written while its recipient, and so its campaign, exist.
MessageSavable(letter) == letter.to \in Live

UsedIds == {x.id : x \in outbox} \cup {m \in MessageIds : messages[m] # NoRow}

FreshId == CHOOSE m \in MessageIds : m \notin UsedIds

Exclude(e) ==
  /\ excluded' = excluded \cup {e}
  /\ late' = IF e \in excluded THEN late ELSE [late EXCEPT ![e] = 0]

Readmit(e) ==
  /\ excluded' = excluded \ {e}
  /\ late' = [late EXCEPT ![e] = 0]

-----------------------------------------------------------------------------
(***************************************************************************)
(* The scheduler run.  todo: the campaigns it has loaded and not yet       *)
(* processed; cur, copy: the one in hand; held: the recipient rows in      *)
(* memory; who: the recipient in hand; barred: that address was on the     *)
(* exclusion list when the list was read; mail: the message in hand; sent: *)
(* an email went out for this campaign.                                    *)
(***************************************************************************)
Resting ==
  [pc |-> "idle", todo |-> NoCampaigns, cur |-> None, copy |-> NoRow,
   held |-> NoRows, who |-> None, barred |-> FALSE, mail |-> None,
   sent |-> FALSE]

\* The loop moves on to the next campaign.
Moved == [Resting EXCEPT !.pc = "next", !.todo = tick.todo]

At(pc) == tick.pc = pc

Goto(pc) == tick' = [tick EXCEPT !.pc = pc]

\* The rows in hand are forgotten on the way to the closing save.
Close(sent) ==
  tick' = [tick EXCEPT !.pc = "close", !.held = NoRows, !.who = None,
                       !.barred = FALSE, !.mail = None, !.sent = sent]

\* An exception leaves the campaign, or the whole run when it has not reached
\* the campaign loop.
Abandoned ==
  IF tick.pc \in {"resume", "reread", "unpause", "load"} THEN Resting ELSE Moved

row == tick.held[tick.who]

\* Mutant: the message is recorded as sent when it is created.
LetterAlreadySent ==
  [to |-> tick.who, step |-> row.step, status |-> "sent"]

letter == [to |-> tick.who, step |-> row.step, status |-> "pending"]

\* Saves the rows held, and goes on to pc with none held.
SaveHeld(pc) ==
  IF Savable(tick.held)
  THEN /\ Save(tick.held)
       /\ tick' = [tick EXCEPT !.pc = pc, !.held = NoRows]
  ELSE /\ tick' = Abandoned
       /\ UNCHANGED recipient

StartTick ==
  /\ At("idle")
  /\ \E S \in SUBSET {r \in Live : PauseMayExpire(recipient[r])} :
       tick' = [Resting EXCEPT !.pc = IF S = {} THEN "reread" ELSE "resume",
                               !.held = Copies(S, Resumed)]
  /\ UNCHANGED <<tables, history, task, counters>>

ResumeRecipients ==
  /\ At("resume")
  /\ SaveHeld("reread")
  /\ UNCHANGED <<campaign, messages, excluded, history, task, counters>>

\* An expired campaign without statusBeforePause throws out of the run.
ReadPausedCampaigns ==
  /\ At("reread")
  /\ \E S \in SUBSET {c \in Campaigns : /\ campaign[c] # NoRow
                                        /\ campaign[c].status = "paused"
                                        /\ campaign[c].until} :
       tick' = IF \A c \in S : MayResumeCampaign(campaign[c])
               THEN [tick EXCEPT !.pc = IF S = {} THEN "load" ELSE "unpause",
                                 !.todo = [c \in Campaigns |->
                                            IF c \in S
                                            THEN CampaignResumed(campaign[c])
                                            ELSE NoRow]]
               ELSE Resting
  /\ UNCHANGED <<tables, history, task, counters>>

\* These were loaded without their children.
ResumeCampaigns ==
  /\ At("unpause")
  /\ campaign' = [c \in Campaigns |->
                   IF tick.todo[c] = NoRow THEN campaign[c]
                   ELSE WithChildrenOf(tick.todo[c], campaign[c])]
  /\ tick' = [Resting EXCEPT !.pc = "load"]
  /\ UNCHANGED <<recipient, messages, excluded, history, task, counters>>

LoadCampaigns ==
  /\ At("load")
  /\ tick' = [tick EXCEPT !.pc = "next",
                !.todo = [c \in Campaigns |->
                           IF /\ campaign[c] # NoRow
                              /\ campaign[c].status \in RunningStatuses
                           THEN campaign[c] ELSE NoRow]]
  /\ UNCHANGED <<tables, history, task, counters>>

EndTick ==
  /\ At("next")
  /\ tick.todo = NoCampaigns
  /\ tick' = Resting
  /\ UNCHANGED <<tables, history, task, counters>>

InHand(c, pc) ==
  tick' = [tick EXCEPT !.pc = pc, !.cur = c, !.copy = tick.todo[c],
                       !.todo[c] = NoRow]

\* Outside the sending window, without a schedule, steps or an active sender
SkipCampaign(c) ==
  /\ At("next")
  /\ tick.todo[c] # NoRow
  /\ tick' = [tick EXCEPT !.todo[c] = NoRow]
  /\ UNCHANGED <<tables, history, task, counters>>

\* The daily batch or the mailboxes are used up.
ExhaustedCampaign(c) ==
  /\ At("next")
  /\ tick.todo[c] # NoRow
  /\ tick.todo[c].launched
  /\ InHand(c, "close")
  /\ UNCHANGED <<tables, history, task, counters>>

\* There is a batch left: MessageIds bounds it here.
ProcessCampaign(c) ==
  /\ At("next")
  /\ tick.todo[c] # NoRow
  /\ tick.todo[c].launched
  /\ tick.todo[c].steps > 0
  /\ MessageIds \ UsedIds # {}
  /\ InHand(c, "seed")
  /\ UNCHANGED <<tables, history, task, counters>>

\* ensureInitialSendSchedule
ReadUnscheduled ==
  /\ At("seed")
  /\ LET S == {r \in Live \cap Of(tick.cur) : Unscheduled(recipient[r])}
         Scheduled(r) == [r EXCEPT !.timed = TRUE]
     IN tick' = [tick EXCEPT !.pc = IF S = {} THEN "spread" ELSE "saveSeed",
                             !.held = Copies(S, Scheduled)]
  /\ UNCHANGED <<tables, history, task, counters>>

SaveUnscheduled ==
  /\ At("saveSeed")
  /\ SaveHeld("spread")
  /\ UNCHANGED <<campaign, messages, excluded, history, task, counters>>

AsRead(r) == r

\* ensureFollowUpSendSchedules: the cohorts of at least two recipients of one
\* step and due date whose send times coincide are spread over the day.
ReadFollowUps ==
  /\ At("spread")
  /\ \E S \in SUBSET {r \in Live \cap Of(tick.cur) : AwaitsFollowUp(recipient[r])} :
       /\ \A r \in S : \E q \in S \ {r} : recipient[q].step = recipient[r].step
       /\ tick' = [tick EXCEPT !.pc = IF S = {} THEN "pick" ELSE "saveSpread",
                               !.held = Copies(S, AsRead)]
  /\ UNCHANGED <<tables, history, task, counters>>

SaveFollowUps ==
  /\ At("saveSpread")
  /\ SaveHeld("pick")
  /\ UNCHANGED <<campaign, messages, excluded, history, task, counters>>

Candidates == {r \in Live \cap Of(tick.cur) : Sendable(recipient[r])}

\* findReadyToSend takes one row.  One without a date comes after all those
\* whose date has come, and a date that is set may have come or not.
PickRecipient(r) ==
  /\ At("pick")
  /\ r \in Candidates
  /\ tick' = [tick EXCEPT !.pc = "screen", !.who = r,
                          !.held = [NoRows EXCEPT ![r] = recipient[r]]]
  /\ UNCHANGED <<tables, history, task, counters>>

PickNobody ==
  /\ At("pick")
  /\ \A r \in Candidates : recipient[r].timed
  /\ Close(FALSE)
  /\ UNCHANGED <<tables, history, task, counters>>

\* Mutant: the list is not read.
SkipExclusionList ==
  /\ At("screen")
  /\ Goto("prepare")
  /\ UNCHANGED <<tables, history, task, counters>>

ReadExclusionList ==
  /\ At("screen")
  /\ tick' = [tick EXCEPT !.pc = "prepare",
                          !.barred = EmailOf[tick.who] \in excluded]
  /\ UNCHANGED <<tables, history, task, counters>>

\* The recipient in hand is saved as it ends without an email.
Settle(settled) ==
  LET rows == [tick.held EXCEPT ![tick.who] = settled]
  IN IF Savable(rows) THEN Save(rows) /\ Close(FALSE)
     ELSE tick' = Abandoned /\ UNCHANGED recipient

BarRecipient ==
  /\ At("prepare")
  /\ tick.barred
  /\ Settle(Barred(row))
  /\ UNCHANGED <<campaign, messages, excluded, history, task, counters>>

FinishRecipient ==
  /\ At("prepare")
  /\ ~tick.barred
  /\ row.step > tick.copy.steps
  /\ Settle(OutOfSteps(row))
  /\ UNCHANGED <<campaign, messages, excluded, history, task, counters>>

\* pickSenderWithCapacity finds nobody: the mailboxes of the senders that still
\* have a quota are not those that still have a limit.
NoSender ==
  /\ At("prepare")
  /\ ~tick.barred
  /\ row.step <= tick.copy.steps
  /\ Close(FALSE)
  /\ UNCHANGED <<tables, history, task, counters>>

InsertMessage ==
  /\ At("prepare")
  /\ ~tick.barred
  /\ row.step <= tick.copy.steps
  /\ MessageIds \ UsedIds # {}
  /\ IF MessageSavable(letter)
     THEN /\ messages' = [messages EXCEPT ![FreshId] = letter]
          /\ tick' = [tick EXCEPT !.pc = "handoff", !.mail = FreshId]
     ELSE tick' = Abandoned /\ UNCHANGED messages
  /\ UNCHANGED <<campaign, recipient, excluded, history, task, counters>>

\* MailboxDailyLimitReachedError: removePending, and the loop ends.
HandoffAtLimit ==
  /\ At("handoff")
  /\ messages' = [messages EXCEPT ![tick.mail] = NoRow]
  /\ Close(FALSE)
  /\ UNCHANGED <<campaign, recipient, excluded, history, task, counters>>

\* Mutant: the error is swallowed, and the recipient moves on.
HandoffErrorIgnored ==
  /\ At("handoff")
  /\ Goto("advance")
  /\ UNCHANGED <<tables, history, task, counters>>

\* Attachments, mailbox, credentials or the provider refuse.
HandoffRefused ==
  /\ At("handoff")
  /\ Goto("failing")
  /\ UNCHANGED <<tables, history, task, counters>>

\* The provider takes the email.  The mailbox counter is saved after that, and
\* the connection may break before the answer: both throw.
HandoffAccepted(lost) ==
  /\ At("handoff")
  /\ outbox' = outbox \cup {[id |-> tick.mail, to |-> tick.who, step |-> row.step]}
  /\ late' = IF EmailOf[tick.who] \in excluded
             THEN [late EXCEPT ![EmailOf[tick.who]] = @ + 1] ELSE late
  /\ Goto(IF lost THEN "failing" ELSE "accepted")
  /\ UNCHANGED <<tables, life, task, counters>>

\* recordSent: the message, then an event
RecordSent ==
  /\ At("accepted")
  /\ MessageSavable(letter)
  /\ messages' = [messages EXCEPT ![tick.mail] = AsSent(letter)]
  /\ Goto("advance")
  /\ UNCHANGED <<campaign, recipient, excluded, history, task, counters>>

\* A failure of either is handled as if the email had not gone out.
RecordSentThrows ==
  /\ At("accepted")
  /\ Goto("failing")
  /\ \/ ~MessageSavable(letter) /\ UNCHANGED <<messages, faults>>
     \/ /\ faults < MaxFaults
        /\ faults' = faults + 1
        /\ UNCHANGED messages
     \/ /\ faults < MaxFaults
        /\ faults' = faults + 1
        /\ MessageSavable(letter)
        /\ messages' = [messages EXCEPT ![tick.mail] = AsSent(letter)]
  /\ UNCHANGED <<campaign, recipient, excluded, history, task, revision,
                 requests, crashes>>

\* Mutant: the message of a failed send is removed.
RemoveFailedMessage ==
  /\ At("failing")
  /\ messages' = [messages EXCEPT ![tick.mail] = NoRow]
  /\ Goto("fail")
  /\ UNCHANGED <<campaign, recipient, excluded, history, task, counters>>

RecordSendFailed ==
  /\ At("failing")
  /\ IF MessageSavable(letter)
     THEN /\ messages' = [messages EXCEPT ![tick.mail] = AsFailed(letter)]
          /\ Goto("fail")
     ELSE tick' = Abandoned /\ UNCHANGED messages
  /\ UNCHANGED <<campaign, recipient, excluded, history, task, counters>>

FailRecipient ==
  /\ At("fail")
  /\ Settle(Failed(row))
  /\ UNCHANGED <<campaign, messages, excluded, history, task, counters>>

AdvanceRecipient ==
  /\ At("advance")
  /\ LET rows == [tick.held EXCEPT ![tick.who] = Advanced(row, tick.copy.steps)]
     IN IF Savable(rows)
        THEN /\ Save(rows)
             /\ IF row.step < tick.copy.steps
                THEN tick' = [tick EXCEPT !.pc = "cohort", !.held = rows]
                ELSE Close(TRUE)
        ELSE tick' = Abandoned /\ UNCHANGED recipient
  /\ UNCHANGED <<campaign, messages, excluded, history, task, counters>>

\* spreadFollowUpCohort: the recipients of the same step and due date
ReadCohort ==
  /\ At("cohort")
  /\ LET step == row.step
         OnStep(r) == AwaitsFollowUp(recipient[r]) /\ recipient[r].step = step
     IN \E S \in SUBSET {r \in Live \cap Of(tick.cur) : OnStep(r)} :
          /\ tick.who \in Live /\ recipient[tick.who] = row => tick.who \in S
          /\ IF S = {} THEN Close(TRUE)
             ELSE tick' = [tick EXCEPT !.pc = "saveCohort",
                                       !.held = Copies(S, AsRead)]
  /\ UNCHANGED <<tables, history, task, counters>>

SaveCohort ==
  /\ At("saveCohort")
  /\ IF Savable(tick.held) THEN Save(tick.held) /\ Close(TRUE)
     ELSE tick' = Abandoned /\ UNCHANGED recipient
  /\ UNCHANGED <<campaign, messages, excluded, history, task, counters>>

\* Writes the campaign in hand and goes on to pc with that row in hand.
SaveCampaignAs(closed, pc) ==
  IF CampaignSavable(tick.cur, closed)
  THEN /\ campaign' = [campaign EXCEPT ![tick.cur] = closed]
       /\ tick' = IF pc = "next" THEN Moved
                  ELSE [tick EXCEPT !.pc = pc, !.copy = closed]
  ELSE tick' = Abandoned /\ UNCHANGED campaign

CloseCampaign ==
  /\ At("close")
  /\ SaveCampaignAs(CampaignAfterTick(tick.copy, tick.sent), "count")
  /\ UNCHANGED <<recipient, messages, excluded, history, task, counters>>

\* refreshCampaignStatus
CountIncomplete ==
  /\ At("count")
  /\ IF /\ \A r \in Live \cap Of(tick.cur) : ~Incomplete(recipient[r])
        /\ tick.copy.status # "draft"
     THEN Goto("mark")
     ELSE tick' = Moved
  /\ UNCHANGED <<tables, history, task, counters>>

MarkCampaignSent ==
  /\ At("mark")
  /\ SaveCampaignAs([tick.copy EXCEPT !.status = "sent"], "next")
  /\ UNCHANGED <<recipient, messages, excluded, history, task, counters>>

\* A database call or the tracking probe throws.  From the message on until it
\* is recorded as sent, an exception is a failed send (HandoffRefused,
\* HandoffAccepted, RecordSentThrows).
TickFails ==
  /\ tick.pc \notin {"idle", "next", "handoff", "accepted"}
  /\ faults < MaxFaults
  /\ faults' = faults + 1
  /\ tick' = Abandoned
  /\ UNCHANGED <<tables, history, task, revision, requests, crashes>>

SchedulerStep ==
  \/ StartTick \/ ResumeRecipients \/ ReadPausedCampaigns \/ ResumeCampaigns
  \/ LoadCampaigns \/ EndTick
  \/ \E c \in Campaigns :
       SkipCampaign(c) \/ ExhaustedCampaign(c) \/ ProcessCampaign(c)
  \/ ReadUnscheduled \/ SaveUnscheduled \/ ReadFollowUps \/ SaveFollowUps
  \/ \E r \in Recipients : PickRecipient(r)
  \/ PickNobody \/ ReadExclusionList
  \/ BarRecipient \/ FinishRecipient \/ NoSender \/ InsertMessage
  \/ HandoffAtLimit \/ HandoffRefused \/ (\E lost \in BOOLEAN : HandoffAccepted(lost))
  \/ RecordSent \/ RecordSentThrows \/ RecordSendFailed \/ FailRecipient
  \/ AdvanceRecipient
  \/ ReadCohort \/ SaveCohort
  \/ CloseCampaign \/ CountIncomplete \/ MarkCampaignSent
  \/ TickFails

-----------------------------------------------------------------------------
(***************************************************************************)
(* The handlers.  op: which one; stage: the call it is about to make; who, *)
(* edit: a recipient and the row to save; camp, copy: a campaign and the   *)
(* row to save; mail, note: a message and the row to save.                 *)
(***************************************************************************)
NoTask ==
  [op |-> None, stage |-> "idle", who |-> None, edit |-> NoRow,
   camp |-> None, copy |-> NoRow, mail |-> None, note |-> NoRow]

Begin(w, op, begun) ==
  /\ op \in Operations
  /\ task[w] = NoTask
  /\ requests < MaxRequests
  /\ requests' = requests + 1
  /\ task' = [task EXCEPT ![w] = begun]
  /\ UNCHANGED <<tick, tables, history, revision, crashes, faults>>

Stage(w, stage) == task[w].stage = stage

Done(w) == task' = [task EXCEPT ![w] = NoTask]

Then(w, stage) == task' = [task EXCEPT ![w].stage = stage]

Busy(op) == \E w \in Workers : task[w].op = op

\* A handler that has read recipient r and will save edited
Edits(w, op, r, edited) ==
  Begin(w, op, [NoTask EXCEPT !.op = op, !.stage = "saveRecipient", !.who = r,
                              !.edit = edited])

UpdateRecipient(w) ==
  \E r \in Live, category \in {"keep", "set", "clear"},
     disposition \in (Dispositions \ {"done"}) \cup {"keep"} :
    /\ MayCategorise(recipient[r], category)
    /\ MayDispose(recipient[r], disposition)
    /\ Edits(w, "updateRecipient", r,
             Disposed(Categorised(recipient[r], category), disposition))

MarkReplyAsRead(w) ==
  \E r \in Live :
    /\ recipient[r].replied \/ recipient[r].categorised
    /\ Edits(w, "markReplyAsRead", r, Categorised(recipient[r], "set"))

PauseRecipient(w) ==
  \E r \in Live :
    /\ MayPause(recipient[r])
    /\ Edits(w, "pauseRecipient", r, Paused(recipient[r]))

StopRecipient(w) ==
  \E r \in Live :
    /\ MayStop(recipient[r])
    /\ Edits(w, "stopRecipient", r, Stopped(recipient[r]))

ResumeRecipient(w) ==
  \E r \in Live :
    /\ MayResume(recipient[r])
    /\ Edits(w, "resumeRecipient", r, Resumed(recipient[r]))

\* The reply monitor matches an email to a message recorded as sent.  One poll
\* runs at a time (isRunning).
RecordReply(w) ==
  \E r \in Live, m \in MessageIds :
    /\ ~Busy("recordReply")
    /\ messages[m] # NoRow
    /\ messages[m].to = r
    /\ messages[m].status = "sent"
    /\ ~recipient[r].replied
    /\ ~recipient[r].categorised
    /\ Begin(w, "recordReply",
             [NoTask EXCEPT !.op = "recordReply", !.stage = "saveRecipient",
                            !.who = r, !.edit = Replied(recipient[r]),
                            !.mail = m, !.note = messages[m]])

\* The pixel or a link of a message recorded as sent is fetched, or an open is
\* inferred from a reply: the counters change, and the row is saved.
RecordOpen(w) ==
  \E m \in MessageIds :
    /\ messages[m] # NoRow
    /\ messages[m].status = "sent"
    /\ Begin(w, "recordOpen",
             [NoTask EXCEPT !.op = "recordOpen", !.stage = "saveMessage",
                            !.who = messages[m].to, !.mail = m,
                            !.note = messages[m]])

\* The link in an email whose message is in the table, whatever its status
RecordUnsubscribe(w) ==
  \E r \in Live :
    /\ \E m \in MessageIds : /\ messages[m] # NoRow
                             /\ messages[m].to = r
                             /\ m \in {x.id : x \in outbox}
    /\ IF recipient[r].disposition = "unsubscribed"
       THEN Begin(w, "recordUnsubscribe",
                  [NoTask EXCEPT !.op = "recordUnsubscribe", !.who = r,
                                 !.stage = "exclude"])
       ELSE Edits(w, "recordUnsubscribe", r, Unsubscribed(recipient[r]))

\* The bounce monitor runs one poll at a time as well.
RecordBounce(w) ==
  \E m \in MessageIds :
    /\ ~Busy("recordBounce")
    /\ messages[m] # NoRow
    /\ messages[m].status = "sent"
    /\ Begin(w, "recordBounce",
             [NoTask EXCEPT !.op = "recordBounce", !.stage = "saveMessage",
                            !.who = messages[m].to, !.mail = m,
                            !.note = AsBounced(messages[m])])

SaveMessage(w) ==
  /\ Stage(w, "saveMessage")
  /\ IF MessageSavable(task[w].note)
     THEN /\ messages' = [messages EXCEPT ![task[w].mail] = task[w].note]
          /\ IF task[w].op = "recordBounce" THEN Then(w, "readRecipient")
             ELSE Done(w)
     ELSE Done(w) /\ UNCHANGED messages
  /\ UNCHANGED <<tick, campaign, recipient, excluded, history, counters>>

ReadBounced(w) ==
  /\ Stage(w, "readRecipient")
  /\ IF task[w].who \in Live
     THEN task' = [task EXCEPT ![w].stage = "saveRecipient",
                               ![w].edit = Failed(recipient[task[w].who])]
     ELSE Done(w)
  /\ UNCHANGED <<tick, tables, history, counters>>

\* A reply to an email that was never opened counts as an open.
SaveEdit(w) ==
  /\ Stage(w, "saveRecipient")
  /\ LET rows == [NoRows EXCEPT ![task[w].who] = task[w].edit]
     IN IF Savable(rows)
        THEN /\ Save(rows)
             /\ \/ /\ task[w].op \in {"recordUnsubscribe", "recordBounce"}
                   /\ Then(w, "exclude")
                \/ /\ task[w].op = "recordReply"
                   /\ Then(w, "saveMessage")
                \/ /\ task[w].op \notin {"recordUnsubscribe", "recordBounce"}
                   /\ Done(w)
        ELSE Done(w) /\ UNCHANGED recipient
  /\ UNCHANGED <<tick, campaign, messages, excluded, history, counters>>

\* upsertExcludedAddress.  The operators' handlers go on to stop the recipients;
\* the other two only exclude an address whose campaign is still there.
ExcludeAddress(w) ==
  /\ Stage(w, "exclude")
  /\ LET e == EmailOf[task[w].who]
     IN IF task[w].op \in {"recordUnsubscribe", "recordBounce"}
        THEN /\ Done(w)
             /\ IF campaign[CampaignOf[task[w].who]] # NoRow THEN Exclude(e)
                ELSE UNCHANGED <<excluded, late>>
        ELSE Exclude(e) /\ Then(w, "stopAll")
  /\ UNCHANGED <<tick, campaign, recipient, messages, outbox, life, counters>>

ExcludeRecipientGlobally(w) ==
  \E r \in Live :
    /\ EmailOf[r] \notin excluded
    /\ MayExcludeGlobally(recipient[r])
    /\ Begin(w, "excludeRecipientGlobally",
             [NoTask EXCEPT !.op = "excludeRecipientGlobally", !.who = r,
                            !.stage = "exclude"])

\* EmailExcludedService.add and excludeFromList.  r stands for its address.
ExcludeEmail(w) ==
  \E r \in Recipients :
    Begin(w, "excludeEmail",
          [NoTask EXCEPT !.op = "excludeEmail", !.who = r, !.stage = "exclude"])

\* stopActiveRecipientsByEmailInOrganization: one UPDATE of the rows as they are
StopAll(w) ==
  /\ Stage(w, "stopAll")
  /\ recipient' = [r \in Recipients |->
                     IF /\ r \in Live
                        /\ EmailOf[r] = EmailOf[task[w].who]
                        /\ Unfinished(recipient[r])
                     THEN Stopped(recipient[r]) ELSE recipient[r]]
  /\ Done(w)
  /\ UNCHANGED <<tick, campaign, messages, excluded, history, counters>>

RemoveExclusion ==
  /\ "removeExclusion" \in Operations
  /\ requests < MaxRequests
  /\ requests' = requests + 1
  /\ \E e \in excluded : Readmit(e)
  /\ UNCHANGED <<tick, task, campaign, recipient, messages, outbox, life,
                 revision, crashes, faults>>

-----------------------------------------------------------------------------
\* Handlers of a campaign: each reads the row with its children, checks it, and
\* saves the copy one await later.

Existing == {c \in Campaigns : campaign[c] # NoRow}

EditsCampaign(w, op, stage, c, edited) ==
  Begin(w, op, [NoTask EXCEPT !.op = op, !.stage = stage, !.camp = c,
                              !.copy = edited])

PauseCampaign(w) ==
  \E c \in Existing :
    /\ MayPauseCampaign(campaign[c])
    /\ EditsCampaign(w, "pauseCampaign", "saveCampaign", c,
                     CampaignPaused(campaign[c], TRUE))

\* Stopping the last active mailbox sender pauses the campaign without a date.
StopSender(w) ==
  \E c \in Existing :
    /\ MayPauseCampaign(campaign[c])
    /\ EditsCampaign(w, "stopSender", "saveCampaign", c,
                     CampaignPaused(campaign[c], FALSE))

StopCampaign(w) ==
  \E c \in Existing :
    /\ MayStopCampaign(campaign[c])
    /\ EditsCampaign(w, "stopCampaign", "saveCampaign", c,
                     CampaignStopped(campaign[c]))

ResumeCampaign(w) ==
  \E c \in Existing :
    /\ MayResumeCampaign(campaign[c])
    /\ EditsCampaign(w, "resumeCampaign", "saveCampaign", c,
                     CampaignResumed(campaign[c]))

\* The manual transition draft -> scheduled, which leaves the schedule columns
\* and the recipients as they are.
UpdateStatus(w) ==
  \E c \in Existing :
    /\ campaign[c].status = "draft"
    /\ EditsCampaign(w, "updateStatus", "saveCampaign", c,
                     [campaign[c] EXCEPT !.status = "scheduled"])

\* update with steps: the row is saved first, its children replaced after that.
Update(w) ==
  \E c \in Existing :
    EditsCampaign(w, "update", "saveCampaign", c, campaign[c])

SaveCampaign(w) ==
  /\ Stage(w, "saveCampaign")
  /\ IF CampaignSavable(task[w].camp, task[w].copy)
     THEN /\ campaign' = [campaign EXCEPT ![task[w].camp] = task[w].copy]
          /\ IF task[w].op = "update" THEN Then(w, "replaceChildren") ELSE Done(w)
     ELSE Done(w) /\ UNCHANGED campaign
  /\ UNCHANGED <<tick, recipient, messages, excluded, history, counters>>

\* replaceChildCollections.  MaxRevisions bounds it.
ReplaceChildren(w) ==
  /\ Stage(w, "replaceChildren")
  /\ IF campaign[task[w].camp] # NoRow /\ revision < MaxRevisions
     THEN \E n \in Steps :
            /\ campaign' = [campaign EXCEPT ![task[w].camp].steps = n,
                                            ![task[w].camp].gen = revision + 1]
            /\ revision' = revision + 1
     ELSE UNCHANGED <<campaign, revision>>
  /\ Done(w)
  /\ UNCHANGED <<tick, recipient, messages, excluded, history, requests,
                 crashes, faults>>

\* The manual transition scheduled -> draft
ResetToDraft(w) ==
  \E c \in Existing :
    /\ campaign[c].status = "scheduled"
    /\ EditsCampaign(w, "resetToDraft", "reset", c, CampaignReset(campaign[c]))

\* One transaction: the recipients go, then the row is saved.
SaveReset(w) ==
  /\ Stage(w, "reset")
  /\ LET c == task[w].camp
     IN IF CampaignSavable(c, task[w].copy)
        THEN /\ Erase(Live \cap Of(c))
             /\ life' = Died(Live \cap Of(c))
             /\ campaign' = [campaign EXCEPT ![c] = task[w].copy]
        ELSE UNCHANGED <<campaign, recipient, messages, life>>
  /\ Done(w)
  /\ UNCHANGED <<tick, excluded, outbox, late, counters>>

Schedule(w) ==
  \E c \in Existing :
    /\ campaign[c].status = "draft"
    /\ campaign[c].steps > 0
    /\ EditsCampaign(w, "schedule", "schedule", c, CampaignScheduled(campaign[c]))

Unborn(c) == {r \in Of(c) : life[r] = "unborn"}

Audiences(c) ==
  {S \in SUBSET Unborn(c) : /\ S # {}
                            /\ \A r, q \in S : EmailOf[r] = EmailOf[q] => r = q}

\* One transaction: the recipients are replaced, then the row is saved.  The ids
\* never used so far bound it.
SaveSchedule(w) ==
  /\ Stage(w, "schedule")
  /\ LET c == task[w].camp
         old == Live \cap Of(c)
     IN IF c \in Existing /\ CampaignSavable(c, task[w].copy) /\ Unborn(c) # {}
        THEN \E S \in Audiences(c) :
               /\ recipient' = [r \in Recipients |->
                                 IF r \in S THEN NewRecipient(TRUE)
                                 ELSE IF r \in old THEN NoRow ELSE recipient[r]]
               /\ messages' = [m \in MessageIds |->
                                IF messages[m] # NoRow /\ messages[m].to \in old
                                THEN NoRow ELSE messages[m]]
               /\ life' = [r \in Recipients |->
                            IF r \in S THEN "live" ELSE Died(old)[r]]
               /\ campaign' = [campaign EXCEPT ![c] = task[w].copy]
        ELSE UNCHANGED <<campaign, recipient, messages, life>>
  /\ Done(w)
  /\ UNCHANGED <<tick, excluded, outbox, late, counters>>

AddRecipient(w) ==
  \E c \in Existing : \E r \in Unborn(c) :
    /\ campaign[c].status \in RunningStatuses
    /\ EmailOf[r] \notin excluded
    /\ \A q \in Live \cap Of(c) : EmailOf[q] # EmailOf[r]
    /\ Begin(w, "addRecipient",
             [NoTask EXCEPT !.op = "addRecipient", !.stage = "add", !.who = r,
                            !.edit = NewRecipient(campaign[c].launched),
                            !.camp = c, !.copy = campaign[c]])

\* addCampaignRecipient: one transaction inserts the recipient and saves the row
\* that was read.
SaveAddition(w) ==
  /\ Stage(w, "add")
  /\ LET r == task[w].who
         c == task[w].camp
     IN IF /\ Insertable(r)
           /\ CampaignSavable(c, task[w].copy)
           /\ life[r] = "unborn"
        THEN /\ recipient' = [recipient EXCEPT ![r] = task[w].edit]
             /\ life' = [life EXCEPT ![r] = "live"]
             /\ campaign' = [campaign EXCEPT ![c] = task[w].copy]
        ELSE UNCHANGED <<campaign, recipient, life>>
  /\ Done(w)
  /\ UNCHANGED <<tick, messages, excluded, outbox, late, counters>>

DeleteCampaign(w) ==
  \E c \in Existing :
    Begin(w, "deleteCampaign",
          [NoTask EXCEPT !.op = "deleteCampaign", !.stage = "delete", !.camp = c])

DeleteById(w) ==
  /\ Stage(w, "delete")
  /\ LET c == task[w].camp
     IN /\ campaign' = [campaign EXCEPT ![c] = NoRow]
        /\ Erase(Live \cap Of(c))
        /\ life' = Died(Live \cap Of(c))
  /\ Done(w)
  /\ UNCHANGED <<tick, excluded, outbox, late, counters>>

\* A database call throws, and the handler with it: what it has written stays.
HandlerFails(w) ==
  /\ task[w] # NoTask
  /\ faults < MaxFaults
  /\ faults' = faults + 1
  /\ Done(w)
  /\ UNCHANGED <<tick, tables, history, revision, requests, crashes>>

HandlerStep(w) ==
  \/ UpdateRecipient(w) \/ MarkReplyAsRead(w) \/ PauseRecipient(w)
  \/ StopRecipient(w) \/ ResumeRecipient(w) \/ RecordReply(w)
  \/ RecordOpen(w) \/ RecordUnsubscribe(w) \/ RecordBounce(w) \/ SaveMessage(w)
  \/ ReadBounced(w) \/ SaveEdit(w) \/ ExcludeAddress(w)
  \/ ExcludeRecipientGlobally(w) \/ ExcludeEmail(w) \/ StopAll(w)
  \/ PauseCampaign(w) \/ StopSender(w) \/ StopCampaign(w)
  \/ ResumeCampaign(w) \/ UpdateStatus(w) \/ Update(w) \/ SaveCampaign(w)
  \/ ReplaceChildren(w) \/ ResetToDraft(w) \/ SaveReset(w) \/ Schedule(w)
  \/ SaveSchedule(w) \/ AddRecipient(w) \/ SaveAddition(w)
  \/ DeleteCampaign(w) \/ DeleteById(w) \/ HandlerFails(w)

\* The process restarts: what was in memory is gone, isProcessing included.
Crash ==
  /\ crashes < MaxCrashes
  /\ tick # Resting \/ \E w \in Workers : task[w] # NoTask
  /\ crashes' = crashes + 1
  /\ tick' = Resting
  /\ task' = [w \in Workers |-> NoTask]
  /\ UNCHANGED <<tables, history, revision, requests, faults>>

-----------------------------------------------------------------------------
\* A campaign has just been scheduled with an audience, or is a draft whose
\* schedule columns may already be filled in.
InitialCampaign(c, n, planned) ==
  [status |-> IF c \in Launched THEN "scheduled" ELSE "draft", before |-> None,
   until |-> FALSE, launched |-> c \in Launched \/ planned, steps |-> n,
   gen |-> 0]

Init ==
  /\ \E n \in Steps, planned \in BOOLEAN :
       campaign = [c \in Campaigns |-> InitialCampaign(c, n, planned)]
  /\ \E S \in SUBSET {r \in Recipients : CampaignOf[r] \in Launched} :
       /\ \A c \in Launched : S \cap Of(c) # {}
       /\ \A r, q \in S : /\ CampaignOf[r] = CampaignOf[q]
                          /\ EmailOf[r] = EmailOf[q]
                          => r = q
       /\ recipient = [r \in Recipients |->
                        IF r \in S THEN NewRecipient(TRUE) ELSE NoRow]
       /\ life = [r \in Recipients |-> IF r \in S THEN "live" ELSE "unborn"]
  /\ messages = [m \in MessageIds |-> NoRow]
  /\ excluded = {}
  /\ outbox = {}
  /\ late = [e \in Emails |-> 0]
  /\ tick = Resting
  /\ task = [w \in Workers |-> NoTask]
  /\ revision = 0 /\ requests = 0 /\ crashes = 0 /\ faults = 0

Next ==
  \/ SchedulerStep
  \/ \E w \in Workers : HandlerStep(w)
  \/ RemoveExclusion
  \/ Crash

Spec == Init /\ [][Next]_vars

\* The calls a handler in progress still has to make
HandlerReturns(w) ==
  \/ SaveMessage(w) \/ ReadBounced(w) \/ SaveEdit(w) \/ ExcludeAddress(w)
  \/ StopAll(w) \/ SaveCampaign(w) \/ ReplaceChildren(w) \/ SaveReset(w)
  \/ SaveSchedule(w) \/ SaveAddition(w) \/ DeleteById(w)

\* The scheduler runs every minute and its calls return, as do those of the
\* handlers.  The rest is what time brings: a campaign's sending window and a
\* fresh daily batch come round again, a pause expires, a send date arrives, a
\* sender has capacity, the daily limit of its mailbox is not always reached.
Fairness ==
  /\ WF_vars(SchedulerStep)
  /\ \A w \in Workers : WF_vars(HandlerReturns(w))
  /\ \A c \in Campaigns :
       /\ SF_vars(ProcessCampaign(c))
       /\ SF_vars(ReadPausedCampaigns /\ tick'.todo[c] # NoRow)
  /\ \A r \in Recipients :
       /\ SF_vars(PickRecipient(r))
       /\ SF_vars(StartTick /\ tick'.held[r] # NoRow)
  /\ SF_vars(InsertMessage)
  /\ SF_vars(HandoffRefused \/ \E lost \in BOOLEAN : HandoffAccepted(lost))

FairSpec == Spec /\ Fairness

-----------------------------------------------------------------------------
\* Types

Pcs ==
  {"idle", "resume", "reread", "unpause", "load", "next", "seed", "saveSeed",
   "spread", "saveSpread", "pick", "screen", "prepare", "handoff", "accepted",
   "failing", "fail", "advance", "cohort", "saveCohort", "close", "count",
   "mark"}

Stages ==
  {"idle", "saveRecipient", "saveMessage", "readRecipient", "exclude",
   "stopAll", "saveCampaign", "replaceChildren", "reset", "schedule", "add",
   "delete"}

TickType ==
  [pc : Pcs, todo : [Campaigns -> CampaignRow \cup {NoRow}],
   cur : Campaigns \cup {None}, copy : CampaignRow \cup {NoRow},
   held : [Recipients -> RecipientRow \cup {NoRow}],
   who : Recipients \cup {None}, barred : BOOLEAN,
   mail : MessageIds \cup {None}, sent : BOOLEAN]

TaskType ==
  [op : Operations \cup {None}, stage : Stages,
   who : Recipients \cup {None}, edit : RecipientRow \cup {NoRow},
   camp : Campaigns \cup {None}, copy : CampaignRow \cup {NoRow},
   mail : MessageIds \cup {None}, note : Message \cup {NoRow}]

\* Every column, and every copy a handler holds, has a value of its type.
TypeOK ==
  /\ campaign \in [Campaigns -> CampaignRow \cup {NoRow}]
  /\ recipient \in [Recipients -> RecipientRow \cup {NoRow}]
  /\ messages \in [MessageIds -> Message \cup {NoRow}]
  /\ excluded \subseteq Emails
  /\ outbox \subseteq Email
  /\ late \in [Emails -> Nat]
  /\ life \in [Recipients -> {"unborn", "live", "erased"}]
  /\ tick \in TickType
  /\ task \in [Workers -> TaskType]
  /\ revision \in 0..MaxRevisions
  /\ requests \in Nat
  /\ crashes \in Nat
  /\ faults \in Nat

-----------------------------------------------------------------------------
\* What must not go wrong

Delivered(r, k) == \E x \in outbox : x.to = r /\ x.step = k

\* Whatever stale copies are written back, by whom and in which order, with
\* crashes and failed saves in between: nobody gets a step of the sequence
\* before all the earlier ones (processCampaign, AdvanceRecipient).
StepsInOrder ==
  \A x \in outbox : \A k \in Steps : k < x.step => Delivered(x.to, k)

\* A recipient row never claims more than was delivered: all steps before
\* currentStepOrder have been, and that one too when the disposition is done.
RowsClaimOnlyDelivered ==
  \A r \in Live :
    /\ \A k \in Steps : k < recipient[r].step => Delivered(r, k)
    /\ recipient[r].disposition = "done" => Delivered(r, recipient[r].step)

\* Every email the provider accepted can be traced (opens, bounces, replies and
\* unsubscribe links look the message up): its row exists as long as the
\* recipient has not been deleted.  The row is inserted before the handoff and
\* removePending runs only when there was none.
LedgerCoversEmails ==
  \A x \in outbox :
    life[x.to] # "erased" =>
      /\ messages[x.id] # NoRow
      /\ messages[x.id].to = x.to
      /\ messages[x.id].step = x.step

\* A message is recorded as sent, or as bounced, only if the provider took it.
SentWasAccepted ==
  \A m \in MessageIds :
    messages[m] # NoRow /\ messages[m].status \in {"sent", "bounced"} =>
      [id |-> m, to |-> messages[m].to, step |-> messages[m].step] \in outbox

\* Once an address is on the exclusion list, at most one more email goes to it,
\* in all campaigns together: the one whose list was read before.
ExclusionTakesHold == \A e \in Emails : late[e] <= 1

\* A message that has an outcome never becomes pending again, although the open
\* and reply handlers write whole message rows back: only a row recorded as sent
\* is handed to them.
OutcomesStay ==
  [][\A m \in MessageIds :
       messages[m] # NoRow /\ messages[m].status # "pending"
       /\ messages'[m] # NoRow =>
         messages'[m].status # "pending"]_vars

\* No step is emailed twice to a recipient.  It takes a crash or a failed save
\* between the provider's answer and the recipient's save, or an edit of the
\* recipient that was read before that save and written after it: campaigns may
\* be paused, stopped, rescheduled, edited or deleted at any moment.
OneEmailPerStep ==
  \A x, y \in outbox : x.to = y.to /\ x.step = y.step => x = y

\* The pipeline keeps what OutreachPromise promises.
Promise ==
  INSTANCE OutreachPromise WITH
    delivered <- {<<x.to, x.step>> : x \in outbox},
    straggled <- {e \in Emails : late[e] > 0}

PromiseKept == Promise!Spec

Served(r) == r \in Live => ~Incomplete(recipient[r])

\* A campaign that was launched comes to its end with nobody left over, also
\* when it is paused for a while in the middle of a scheduler run.
CampaignsFinish ==
  /\ \A c \in Launched : <>[](campaign[c].status = "sent")
  /\ \A r \in Recipients : <>[]Served(r)

\* docs/superpowers/plans/2026-08-19-add-campaign-recipient.md: "The existing
\* send pipeline picks up new recipients via findReadyToSend."
NewRecipientsArePickedUp == \A r \in Recipients : <>[]Served(r)

\* campaign-action.util.ts: "Only paused campaigns can be resumed": a stopped
\* campaign is not one that sends again.
OnlyPausedCampaignsResume ==
  [][\A c \in Campaigns :
       campaign[c] # NoRow /\ campaign[c].status = "stopped"
       /\ campaign'[c] # NoRow =>
         campaign'[c].status \notin RunningStatuses]_vars

\* campaign-recipient-action.util.ts: "Cannot modify an unsubscribed recipient"
UnsubscribedStays ==
  [][\A r \in Recipients :
       r \in Live /\ recipient[r].disposition = "unsubscribed"
       /\ recipient'[r] # NoRow =>
         recipient'[r].disposition = "unsubscribed"]_vars

-----------------------------------------------------------------------------
(***************************************************************************)
(* The invariant behind these: what a stale copy may be trusted with.  A   *)
(* row in memory is no younger than some row that was in the table, so it  *)
(* claims no delivery that did not happen; and the control locations of    *)
(* the tick say what it holds.                                             *)
(***************************************************************************)
WithRecipient ==
  {"screen", "prepare", "handoff", "accepted", "failing", "fail", "advance",
   "cohort"}

WithCampaign ==
  WithRecipient \cup {"seed", "saveSeed", "spread", "saveSpread", "pick",
                      "saveCohort", "close", "count", "mark"}

Claims(r, entry) ==
  /\ \A k \in Steps : k < entry.step => Delivered(r, k)
  /\ entry.disposition = "done" => Delivered(r, entry.step)

ClaimsOfRows ==
  \A r \in Recipients : recipient[r] # NoRow => Claims(r, recipient[r])

ClaimsOfTick ==
  /\ \A r \in Recipients : tick.held[r] # NoRow => Claims(r, tick.held[r])
  /\ tick.pc \in WithRecipient => row.disposition = "eligible"
  /\ tick.pc \in {"accepted", "advance"} => Delivered(tick.who, row.step)

ClaimsOfTasks ==
  \A w \in Workers :
    task[w].edit # NoRow =>
      task[w].who \in Recipients /\ Claims(task[w].who, task[w].edit)

\* What the tick has in hand at each of its control locations
InHandInv ==
  /\ tick.pc \in WithCampaign => tick.cur \in Campaigns /\ tick.copy \in CampaignRow
  /\ tick.pc \in WithRecipient => /\ tick.who \in Recipients
                                 /\ tick.held[tick.who] \in RecipientRow
  /\ tick.pc \in {"handoff", "accepted", "failing"} => tick.mail \in MessageIds

\* What a handler has in hand at each of its stages
Ready(t) ==
  /\ t.stage \in {"saveRecipient", "add"} => t.edit \in RecipientRow
  /\ t.stage \in {"saveRecipient", "add", "exclude", "stopAll",
                  "readRecipient", "saveMessage"} => t.who \in Recipients
  /\ t.stage = "readRecipient" => t.op = "recordBounce"
  /\ t.stage = "saveMessage" => t.mail \in MessageIds /\ t.note \in Message
  /\ t.stage = "saveRecipient" /\ t.op = "recordReply" =>
       t.mail \in MessageIds /\ t.note \in Message
  /\ t.stage \in {"saveCampaign", "reset", "schedule", "add"} =>
       t.copy \in CampaignRow
  /\ t.stage \in {"saveCampaign", "reset", "schedule", "add", "delete",
                  "replaceChildren"} => t.camp \in Campaigns

TaskInv == \A w \in Workers : Ready(task[w])

\* Emails to an excluded address are counted from its exclusion on, and one that
\* passed the screen before has not been counted yet.
LateInv ==
  /\ \A e \in Emails : e \notin excluded => late[e] = 0
  /\ tick.pc = "handoff" => ~tick.barred
  /\ tick.pc \in {"prepare", "handoff"} /\ ~tick.barred =>
       late[EmailOf[tick.who]] = 0

\* Ids are never reused, so a row in the table or in anybody's memory is one of
\* a recipient that was created at some time.
Born(r) == life[r] # "unborn"

BornInv ==
  /\ \A r \in Recipients : recipient[r] # NoRow \/ tick.held[r] # NoRow => Born(r)
  /\ \A w \in Workers :
       task[w].edit # NoRow /\ task[w].stage # "add" =>
         task[w].who \in Recipients /\ Born(task[w].who)
  /\ \A x \in outbox : Born(x.to)

\* The email that goes out under message id m with what the row l says
EmailUnder(m, l) == [id |-> m, to |-> l.to, step |-> l.step]

\* An id is used for one email; a message row that a handler writes back is that
\* of an accepted email; and the tick's message is nobody else's.
NotesAreAccepted ==
  \A w \in Workers :
    task[w].note # NoRow =>
      /\ task[w].mail \in MessageIds
      /\ task[w].note.status \in {"sent", "bounced"}
      /\ EmailUnder(task[w].mail, task[w].note) \in outbox

LetterInHand ==
  tick.pc \in {"handoff", "accepted", "failing"} =>
    /\ \A x \in outbox :
         x.id = tick.mail => tick.pc # "handoff" /\ x = EmailUnder(tick.mail, letter)
    /\ tick.pc = "accepted" => EmailUnder(tick.mail, letter) \in outbox
    /\ life[tick.who] # "erased" => messages[tick.mail] # NoRow
    /\ messages[tick.mail] # NoRow =>
         /\ messages[tick.mail].to = tick.who
         /\ messages[tick.mail].step = row.step

LedgerInv ==
  /\ BornInv
  /\ \A x, y \in outbox : x.id = y.id => x = y
  /\ NotesAreAccepted
  /\ LetterInHand
  /\ LedgerCoversEmails
  /\ SentWasAccepted

\* Every stale copy can be written back at any time.
PipelineInv ==
  /\ TypeOK
  /\ InHandInv
  /\ TaskInv
  /\ ClaimsOfRows
  /\ ClaimsOfTick
  /\ ClaimsOfTasks
  /\ StepsInOrder
  /\ LateInv
  /\ ExclusionTakesHold
  /\ LedgerInv
=============================================================================
