---------------------------- MODULE CampaignRows ----------------------------
(***************************************************************************)
(* The rows of the tables email_campaigns and email_campaign_recipients,   *)
(* and what each service does to one row it has loaded.  Every operator    *)
(* here is the code between a SELECT and the save of the same entity; the  *)
(* module that EXTENDS this one says when the two halves run.              *)
(*                                                                         *)
(* Columns that no property tells apart are reduced to what the code tests *)
(* of them: nextSendAt, lastSentAt, repliedAt, replyCategory, pausedUntil  *)
(* and launchAt are "is it set".  Whether a date that is set has come is a *)
(* choice of the action that reads it.                                     *)
(***************************************************************************)
EXTENDS Integers, FiniteSets, CampaignLifecycle

CONSTANTS
  Campaigns,    \* rows of email_campaigns of one organization
  Recipients,   \* ids of email_campaign_recipients, never reused (uuid)
  Emails,       \* addresses
  CampaignOf,   \* the foreign key of a recipient
  EmailOf,      \* the address of a recipient
  MaxSteps,     \* longest sequence considered
  MaxRevisions  \* bound: how often the steps of a campaign are replaced

ASSUME RowsAssumption ==
  /\ CampaignOf \in [Recipients -> Campaigns]
  /\ EmailOf \in [Recipients -> Emails]
  /\ MaxSteps \in Nat \ {0}
  /\ MaxRevisions \in Nat
  /\ None \notin Campaigns \cup Recipients \cup Emails

-----------------------------------------------------------------------------
\* Rows

Steps == 1..MaxSteps

\* before: statusBeforePause; until: pausedUntil is set; launched: launchAt and
\* the other schedule columns are set; steps: how many sequence steps the
\* campaign has; gen: which generation of its child rows they belong to, None
\* when it has no child rows.
CampaignRow ==
  [status : CampaignStatuses, before : RunningStatuses \cup {None},
   until : BOOLEAN, launched : BOOLEAN, steps : 0..MaxSteps,
   gen : 0..MaxRevisions \cup {None}]

Dispositions ==
  {"eligible", "excluded", "paused", "stopped", "unsubscribed", "done"}

\* timed: nextSendAt is set; contacted: lastSentAt; categorised: replyCategory;
\* replied: repliedAt; override: allowSendDespiteReply; until: pausedUntil.
RecipientRow ==
  [step : Steps, status : {"pending", "active", "completed", "failed"},
   disposition : Dispositions, timed : BOOLEAN, contacted : BOOLEAN,
   replied : BOOLEAN, categorised : BOOLEAN, override : BOOLEAN,
   until : BOOLEAN]

NoRow == None

ASSUME NoRowAssumption == NoRow \notin CampaignRow \cup RecipientRow

\* A recipient as schedule() and addRecipient() create it: on step 1, with the
\* first send date already computed when the campaign has a schedule.
NewRecipient(timed) ==
  [step |-> 1, status |-> "pending", disposition |-> "eligible",
   timed |-> timed, contacted |-> FALSE, replied |-> FALSE,
   categorised |-> FALSE, override |-> FALSE, until |-> FALSE]

-----------------------------------------------------------------------------
\* Queries on one recipient row

Unfinished(row) == row.status \in {"pending", "active"}

\* countIncompleteByCampaignId
Incomplete(row) == Unfinished(row) /\ row.disposition = "eligible"

\* findStepOnePendingWithoutSchedule
Unscheduled(row) ==
  /\ row.status = "pending"
  /\ row.step = 1
  /\ row.disposition = "eligible"
  /\ ~row.timed

\* findFollowUpEligibleWithNextSendAt, ...OnStepAndSendDate
AwaitsFollowUp(row) == Incomplete(row) /\ row.step > 1 /\ row.timed

\* findReadyToSend, up to the date: a row without nextSendAt is ready at once,
\* one with it when the date has come.
Sendable(row) ==
  /\ Incomplete(row)
  /\ ~row.categorised
  /\ row.replied => row.override

\* resumeExpiredPauses, up to the date
PauseMayExpire(row) == row.disposition = "paused" /\ row.until

-----------------------------------------------------------------------------
\* What the services do to one recipient row.  The guards are the checks made
\* on the row that was read.

\* applyManualPauseResume: a reply no longer holds the recipient back.
Resumed(row) ==
  [row EXCEPT !.disposition = "eligible", !.until = FALSE,
              !.override = row.replied \/ row.override]

MayResume(row) ==
  row.disposition = "paused" /\ (row.until \/ row.replied)

MayPause(row) == row.disposition = "eligible"

Paused(row) ==
  [row EXCEPT !.disposition = "paused", !.until = TRUE, !.timed = FALSE]

MayStop(row) == row.disposition \in {"eligible", "paused"}

Stopped(row) ==
  [row EXCEPT !.disposition = "stopped", !.timed = FALSE, !.until = FALSE]

MayExcludeGlobally(row) == row.disposition \in {"eligible", "paused", "stopped"}

\* PATCH of a recipient: a reply category, a disposition, or both.
MayCategorise(row, category) == category = "set" => row.contacted

MayDispose(row, disposition) ==
  /\ disposition = "excluded" => row.disposition # "unsubscribed"
  /\ disposition = "eligible" => row.disposition = "excluded"

Categorised(row, category) ==
  IF category = "keep" THEN row
  ELSE [row EXCEPT !.categorised = category = "set"]

Disposed(row, disposition) ==
  IF disposition = "keep" THEN row
  ELSE [row EXCEPT !.disposition = disposition,
                   !.timed = @ /\ disposition # "excluded"]

\* recordReply
Replied(row) ==
  [row EXCEPT !.replied = TRUE, !.timed = FALSE, !.disposition = "paused"]

\* recordUnsubscribe
Unsubscribed(row) ==
  [row EXCEPT !.disposition = "unsubscribed", !.status = "failed",
              !.timed = FALSE]

\* The failed send, and the bounce, of a message to the recipient
Failed(row) == [row EXCEPT !.status = "failed", !.timed = FALSE]

\* An address on the exclusion list is met by the send pipeline.
Barred(row) ==
  [row EXCEPT !.status = "failed", !.disposition = "stopped", !.timed = FALSE]

\* Mutant: the recipient left over when a sequence was shortened counts as done.
OutOfStepsAsDone(row) ==
  [row EXCEPT !.status = "completed", !.disposition = "done", !.timed = FALSE]

\* The send pipeline meets a recipient whose step no longer exists.
OutOfSteps(row) == [row EXCEPT !.status = "completed", !.timed = FALSE]

\* Mutant: there is always a next step.
AdvancedPastEnd(row, n) ==
  [row EXCEPT !.contacted = TRUE, !.status = "active", !.step = row.step + 1,
              !.timed = TRUE]

\* Mutant: the step is not counted up.
StaysOnStep(row, n) ==
  [row EXCEPT !.contacted = TRUE, !.status = "active", !.timed = TRUE]

\* The send pipeline after a successful send, in a sequence of n steps.
Advanced(row, n) ==
  IF row.step < n
  THEN [row EXCEPT !.contacted = TRUE, !.status = "active",
                   !.step = row.step + 1, !.timed = TRUE]
  ELSE [row EXCEPT !.contacted = TRUE, !.status = "completed",
                   !.disposition = "done", !.timed = FALSE]

-----------------------------------------------------------------------------
\* The children of the row that is in the table now, under a stale row that was
\* loaded without them.
WithChildrenOf(row, current) ==
  IF current = NoRow THEN [row EXCEPT !.steps = 0, !.gen = None]
  ELSE [row EXCEPT !.steps = current.steps, !.gen = current.gen]
=============================================================================
