-------------------------- MODULE CampaignLifecycle --------------------------
(***************************************************************************)
(* The status of an email campaign: what pausing, stopping, resuming,      *)
(* resetting and launching do to a campaign row that was read before, and  *)
(* the checks they make on it.  The rows of the modules that EXTEND this   *)
(* one have at least the fields                                            *)
(*   status, before (statusBeforePause), until (pausedUntil is set),       *)
(*   launched (launchAt and the other schedule columns are set).           *)
(***************************************************************************)

CONSTANT None    \* no row, no id

CampaignStatuses ==
  {"draft", "scheduled", "sending", "sent", "failed", "paused", "stopped"}

RunningStatuses == {"scheduled", "sending"}

CampaignPaused(row, timed) ==
  [row EXCEPT !.before = row.status, !.status = "paused", !.until = timed]

CampaignStopped(row) ==
  [row EXCEPT !.status = "stopped", !.until = FALSE, !.before = None]

MayResumeCampaign(row) == row.status = "paused" /\ row.before # None

\* Mutant: the status from before the pause is not restored.
StaysPaused(row) == [row EXCEPT !.until = FALSE, !.before = None]

CampaignResumed(row) ==
  [row EXCEPT !.status = row.before, !.until = FALSE, !.before = None]

CampaignReset(row) ==
  [row EXCEPT !.status = "draft", !.launched = FALSE, !.until = FALSE,
              !.before = None]

CampaignScheduled(row) == [row EXCEPT !.status = "scheduled", !.launched = TRUE]

\* Mutant: whatever is not paused can be paused.
MayPauseAnything(row) == row.status # "paused"

MayPauseCampaign(row) == row.status \in RunningStatuses

MayStopCampaign(row) == row.status \in RunningStatuses \cup {"paused"}

\* A tick that sent an email turns the campaign it loaded as scheduled into
\* sending.
CampaignAfterTick(row, sent) ==
  IF sent /\ row.status = "scheduled" THEN [row EXCEPT !.status = "sending"]
  ELSE row
=============================================================================
