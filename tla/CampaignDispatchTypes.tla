----------------------- MODULE CampaignDispatchTypes -----------------------
(***************************************************************************)
(* Proof that every table, every copy a handler holds and everything the   *)
(* scheduler run has in hand keeps its type.  TypeOK alone is not          *)
(* inductive: a handler may save what it holds only because it has reached *)
(* that call with a row in hand, which is what InHandInv and Ready say of  *)
(* each control location.                                                  *)
(***************************************************************************)
EXTENDS CampaignDispatch, TLAPS

USE DEF NoRow

Rows == [Recipients -> RecipientRow \cup {NoRow}]

TablesInv ==
  /\ campaign \in [Campaigns -> CampaignRow \cup {NoRow}]
  /\ recipient \in Rows
  /\ messages \in [MessageIds -> Message \cup {NoRow}]
  /\ excluded \subseteq Emails
  /\ outbox \subseteq Email
  /\ late \in [Emails -> Nat]
  /\ life \in [Recipients -> {"unborn", "live", "erased"}]
  /\ revision \in 0..MaxRevisions
  /\ requests \in Nat
  /\ crashes \in Nat
  /\ faults \in Nat

TickInv == tick \in TickType /\ InHandInv

TasksInv == task \in [Workers -> TaskType] /\ TaskInv

TypeInv == TablesInv /\ TickInv /\ TasksInv

LEMMA RecipientRowTypes ==
  ASSUME NEW x \in RecipientRow
  PROVE  /\ Resumed(x) \in RecipientRow
         /\ Paused(x) \in RecipientRow
         /\ Stopped(x) \in RecipientRow
         /\ Replied(x) \in RecipientRow
         /\ Unsubscribed(x) \in RecipientRow
         /\ Failed(x) \in RecipientRow
         /\ Barred(x) \in RecipientRow
         /\ OutOfSteps(x) \in RecipientRow
<1>1. Resumed(x) \in RecipientRow
  <2>1. (x.replied \/ x.override) \in BOOLEAN
    OBVIOUS
  <2>2. QED
    BY <2>1 DEF RecipientRow, Dispositions, Resumed
<1>2. /\ Paused(x) \in RecipientRow
      /\ Stopped(x) \in RecipientRow
      /\ Replied(x) \in RecipientRow
  BY DEF RecipientRow, Dispositions, Paused, Stopped, Replied
<1>3. /\ Unsubscribed(x) \in RecipientRow
      /\ Failed(x) \in RecipientRow
      /\ Barred(x) \in RecipientRow
      /\ OutOfSteps(x) \in RecipientRow
  BY DEF RecipientRow, Dispositions, Unsubscribed, Failed, Barred, OutOfSteps
<1>4. QED
  BY <1>1, <1>2, <1>3

LEMMA AdvancedType ==
  ASSUME NEW x \in RecipientRow, NEW n \in 0..MaxSteps
  PROVE  Advanced(x, n) \in RecipientRow
<1>1. MaxSteps \in Nat
  BY RowsAssumption
<1>2. x.step \in 1..MaxSteps
  BY DEF RecipientRow, Steps
<1>3. CASE x.step < n
  <2>1. x.step + 1 \in 1..MaxSteps
    BY <1>1, <1>2, <1>3
  <2>2. QED
    BY <1>3, <2>1 DEF RecipientRow, Steps, Advanced, Dispositions
<1>4. CASE ~(x.step < n)
  BY <1>4 DEF RecipientRow, Advanced, Dispositions
<1>5. QED
  BY <1>3, <1>4

LEMMA CampaignRowTypes ==
  ASSUME NEW x \in CampaignRow
  PROVE  /\ \A t \in BOOLEAN :
              MayPauseCampaign(x) => CampaignPaused(x, t) \in CampaignRow
         /\ CampaignStopped(x) \in CampaignRow
         /\ MayResumeCampaign(x) => CampaignResumed(x) \in CampaignRow
         /\ CampaignReset(x) \in CampaignRow
         /\ CampaignScheduled(x) \in CampaignRow
         /\ \A b \in BOOLEAN : CampaignAfterTick(x, b) \in CampaignRow
         /\ \A s \in CampaignStatuses :
              [x EXCEPT !.status = s] \in CampaignRow
<1>1. \A t \in BOOLEAN : MayPauseCampaign(x) => CampaignPaused(x, t) \in CampaignRow
  BY DEF CampaignRow, CampaignStatuses, RunningStatuses, MayPauseCampaign,
         CampaignPaused
<1>2. CampaignStopped(x) \in CampaignRow
  BY DEF CampaignRow, CampaignStatuses, RunningStatuses, CampaignStopped
<1>3. MayResumeCampaign(x) => CampaignResumed(x) \in CampaignRow
  <2>1. MayResumeCampaign(x) => x.before \in CampaignStatuses
    BY DEF CampaignRow, CampaignStatuses, RunningStatuses, MayResumeCampaign
  <2>2. QED
    BY <2>1 DEF CampaignRow, CampaignResumed
<1>4. CampaignReset(x) \in CampaignRow /\ CampaignScheduled(x) \in CampaignRow
  BY DEF CampaignRow, CampaignStatuses, RunningStatuses, CampaignReset,
         CampaignScheduled
<1>5. \A b \in BOOLEAN : CampaignAfterTick(x, b) \in CampaignRow
  BY DEF CampaignRow, CampaignStatuses, CampaignAfterTick
<1>6. \A s \in CampaignStatuses : [x EXCEPT !.status = s] \in CampaignRow
  BY DEF CampaignRow
<1>7. QED
  BY <1>1, <1>2, <1>3, <1>4, <1>5, <1>6

LEMMA PatchedTypes ==
  ASSUME NEW x \in RecipientRow, NEW category,
         NEW d \in Dispositions \cup {"keep"}
  PROVE  /\ Categorised(x, category) \in RecipientRow
         /\ Disposed(x, d) \in RecipientRow
<1>1. Categorised(x, category) \in RecipientRow
  <2>1. (category = "set") \in BOOLEAN
    OBVIOUS
  <2>2. QED
    BY <2>1 DEF RecipientRow, Categorised
<1>2. Disposed(x, d) \in RecipientRow
  <2>1. (x.timed /\ d # "excluded") \in BOOLEAN
    OBVIOUS
  <2>2. QED
    BY <2>1 DEF RecipientRow, Disposed
<1>3. QED
  BY <1>1, <1>2

-----------------------------------------------------------------------------
\* The rows a handler copies

LEMMA CopiesType ==
  ASSUME recipient \in Rows, NEW S \in SUBSET Live
  PROVE  Copies(S, Resumed) \in Rows /\ Copies(S, AsRead) \in Rows
<1>1. \A r \in S : recipient[r] \in RecipientRow
  BY DEF Rows, Live
<1>2. \A r \in S : Resumed(recipient[r]) \in RecipientRow
  BY <1>1, RecipientRowTypes
<1>3. QED
  BY <1>1, <1>2 DEF Copies, AsRead, Rows

LEMMA NoRowsType == NoRows \in Rows
BY DEF NoRows, Rows

LEMMA SaveType ==
  ASSUME recipient \in Rows, NEW rows \in Rows, Save(rows)
  PROVE  recipient' \in Rows
BY DEF Save, Rows

-----------------------------------------------------------------------------
\* What the control helpers of the tick leave in hand

LEMMA RestingType == Resting \in TickType /\ Resting.pc = "idle"
BY DEF Resting, TickType, Pcs, NoCampaigns, NoRows

LEMMA Elsewhere ==
  ASSUME NEW t \in TickType, tick' = t, t.pc \notin WithCampaign
  PROVE  TickInv'
BY DEF TickInv, InHandInv, WithRecipient, WithCampaign

LEMMA AbandonedKeeps ==
  ASSUME TickInv, tick' = Abandoned
  PROVE  TickInv'
<1>1. Moved \in TickType /\ Moved.pc = "next"
  BY RestingType DEF Moved, TickType, Pcs, TickInv
<1>2. Abandoned \in {Resting, Moved}
  BY DEF Abandoned
<1>3. QED
  BY <1>1, <1>2, RestingType, Elsewhere DEF WithCampaign, WithRecipient

LEMMA MovedKeeps ==
  ASSUME TickInv, tick' = Moved
  PROVE  TickInv'
<1>1. Moved \in TickType /\ Moved.pc = "next"
  BY RestingType DEF Moved, TickType, Pcs, TickInv
<1>2. QED
  BY <1>1, Elsewhere DEF WithCampaign, WithRecipient

LEMMA CloseKeeps ==
  ASSUME TickInv, tick.pc \in WithCampaign, NEW b \in BOOLEAN, Close(b)
  PROVE  TickInv'
<1>1. /\ tick' \in TickType
      /\ tick'.pc = "close"
      /\ tick'.cur = tick.cur
      /\ tick'.copy = tick.copy
  BY NoRowsType DEF TickInv, Close, TickType, Pcs, Rows
<1>2. QED
  BY <1>1 DEF TickInv, InHandInv, WithRecipient, WithCampaign

LEMMA GotoKeeps ==
  ASSUME TickInv, NEW pc \in Pcs, Goto(pc),
         pc \in WithCampaign => tick.pc \in WithCampaign,
         pc \in WithRecipient => tick.pc \in WithRecipient,
         pc \in {"handoff", "accepted", "failing"} =>
           tick.pc \in {"handoff", "accepted", "failing"}
  PROVE  TickInv'
<1>1. /\ tick' \in TickType
      /\ tick'.pc = pc
      /\ tick'.cur = tick.cur
      /\ tick'.copy = tick.copy
      /\ tick'.who = tick.who
      /\ tick'.held = tick.held
      /\ tick'.mail = tick.mail
  BY DEF TickInv, Goto, TickType
<1>2. QED
  BY <1>1 DEF TickInv, InHandInv

\* Rows are loaded, or saved, on the way to a location with a campaign in hand
\* or to one with none.
LEMMA HoldKeeps ==
  ASSUME TickInv, NEW pc \in Pcs \ WithRecipient, NEW rows \in Rows,
         pc \in WithCampaign => tick.pc \in WithCampaign,
         tick' = [tick EXCEPT !.pc = pc, !.held = rows]
  PROVE  TickInv'
<1>1. /\ tick' \in TickType
      /\ tick'.pc = pc
      /\ tick'.cur = tick.cur
      /\ tick'.copy = tick.copy
  BY DEF TickInv, TickType, Rows
<1>2. QED
  BY <1>1 DEF TickInv, InHandInv, WithRecipient

LEMMA SaveHeldKeeps ==
  ASSUME TickInv, recipient \in Rows, NEW pc \in Pcs \ WithRecipient,
         pc \in WithCampaign => tick.pc \in WithCampaign,
         SaveHeld(pc)
  PROVE  TickInv' /\ recipient' \in Rows
<1>1. tick.held \in Rows
  BY DEF TickInv, TickType, Rows
<1>2. CASE Savable(tick.held)
  <2>1. Save(tick.held) /\ tick' = [tick EXCEPT !.pc = pc, !.held = NoRows]
    BY <1>2 DEF SaveHeld
  <2>2. QED
    BY <1>1, <2>1, SaveType, HoldKeeps, NoRowsType
<1>3. CASE ~Savable(tick.held)
  BY <1>3, AbandonedKeeps DEF SaveHeld
<1>4. QED
  BY <1>2, <1>3

LEMMA SettleKeeps ==
  ASSUME TickInv, recipient \in Rows, tick.pc \in WithRecipient,
         NEW settled \in RecipientRow, Settle(settled)
  PROVE  TickInv' /\ recipient' \in Rows
<1> DEFINE rows == [tick.held EXCEPT ![tick.who] = settled]
<1>1. rows \in Rows
  BY DEF TickInv, TickType, Rows
<1>2. tick.pc \in WithCampaign
  BY DEF WithCampaign
<1>3. CASE Savable(rows)
  <2>1. Save(rows) /\ Close(FALSE)
    BY <1>3 DEF Settle
  <2>2. QED
    BY <1>1, <1>2, <2>1, SaveType, CloseKeeps
<1>4. CASE ~Savable(rows)
  BY <1>4, AbandonedKeeps DEF Settle
<1>5. QED
  BY <1>3, <1>4

-----------------------------------------------------------------------------
\* The steps of the scheduler, up to the call that is made with the tables

\* Steps that touch the tick only
LEMMA TickOnly ==
  ASSUME TypeInv, TickInv', UNCHANGED <<tables, history, task, counters>>
  PROVE  TypeInv'
BY DEF TypeInv, TablesInv, TasksInv, TaskInv, tables, history, counters, Rows

\* Steps that touch the recipients as well
LEMMA TickAndRecipients ==
  ASSUME TypeInv, TickInv', recipient' \in Rows,
         UNCHANGED <<campaign, messages, excluded, history, task, counters>>
  PROVE  TypeInv'
BY DEF TypeInv, TablesInv, TasksInv, TaskInv, history, counters, Rows

LEMMA StartTickTypes ==
  ASSUME TypeInv, StartTick
  PROVE  TypeInv'
<1>1. PICK S \in SUBSET Live :
        tick' = [Resting EXCEPT !.pc = IF S = {} THEN "reread" ELSE "resume",
                               !.held = Copies(S, Resumed)]
  BY DEF StartTick
<1> DEFINE pc == IF S = {} THEN "reread" ELSE "resume"
<1>2. Copies(S, Resumed) \in Rows
  BY CopiesType DEF TypeInv, TablesInv
<1>3. pc \in {"reread", "resume"}
  OBVIOUS
<1>4. tick' = [Resting EXCEPT !.pc = pc, !.held = Copies(S, Resumed)]
  BY <1>1
<1> HIDE DEF pc
<1>5. tick' \in TickType /\ tick'.pc = pc
  BY <1>2, <1>3, <1>4, RestingType DEF TickType, Pcs, Rows
<1>6. TickInv'
  BY <1>3, <1>5, Elsewhere DEF WithCampaign, WithRecipient
<1>7. QED
  BY <1>6, TickOnly DEF StartTick

LEMMA ReadPausedCampaignsTypes ==
  ASSUME TypeInv, ReadPausedCampaigns
  PROVE  TypeInv'
<1>1. PICK S \in SUBSET Campaigns :
        /\ \A c \in S : campaign[c] # NoRow
        /\ tick' = IF \A c \in S : MayResumeCampaign(campaign[c])
                   THEN [tick EXCEPT
                          !.pc = IF S = {} THEN "load" ELSE "unpause",
                          !.todo = [c \in Campaigns |->
                                     IF c \in S THEN CampaignResumed(campaign[c])
                                     ELSE NoRow]]
                   ELSE Resting
  BY DEF ReadPausedCampaigns
<1>2. TickInv'
  <2>1. CASE \A c \in S : MayResumeCampaign(campaign[c])
    <3> DEFINE pc == IF S = {} THEN "load" ELSE "unpause"
               todo == [c \in Campaigns |->
                         IF c \in S THEN CampaignResumed(campaign[c]) ELSE NoRow]
    <3>1. pc \in {"load", "unpause"}
      OBVIOUS
    <3>2. ASSUME NEW c \in S
          PROVE  CampaignResumed(campaign[c]) \in CampaignRow
      <4>1. campaign[c] \in CampaignRow
        BY <1>1, <3>2 DEF TypeInv, TablesInv
      <4>2. QED
        BY <2>1, <3>2, <4>1, CampaignRowTypes
    <3>3. todo \in [Campaigns -> CampaignRow \cup {NoRow}]
      BY <3>2
    <3>4. tick' = [tick EXCEPT !.pc = pc, !.todo = todo]
      BY <1>1, <2>1
    <3> HIDE DEF pc, todo
    <3>5. tick' \in TickType /\ tick'.pc = pc
      BY <3>1, <3>3, <3>4 DEF TypeInv, TickInv, TickType, Pcs
    <3>6. QED
      BY <3>1, <3>5, Elsewhere DEF WithCampaign, WithRecipient
  <2>2. CASE ~ \A c \in S : MayResumeCampaign(campaign[c])
    BY <1>1, <2>2, RestingType, Elsewhere DEF WithCampaign, WithRecipient
  <2>3. QED
    BY <2>1, <2>2
<1>3. QED
  BY <1>2, TickOnly DEF ReadPausedCampaigns

LEMMA ResumeCampaignsTypes ==
  ASSUME TypeInv, ResumeCampaigns
  PROVE  TypeInv'
<1>1. ASSUME NEW c \in Campaigns, tick.todo[c] # NoRow
      PROVE  WithChildrenOf(tick.todo[c], campaign[c]) \in CampaignRow
  <2>1. tick.todo[c] \in CampaignRow
    BY <1>1 DEF TypeInv, TickInv, TickType
  <2>2. campaign[c] # NoRow => campaign[c] \in CampaignRow
    BY DEF TypeInv, TablesInv
  <2>3. 0 \in 0..MaxSteps
    BY RowsAssumption
  <2>4. QED
    BY <2>1, <2>2, <2>3 DEF WithChildrenOf, CampaignRow
<1>2. campaign' \in [Campaigns -> CampaignRow \cup {NoRow}]
  BY <1>1 DEF ResumeCampaigns, TypeInv, TablesInv
<1>3. TickInv'
  <2>1. tick' \in TickType /\ tick'.pc = "load"
    BY RestingType DEF ResumeCampaigns, TickType, Pcs
  <2>2. QED
    BY <2>1, Elsewhere DEF WithCampaign, WithRecipient
<1>4. QED
  BY <1>2, <1>3 DEF TypeInv, TablesInv, TasksInv, TaskInv, ResumeCampaigns,
                    history, counters, Rows

LEMMA LoadCampaignsTypes ==
  ASSUME TypeInv, LoadCampaigns
  PROVE  TypeInv'
<1> DEFINE todo == [c \in Campaigns |->
                     IF campaign[c] # NoRow /\ campaign[c].status \in RunningStatuses
                     THEN campaign[c] ELSE NoRow]
<1>1. todo \in [Campaigns -> CampaignRow \cup {NoRow}]
  BY DEF TypeInv, TablesInv
<1>2. tick' = [tick EXCEPT !.pc = "next", !.todo = todo]
  BY DEF LoadCampaigns
<1> HIDE DEF todo
<1>3. tick' \in TickType /\ tick'.pc = "next"
  BY <1>1, <1>2 DEF TypeInv, TickInv, TickType, Pcs
<1>4. TickInv'
  BY <1>3, Elsewhere DEF WithCampaign, WithRecipient
<1>5. QED
  BY <1>4, TickOnly DEF LoadCampaigns

LEMMA InHandTypes ==
  ASSUME TypeInv, NEW c \in Campaigns, tick.todo[c] # NoRow,
         NEW pc \in {"close", "seed"}, InHand(c, pc)
  PROVE  TickInv'
<1>1. tick.todo[c] \in CampaignRow
  BY DEF TypeInv, TickInv, TickType
<1>2. /\ tick' \in TickType
      /\ tick'.pc = pc
      /\ tick'.cur = c
      /\ tick'.copy = tick.todo[c]
  BY <1>1 DEF InHand, TypeInv, TickInv, TickType, Pcs
<1>3. QED
  BY <1>1, <1>2 DEF TickInv, InHandInv, WithRecipient

LEMMA CampaignLoopTypes ==
  ASSUME TypeInv, NEW c \in Campaigns,
         SkipCampaign(c) \/ ExhaustedCampaign(c) \/ ProcessCampaign(c)
  PROVE  TypeInv'
<1>1. CASE SkipCampaign(c)
  <2>1. tick' \in TickType /\ tick'.pc = "next"
    BY <1>1 DEF SkipCampaign, At, TypeInv, TickInv, TickType
  <2>2. TickInv'
    BY <2>1, Elsewhere DEF WithCampaign, WithRecipient
  <2>3. QED
    BY <1>1, <2>2, TickOnly DEF SkipCampaign
<1>2. CASE ExhaustedCampaign(c)
  BY <1>2, InHandTypes, TickOnly DEF ExhaustedCampaign
<1>3. CASE ProcessCampaign(c)
  BY <1>3, InHandTypes, TickOnly DEF ProcessCampaign
<1>4. QED
  BY <1>1, <1>2, <1>3

-----------------------------------------------------------------------------
\* The steps of the scheduler with a campaign, and a recipient, in hand

LEMMA InHandFacts ==
  ASSUME TypeInv, tick.pc \in WithRecipient
  PROVE  /\ tick.who \in Recipients
         /\ row \in RecipientRow
         /\ tick.cur \in Campaigns
         /\ tick.copy \in CampaignRow
         /\ letter \in Message
         /\ AsSent(letter) \in Message
         /\ AsFailed(letter) \in Message
<1>1. /\ tick.who \in Recipients
      /\ row \in RecipientRow
      /\ tick.cur \in Campaigns
      /\ tick.copy \in CampaignRow
  BY DEF TypeInv, TickInv, InHandInv, WithCampaign, row
<1>2. row.step \in Steps
  BY <1>1 DEF RecipientRow
<1>3. QED
  BY <1>1, <1>2 DEF letter, AsSent, AsFailed, Message

LEMMA ReadUnscheduledTypes ==
  ASSUME TypeInv, ReadUnscheduled
  PROVE  TypeInv'
<1> DEFINE S == {r \in Live \cap Of(tick.cur) : Unscheduled(recipient[r])}
           pc == IF S = {} THEN "spread" ELSE "saveSeed"
           rows == [r \in Recipients |->
                     IF r \in S THEN [recipient[r] EXCEPT !.timed = TRUE]
                     ELSE NoRow]
<1>1. \A r \in S : [recipient[r] EXCEPT !.timed = TRUE] \in RecipientRow
  BY DEF TypeInv, TablesInv, Live, Rows, RecipientRow
<1>2. rows \in Rows
  BY <1>1 DEF Rows
<1>3. pc \in {"spread", "saveSeed"}
  OBVIOUS
<1>4. tick.pc = "seed" /\ tick' = [tick EXCEPT !.pc = pc, !.held = rows]
  BY DEF ReadUnscheduled, Copies, At
<1> HIDE DEF pc, rows
<1>5. TickInv'
  BY <1>2, <1>3, <1>4, HoldKeeps DEF TypeInv, Pcs, WithCampaign, WithRecipient
<1>6. QED
  BY <1>5, TickOnly DEF ReadUnscheduled

LEMMA ReadFollowUpsTypes ==
  ASSUME TypeInv, ReadFollowUps
  PROVE  TypeInv'
<1>1. PICK S \in SUBSET Live :
        tick' = [tick EXCEPT !.pc = IF S = {} THEN "pick" ELSE "saveSpread",
                             !.held = Copies(S, AsRead)]
  BY DEF ReadFollowUps
<1> DEFINE pc == IF S = {} THEN "pick" ELSE "saveSpread"
<1>2. Copies(S, AsRead) \in Rows
  BY CopiesType DEF TypeInv, TablesInv
<1>3. pc \in {"pick", "saveSpread"}
  OBVIOUS
<1>4. tick.pc = "spread" /\ tick' = [tick EXCEPT !.pc = pc, !.held = Copies(S, AsRead)]
  BY <1>1 DEF ReadFollowUps, At
<1> HIDE DEF pc
<1>5. TickInv'
  BY <1>2, <1>3, <1>4, HoldKeeps DEF TypeInv, Pcs, WithCampaign, WithRecipient
<1>6. QED
  BY <1>5, TickOnly DEF ReadFollowUps

LEMMA SaveHeldTypes ==
  ASSUME TypeInv, ResumeRecipients \/ SaveUnscheduled \/ SaveFollowUps
  PROVE  TypeInv'
<1>1. PICK pc \in {"reread", "spread", "pick"} :
        SaveHeld(pc) /\ (pc \in {"spread", "pick"} => tick.pc \in WithCampaign)
  BY DEF ResumeRecipients, SaveUnscheduled, SaveFollowUps, At, WithCampaign
<1>2. TickInv' /\ recipient' \in Rows
  BY <1>1, SaveHeldKeeps DEF TypeInv, TablesInv, Pcs, WithCampaign, WithRecipient
<1>3. QED
  BY <1>2, TickAndRecipients DEF ResumeRecipients, SaveUnscheduled, SaveFollowUps

LEMMA PickRecipientTypes ==
  ASSUME TypeInv, NEW r \in Recipients, PickRecipient(r)
  PROVE  TypeInv'
<1> DEFINE rows == [NoRows EXCEPT ![r] = recipient[r]]
<1>1. recipient[r] \in RecipientRow
  BY DEF PickRecipient, Candidates, Live, TypeInv, TablesInv, Rows
<1>2. rows \in Rows /\ rows[r] = recipient[r]
  BY <1>1 DEF NoRows, Rows
<1>3. tick.pc = "pick"
      /\ tick' = [tick EXCEPT !.pc = "screen", !.who = r, !.held = rows]
  BY DEF PickRecipient, At
<1> HIDE DEF rows
<1>4. /\ tick' \in TickType
      /\ tick'.pc = "screen"
      /\ tick'.who = r
      /\ tick'.held = rows
      /\ tick'.cur = tick.cur
      /\ tick'.copy = tick.copy
  BY <1>2, <1>3 DEF TypeInv, TickInv, TickType, Pcs, Rows
<1>5. TickInv'
  BY <1>1, <1>2, <1>3, <1>4 DEF TypeInv, TickInv, InHandInv, WithCampaign
<1>6. QED
  BY <1>5, TickOnly DEF PickRecipient

LEMMA ReadExclusionListTypes ==
  ASSUME TypeInv, ReadExclusionList
  PROVE  TypeInv'
<1>1. (EmailOf[tick.who] \in excluded) \in BOOLEAN
  OBVIOUS
<1>2. /\ tick' \in TickType
      /\ tick'.pc = "prepare"
      /\ tick'.who = tick.who
      /\ tick'.held = tick.held
      /\ tick'.cur = tick.cur
      /\ tick'.copy = tick.copy
  BY <1>1 DEF ReadExclusionList, TypeInv, TickInv, TickType, Pcs
<1>3. TickInv'
  BY <1>2 DEF ReadExclusionList, At, TypeInv, TickInv, InHandInv, WithCampaign,
              WithRecipient
<1>4. QED
  BY <1>3, TickOnly DEF ReadExclusionList

\* The recipient ends without an email, or after a failed one.
LEMMA SettleTypes ==
  ASSUME TypeInv, BarRecipient \/ FinishRecipient \/ FailRecipient
  PROVE  TypeInv'
<1>1. tick.pc \in WithRecipient
  BY DEF BarRecipient, FinishRecipient, FailRecipient, At, WithRecipient
<1>2. row \in RecipientRow
  BY <1>1, InHandFacts
<1>3. PICK settled \in {Barred(row), OutOfSteps(row), Failed(row)} : Settle(settled)
  BY DEF BarRecipient, FinishRecipient, FailRecipient
<1>4. settled \in RecipientRow
  BY <1>2, <1>3, RecipientRowTypes
<1>5. TickInv' /\ recipient' \in Rows
  BY <1>1, <1>3, <1>4, SettleKeeps DEF TypeInv, TablesInv
<1>6. QED
  BY <1>5, TickAndRecipients DEF BarRecipient, FinishRecipient, FailRecipient

\* The loop ends without touching a table.
LEMMA CloseTypes ==
  ASSUME TypeInv, PickNobody \/ NoSender
  PROVE  TypeInv'
<1>1. tick.pc \in WithCampaign /\ Close(FALSE)
  BY DEF PickNobody, NoSender, At, WithCampaign, WithRecipient
<1>2. TickInv'
  BY <1>1, CloseKeeps DEF TypeInv
<1>3. QED
  BY <1>2, TickOnly DEF PickNobody, NoSender

-----------------------------------------------------------------------------
\* From the message to its outcome

LEMMA FreshIdIsFresh ==
  ASSUME MessageIds \ UsedIds # {}
  PROVE  FreshId \in MessageIds \ UsedIds
<1>1. PICK m \in MessageIds : m \notin UsedIds
  OBVIOUS
<1>2. QED
  BY <1>1 DEF FreshId

Messages == [MessageIds -> Message \cup {NoRow}]

LEMMA TickAndMessages ==
  ASSUME TypeInv, TickInv', messages' \in Messages, faults' \in Nat,
         UNCHANGED <<campaign, recipient, excluded, history, task, revision,
                     requests, crashes>>
  PROVE  TypeInv'
BY DEF TypeInv, TablesInv, TasksInv, TaskInv, history, Rows, Messages

LEMMA InsertMessageTypes ==
  ASSUME TypeInv, InsertMessage
  PROVE  TypeInv'
<1>1. tick.pc = "prepare" /\ tick.pc \in WithRecipient
  BY DEF InsertMessage, At, WithRecipient
<1>2. letter \in Message
  BY <1>1, InHandFacts
<1>3. FreshId \in MessageIds
  BY FreshIdIsFresh DEF InsertMessage
<1>4. CASE MessageSavable(letter)
  <2>1. messages' = [messages EXCEPT ![FreshId] = letter]
        /\ tick' = [tick EXCEPT !.pc = "handoff", !.mail = FreshId]
    BY <1>4 DEF InsertMessage
  <2>2. /\ tick' \in TickType
        /\ tick'.pc = "handoff"
        /\ tick'.who = tick.who
        /\ tick'.held = tick.held
        /\ tick'.cur = tick.cur
        /\ tick'.copy = tick.copy
        /\ tick'.mail = FreshId
    BY <1>3, <2>1 DEF TypeInv, TickInv, TickType, Pcs
  <2>3. TickInv'
    BY <1>1, <1>3, <2>2 DEF TypeInv, TickInv, InHandInv, WithCampaign, WithRecipient
  <2>4. messages' \in Messages
    BY <1>2, <1>3, <2>1 DEF Messages, TypeInv, TablesInv
  <2>5. QED
    BY <2>3, <2>4, TickAndMessages DEF InsertMessage, TypeInv, TablesInv, counters
<1>5. CASE ~MessageSavable(letter)
  <2>1. TickInv' /\ messages' = messages
    BY <1>5, AbandonedKeeps DEF InsertMessage, TypeInv
  <2>2. QED
    BY <2>1, TickAndMessages DEF InsertMessage, TypeInv, TablesInv, counters, Messages
<1>6. QED
  BY <1>4, <1>5

LEMMA HandoffAtLimitTypes ==
  ASSUME TypeInv, HandoffAtLimit
  PROVE  TypeInv'
<1>1. TickInv'
  BY CloseKeeps DEF HandoffAtLimit, At, WithCampaign, WithRecipient, TypeInv
<1>2. messages' \in Messages
  BY DEF HandoffAtLimit, Messages, TypeInv, TablesInv
<1>3. QED
  BY <1>1, <1>2, TickAndMessages DEF HandoffAtLimit, TypeInv, TablesInv, counters

LEMMA HandoffRefusedTypes ==
  ASSUME TypeInv, HandoffRefused
  PROVE  TypeInv'
<1>1. tick.pc = "handoff" /\ Goto("failing")
  BY DEF HandoffRefused, At
<1>2. TickInv'
  BY <1>1, GotoKeeps DEF TypeInv, Pcs, WithCampaign, WithRecipient
<1>3. QED
  BY <1>2, TickOnly DEF HandoffRefused

LEMMA HandoffAcceptedTypes ==
  ASSUME TypeInv, NEW lost \in BOOLEAN, HandoffAccepted(lost)
  PROVE  TypeInv'
<1> DEFINE email == [id |-> tick.mail, to |-> tick.who, step |-> row.step]
           e == EmailOf[tick.who]
<1>1. tick.pc = "handoff" /\ tick.pc \in WithRecipient
  BY DEF HandoffAccepted, At, WithRecipient
<1>2. /\ tick.who \in Recipients
      /\ row.step \in Steps
      /\ tick.mail \in MessageIds
  BY <1>1, InHandFacts DEF RecipientRow, TypeInv, TickInv, InHandInv
<1>3. e \in Emails
  BY <1>2, RowsAssumption
<1>4. email \in Email
  BY <1>2 DEF Email
<1>5. outbox' \subseteq Email
  BY <1>4 DEF HandoffAccepted, TypeInv, TablesInv
<1>6. late' \in [Emails -> Nat]
  BY <1>3 DEF HandoffAccepted, TypeInv, TablesInv
<1>7. TickInv'
  <2>1. PICK pc \in {"failing", "accepted"} : Goto(pc)
    BY DEF HandoffAccepted
  <2>2. QED
    BY <1>1, <2>1, GotoKeeps DEF TypeInv, Pcs, WithCampaign, WithRecipient
<1>8. QED
  BY <1>5, <1>6, <1>7 DEF HandoffAccepted, TypeInv, TablesInv, TasksInv, TaskInv,
                          tables, counters, Rows

LEMMA RecordSentTypes ==
  ASSUME TypeInv, RecordSent \/ RecordSentThrows
  PROVE  TypeInv'
<1>1. tick.pc = "accepted" /\ tick.pc \in WithRecipient
  BY DEF RecordSent, RecordSentThrows, At, WithRecipient
<1>2. PICK pc \in {"advance", "failing"} : Goto(pc)
  BY DEF RecordSent, RecordSentThrows
<1>3. TickInv'
  BY <1>1, <1>2, GotoKeeps DEF TypeInv, Pcs, WithCampaign, WithRecipient
<1>4. AsSent(letter) \in Message
  BY <1>1, InHandFacts
<1>5. messages' \in Messages
  <2>1. \/ messages' = messages
        \/ messages' = [messages EXCEPT ![tick.mail] = AsSent(letter)]
    BY DEF RecordSent, RecordSentThrows
  <2>2. QED
    BY <1>4, <2>1 DEF Messages, TypeInv, TablesInv
<1>6. faults' \in Nat
  BY DEF RecordSent, RecordSentThrows, TypeInv, TablesInv, counters
<1>7. QED
  BY <1>3, <1>5, <1>6, TickAndMessages DEF RecordSent, RecordSentThrows, counters

LEMMA RecordSendFailedTypes ==
  ASSUME TypeInv, RecordSendFailed
  PROVE  TypeInv'
<1>1. tick.pc = "failing" /\ tick.pc \in WithRecipient
  BY DEF RecordSendFailed, At, WithRecipient
<1>2. AsFailed(letter) \in Message
  BY <1>1, InHandFacts
<1>3. TickInv'
  <2>1. Goto("fail") \/ tick' = Abandoned
    BY DEF RecordSendFailed
  <2>2. CASE Goto("fail")
    BY <1>1, <2>2, GotoKeeps DEF TypeInv, Pcs, WithCampaign, WithRecipient
  <2>3. QED
    BY <2>1, <2>2, AbandonedKeeps DEF TypeInv
<1>4. messages' \in Messages
  BY <1>2 DEF RecordSendFailed, Messages, TypeInv, TablesInv
<1>5. QED
  BY <1>3, <1>4, TickAndMessages DEF RecordSendFailed, TypeInv, TablesInv, counters

-----------------------------------------------------------------------------
\* After the send: the recipient's next step, its cohort, the campaign

LEMMA AdvanceRecipientTypes ==
  ASSUME TypeInv, AdvanceRecipient
  PROVE  TypeInv'
<1> DEFINE rows == [tick.held EXCEPT ![tick.who] = Advanced(row, tick.copy.steps)]
<1>1. tick.pc = "advance" /\ tick.pc \in WithRecipient
  BY DEF AdvanceRecipient, At, WithRecipient
<1>2. /\ tick.who \in Recipients
      /\ row \in RecipientRow
      /\ tick.copy \in CampaignRow
  BY <1>1, InHandFacts
<1>3. Advanced(row, tick.copy.steps) \in RecipientRow
  BY <1>2, AdvancedType DEF CampaignRow
<1>4. /\ rows \in Rows
      /\ rows[tick.who] = Advanced(row, tick.copy.steps)
  BY <1>2, <1>3 DEF TypeInv, TickInv, TickType, Rows
<1>5. TickInv' /\ recipient' \in Rows
  <2>1. CASE Savable(rows)
    <3>1. recipient' \in Rows
      BY <1>4, <2>1, SaveType DEF AdvanceRecipient, TypeInv, TablesInv
    <3>2. CASE row.step < tick.copy.steps
      <4>1. tick' = [tick EXCEPT !.pc = "cohort", !.held = rows]
        BY <2>1, <3>2 DEF AdvanceRecipient
      <4> HIDE DEF rows
      <4>2. /\ tick' \in TickType
            /\ tick'.pc = "cohort"
            /\ tick'.who = tick.who
            /\ tick'.held = rows
            /\ tick'.cur = tick.cur
            /\ tick'.copy = tick.copy
        BY <1>4, <4>1 DEF TypeInv, TickInv, TickType, Pcs, Rows
      <4>3. TickInv'
        BY <1>1, <1>3, <1>4, <4>2
           DEF TypeInv, TickInv, InHandInv, WithCampaign, WithRecipient
      <4>4. QED
        BY <3>1, <4>3
    <3>3. CASE ~(row.step < tick.copy.steps)
      <4>1. Close(TRUE)
        BY <2>1, <3>3 DEF AdvanceRecipient
      <4>2. QED
        BY <1>1, <3>1, <4>1, CloseKeeps DEF TypeInv, WithCampaign
    <3>4. QED
      BY <3>2, <3>3
  <2>2. CASE ~Savable(rows)
    BY <2>2, AbandonedKeeps DEF AdvanceRecipient, TypeInv, TablesInv
  <2>3. QED
    BY <2>1, <2>2
<1>6. QED
  BY <1>5, TickAndRecipients DEF AdvanceRecipient

LEMMA ReadCohortTypes ==
  ASSUME TypeInv, ReadCohort
  PROVE  TypeInv'
<1>1. tick.pc = "cohort" /\ tick.pc \in WithCampaign
  BY DEF ReadCohort, At, WithCampaign, WithRecipient
<1>2. PICK S \in SUBSET Live :
        IF S = {} THEN Close(TRUE)
        ELSE tick' = [tick EXCEPT !.pc = "saveCohort", !.held = Copies(S, AsRead)]
  BY DEF ReadCohort
<1>3. Copies(S, AsRead) \in Rows
  BY CopiesType DEF TypeInv, TablesInv
<1>4. CASE S = {}
  BY <1>1, <1>2, <1>4, CloseKeeps, TickOnly DEF ReadCohort, TypeInv
<1>5. CASE S # {}
  <2>1. TickInv'
    BY <1>1, <1>2, <1>3, <1>5, HoldKeeps DEF TypeInv, Pcs, WithRecipient
  <2>2. QED
    BY <2>1, TickOnly DEF ReadCohort
<1>6. QED
  BY <1>4, <1>5

LEMMA SaveCohortTypes ==
  ASSUME TypeInv, SaveCohort
  PROVE  TypeInv'
<1>1. tick.held \in Rows
  BY DEF TypeInv, TickInv, TickType, Rows
<1>2. tick.pc \in WithCampaign
  BY DEF SaveCohort, At, WithCampaign
<1>3. TickInv' /\ recipient' \in Rows
  <2>1. CASE Savable(tick.held)
    BY <1>1, <1>2, <2>1, SaveType, CloseKeeps DEF SaveCohort, TypeInv, TablesInv
  <2>2. CASE ~Savable(tick.held)
    BY <2>2, AbandonedKeeps DEF SaveCohort, TypeInv, TablesInv
  <2>3. QED
    BY <2>1, <2>2
<1>4. QED
  BY <1>3, TickAndRecipients DEF SaveCohort

LEMMA SaveCampaignTypes ==
  ASSUME TypeInv, NEW closed \in CampaignRow, NEW pc \in {"count", "next"},
         tick.pc \in {"close", "mark"},
         SaveCampaignAs(closed, pc),
         UNCHANGED <<recipient, messages, excluded, history, task, counters>>
  PROVE  TypeInv'
<1>1. tick.cur \in Campaigns
  BY DEF TypeInv, TickInv, InHandInv, WithCampaign
<1>2. TickInv' /\ campaign' \in [Campaigns -> CampaignRow \cup {NoRow}]
  <2>1. CASE CampaignSavable(tick.cur, closed)
    <3>1. campaign' \in [Campaigns -> CampaignRow \cup {NoRow}]
      BY <2>1 DEF SaveCampaignAs, TypeInv, TablesInv
    <3>2. CASE pc = "next"
      BY <2>1, <3>1, <3>2, MovedKeeps DEF SaveCampaignAs, TypeInv
    <3>3. CASE pc = "count"
      <4>1. tick' = [tick EXCEPT !.pc = "count", !.copy = closed]
        BY <2>1, <3>3 DEF SaveCampaignAs
      <4>2. /\ tick' \in TickType
            /\ tick'.pc = "count"
            /\ tick'.cur = tick.cur
            /\ tick'.copy = closed
        BY <4>1 DEF TypeInv, TickInv, TickType, Pcs
      <4>3. QED
        BY <1>1, <3>1, <4>2 DEF TickInv, InHandInv, WithRecipient
    <3>4. QED
      BY <3>2, <3>3
  <2>2. CASE ~CampaignSavable(tick.cur, closed)
    BY <2>2, AbandonedKeeps DEF SaveCampaignAs, TypeInv, TablesInv
  <2>3. QED
    BY <2>1, <2>2
<1>3. QED
  BY <1>2 DEF TypeInv, TablesInv, TasksInv, TaskInv, history, counters, Rows

LEMMA CloseCampaignTypes ==
  ASSUME TypeInv, CloseCampaign \/ MarkCampaignSent
  PROVE  TypeInv'
<1>1. tick.copy \in CampaignRow /\ tick.sent \in BOOLEAN
  BY DEF TypeInv, TickInv, InHandInv, CloseCampaign, MarkCampaignSent, At,
         WithCampaign, TickType
<1>2. CASE CloseCampaign
  <2>1. CampaignAfterTick(tick.copy, tick.sent) \in CampaignRow
    BY <1>1, CampaignRowTypes
  <2>2. QED
    BY <1>2, <2>1, SaveCampaignTypes DEF CloseCampaign, At
<1>3. CASE MarkCampaignSent
  <2>1. [tick.copy EXCEPT !.status = "sent"] \in CampaignRow
    BY <1>1 DEF CampaignRow, CampaignStatuses
  <2>2. QED
    BY <1>3, <2>1, SaveCampaignTypes DEF MarkCampaignSent, At
<1>4. QED
  BY <1>2, <1>3

LEMMA CountIncompleteTypes ==
  ASSUME TypeInv, CountIncomplete
  PROVE  TypeInv'
<1>1. Goto("mark") \/ tick' = Moved
  BY DEF CountIncomplete
<1>2. TickInv'
  <2>1. CASE Goto("mark")
    BY <2>1, GotoKeeps
       DEF CountIncomplete, At, TypeInv, Pcs, WithCampaign, WithRecipient
  <2>2. QED
    BY <1>1, <2>1, MovedKeeps DEF TypeInv
<1>3. QED
  BY <1>2, TickOnly DEF CountIncomplete

LEMMA TickFailsTypes ==
  ASSUME TypeInv, TickFails
  PROVE  TypeInv'
<1>1. TickInv'
  BY AbandonedKeeps DEF TickFails, TypeInv
<1>2. faults' \in Nat
  BY DEF TickFails, TypeInv, TablesInv
<1>3. QED
  BY <1>1, <1>2 DEF TickFails, TypeInv, TablesInv, TasksInv, TaskInv, tables,
                    history, Rows

LEMMA EndTickTypes ==
  ASSUME TypeInv, EndTick
  PROVE  TypeInv'
<1>1. TickInv'
  BY RestingType, Elsewhere DEF EndTick, WithCampaign, WithRecipient
<1>2. QED
  BY <1>1, TickOnly DEF EndTick

LEMMA SchedulerTypes ==
  ASSUME TypeInv, SchedulerStep
  PROVE  TypeInv'
<1>1. CASE StartTick \/ ReadPausedCampaigns \/ ResumeCampaigns \/ LoadCampaigns
           \/ EndTick
  BY <1>1, StartTickTypes, ReadPausedCampaignsTypes, ResumeCampaignsTypes,
     LoadCampaignsTypes, EndTickTypes
<1>2. CASE \E c \in Campaigns :
             SkipCampaign(c) \/ ExhaustedCampaign(c) \/ ProcessCampaign(c)
  BY <1>2, CampaignLoopTypes
<1>3. CASE ResumeRecipients \/ SaveUnscheduled \/ SaveFollowUps
  BY <1>3, SaveHeldTypes
<1>4. CASE \E r \in Recipients : PickRecipient(r)
  BY <1>4, PickRecipientTypes
<1>5. CASE ReadUnscheduled \/ ReadFollowUps \/ PickNobody \/ ReadExclusionList
           \/ BarRecipient \/ FinishRecipient \/ NoSender
  BY <1>5, ReadUnscheduledTypes, ReadFollowUpsTypes, CloseTypes,
     ReadExclusionListTypes, SettleTypes
<1>6. CASE InsertMessage \/ HandoffAtLimit \/ HandoffRefused
           \/ (\E lost \in BOOLEAN : HandoffAccepted(lost))
  BY <1>6, InsertMessageTypes, HandoffAtLimitTypes, HandoffRefusedTypes,
     HandoffAcceptedTypes
<1>7. CASE RecordSent \/ RecordSentThrows \/ RecordSendFailed \/ FailRecipient
           \/ AdvanceRecipient
  BY <1>7, RecordSentTypes, RecordSendFailedTypes, SettleTypes,
     AdvanceRecipientTypes
<1>8. CASE ReadCohort \/ SaveCohort \/ CloseCampaign \/ CountIncomplete
           \/ MarkCampaignSent \/ TickFails
  BY <1>8, ReadCohortTypes, SaveCohortTypes, CloseCampaignTypes,
     CountIncompleteTypes, TickFailsTypes
<1>9. QED
  BY <1>1, <1>2, <1>3, <1>4, <1>5, <1>6, <1>7, <1>8 DEF SchedulerStep

-----------------------------------------------------------------------------
\* The steps of the handlers

LEMMA NoTaskType == NoTask \in TaskType /\ Ready(NoTask)
BY DEF NoTask, TaskType, Stages, Ready

LEMMA SetTask ==
  ASSUME TasksInv, NEW w \in Workers, NEW t \in TaskType, Ready(t),
         task' = [task EXCEPT ![w] = t]
  PROVE  TasksInv'
BY DEF TasksInv, TaskInv

LEMMA DoneKeeps ==
  ASSUME TasksInv, NEW w \in Workers, Done(w)
  PROVE  TasksInv'
BY NoTaskType, SetTask DEF Done

LEMMA ThenKeeps ==
  ASSUME TasksInv, NEW w \in Workers, NEW stage \in Stages, Then(w, stage),
         stage \in {"readRecipient", "exclude", "stopAll", "saveMessage"} =>
           task[w].who \in Recipients,
         stage = "readRecipient" => task[w].op = "recordBounce",
         stage = "saveMessage" =>
           task[w].mail \in MessageIds /\ task[w].note \in Message,
         stage = "replaceChildren" => task[w].camp \in Campaigns,
         stage \in {"readRecipient", "exclude", "stopAll", "saveMessage",
                    "replaceChildren"}
  PROVE  TasksInv'
<1> DEFINE t == [task[w] EXCEPT !.stage = stage]
<1>1. task' = [task EXCEPT ![w] = t]
  BY DEF Then
<1>2. task[w] \in TaskType
  BY DEF TasksInv
<1>3. /\ t \in TaskType
      /\ t.stage = stage
      /\ t.op = task[w].op
      /\ t.who = task[w].who
      /\ t.mail = task[w].mail
      /\ t.note = task[w].note
      /\ t.camp = task[w].camp
  BY <1>2 DEF TaskType
<1>4. Ready(t)
  BY <1>3 DEF Ready
<1>5. QED
  BY <1>1, <1>3, <1>4, SetTask

LEMMA BeginTypes ==
  ASSUME TypeInv, NEW w \in Workers, NEW op, NEW begun,
         begun \in TaskType, Ready(begun), Begin(w, op, begun)
  PROVE  TypeInv'
<1>1. TasksInv'
  BY SetTask DEF Begin, TypeInv
<1>2. requests' \in Nat
  BY DEF Begin, TypeInv, TablesInv
<1>3. QED
  BY <1>1, <1>2 DEF Begin, TypeInv, TablesInv, TickInv, InHandInv, tables,
                    history, Rows

LEMMA EditsTypes ==
  ASSUME TypeInv, NEW w \in Workers, NEW op, op # "recordReply",
         NEW r \in Recipients, NEW edited \in RecipientRow,
         Edits(w, op, r, edited)
  PROVE  TypeInv'
<1> DEFINE begun == [NoTask EXCEPT !.op = op, !.stage = "saveRecipient",
                                   !.who = r, !.edit = edited]
<1>1. op \in Operations /\ Begin(w, op, begun)
  BY DEF Edits, Begin
<1>2. begun \in TaskType /\ Ready(begun)
  BY <1>1 DEF NoTask, TaskType, Stages, Ready
<1>3. QED
  BY <1>1, <1>2, BeginTypes

LEMMA EditsCampaignTypes ==
  ASSUME TypeInv, NEW w \in Workers, NEW op,
         NEW stage \in {"saveCampaign", "reset", "schedule"},
         NEW c \in Campaigns, NEW edited \in CampaignRow,
         EditsCampaign(w, op, stage, c, edited)
  PROVE  TypeInv'
<1> DEFINE begun == [NoTask EXCEPT !.op = op, !.stage = stage, !.camp = c,
                                   !.copy = edited]
<1>1. op \in Operations /\ Begin(w, op, begun)
  BY DEF EditsCampaign, Begin
<1>2. begun \in TaskType /\ Ready(begun)
  BY <1>1 DEF NoTask, TaskType, Stages, Ready
<1>3. QED
  BY <1>1, <1>2, BeginTypes

LEMMA RecipientReadsTypes ==
  ASSUME TypeInv, NEW w \in Workers,
         \/ UpdateRecipient(w) \/ MarkReplyAsRead(w) \/ PauseRecipient(w)
         \/ StopRecipient(w) \/ ResumeRecipient(w)
  PROVE  TypeInv'
<1>1. \A r \in Live : r \in Recipients /\ recipient[r] \in RecipientRow
  BY DEF Live, TypeInv, TablesInv, Rows
<1>2. CASE UpdateRecipient(w)
  <2>1. PICK r \in Live, category \in {"keep", "set", "clear"},
             disposition \in (Dispositions \ {"done"}) \cup {"keep"} :
          Edits(w, "updateRecipient", r,
                Disposed(Categorised(recipient[r], category), disposition))
    BY <1>2 DEF UpdateRecipient
  <2>2. Categorised(recipient[r], category) \in RecipientRow
    BY <1>1, PatchedTypes
  <2>3. Disposed(Categorised(recipient[r], category), disposition) \in RecipientRow
    BY <2>2, PatchedTypes
  <2>4. QED
    BY <1>1, <2>1, <2>3, EditsTypes
<1>3. CASE MarkReplyAsRead(w)
  <2>1. \A r \in Live : Categorised(recipient[r], "set") \in RecipientRow
    BY <1>1, PatchedTypes
  <2>2. QED
    BY <1>1, <1>3, <2>1, EditsTypes DEF MarkReplyAsRead
<1>4. CASE PauseRecipient(w) \/ StopRecipient(w) \/ ResumeRecipient(w)
  <2>1. \A r \in Live : /\ Paused(recipient[r]) \in RecipientRow
                        /\ Stopped(recipient[r]) \in RecipientRow
                        /\ Resumed(recipient[r]) \in RecipientRow
    BY <1>1, RecipientRowTypes
  <2>2. PICK op \in RecipientOperations \ {"recordReply"}, r \in Live :
          \/ Edits(w, op, r, Paused(recipient[r]))
          \/ Edits(w, op, r, Stopped(recipient[r]))
          \/ Edits(w, op, r, Resumed(recipient[r]))
    BY <1>4 DEF PauseRecipient, StopRecipient, ResumeRecipient,
                RecipientOperations
  <2>3. QED
    BY <1>1, <2>1, <2>2, EditsTypes
<1>5. QED
  BY <1>2, <1>3, <1>4

LEMMA AsBouncedType ==
  ASSUME NEW message \in Message
  PROVE  AsBounced(message) \in Message
BY DEF AsBounced, Message

\* The handlers that begin with a message recorded as sent
LEMMA MessageReadsTypes ==
  ASSUME TypeInv, NEW w \in Workers,
         RecordReply(w) \/ RecordOpen(w) \/ RecordBounce(w)
  PROVE  TypeInv'
<1>1. ASSUME NEW m \in MessageIds, messages[m] # NoRow
      PROVE  /\ messages[m] \in Message
             /\ messages[m].to \in Recipients
             /\ AsBounced(messages[m]) \in Message
  <2>1. messages[m] \in Message
    BY <1>1 DEF TypeInv, TablesInv
  <2>2. QED
    BY <2>1, AsBouncedType DEF Message
<1>2. CASE RecordReply(w)
  <2>1. PICK r \in Live, m \in MessageIds :
          /\ messages[m] # NoRow
          /\ Begin(w, "recordReply",
               [NoTask EXCEPT !.op = "recordReply", !.stage = "saveRecipient",
                              !.who = r, !.edit = Replied(recipient[r]),
                              !.mail = m, !.note = messages[m]])
    BY <1>2 DEF RecordReply
  <2> DEFINE edited == Replied(recipient[r])
             begun ==
        [NoTask EXCEPT !.op = "recordReply", !.stage = "saveRecipient",
                       !.who = r, !.edit = edited,
                       !.mail = m, !.note = messages[m]]
  <2>2. r \in Recipients /\ recipient[r] \in RecipientRow
    BY DEF Live, TypeInv, TablesInv, Rows
  <2>3. edited \in RecipientRow
    BY <2>2, RecipientRowTypes
  <2>4. Begin(w, "recordReply", begun) /\ "recordReply" \in Operations
    BY <2>1 DEF Begin
  <2> HIDE DEF edited
  <2>5. begun \in TaskType /\ Ready(begun)
    BY <1>1, <2>1, <2>2, <2>3, <2>4 DEF NoTask, TaskType, Stages, Ready
  <2>6. QED
    BY <2>4, <2>5, BeginTypes
<1>3. ASSUME NEW m \in MessageIds, messages[m] # NoRow, NEW op \in Operations,
             NEW note \in Message,
             Begin(w, op,
               [NoTask EXCEPT !.op = op, !.stage = "saveMessage",
                              !.who = messages[m].to, !.mail = m, !.note = note])
      PROVE  TypeInv'
  <2> DEFINE begun ==
        [NoTask EXCEPT !.op = op, !.stage = "saveMessage",
                       !.who = messages[m].to, !.mail = m, !.note = note]
  <2>1. begun \in TaskType /\ Ready(begun)
    BY <1>1, <1>3 DEF NoTask, TaskType, Stages, Ready
  <2>2. QED
    BY <1>3, <2>1, BeginTypes
<1>4. CASE RecordOpen(w)
  <2>1. PICK m \in MessageIds :
          /\ messages[m] # NoRow
          /\ Begin(w, "recordOpen",
               [NoTask EXCEPT !.op = "recordOpen", !.stage = "saveMessage",
                              !.who = messages[m].to, !.mail = m,
                              !.note = messages[m]])
    BY <1>4 DEF RecordOpen
  <2>2. "recordOpen" \in Operations /\ messages[m] \in Message
    BY <1>1, <2>1 DEF Begin
  <2>3. QED
    BY <1>3, <2>1, <2>2
<1>5. CASE RecordBounce(w)
  <2>1. PICK m \in MessageIds :
          /\ messages[m] # NoRow
          /\ Begin(w, "recordBounce",
               [NoTask EXCEPT !.op = "recordBounce", !.stage = "saveMessage",
                              !.who = messages[m].to, !.mail = m,
                              !.note = AsBounced(messages[m])])
    BY <1>5 DEF RecordBounce
  <2>2. "recordBounce" \in Operations /\ AsBounced(messages[m]) \in Message
    BY <1>1, <2>1 DEF Begin
  <2>3. QED
    BY <1>3, <2>1, <2>2
<1>6. QED
  BY <1>2, <1>4, <1>5

LEMMA OtherBeginsTypes ==
  ASSUME TypeInv, NEW w \in Workers,
         \/ RecordUnsubscribe(w)
         \/ ExcludeRecipientGlobally(w) \/ ExcludeEmail(w)
  PROVE  TypeInv'
<1>1. \A r \in Live : r \in Recipients /\ recipient[r] \in RecipientRow
  BY DEF Live, TypeInv, TablesInv, Rows
<1>2. ASSUME NEW op \in Operations, NEW r \in Recipients,
             Begin(w, op, [NoTask EXCEPT !.op = op, !.who = r, !.stage = "exclude"])
      PROVE  TypeInv'
  <2> DEFINE begun == [NoTask EXCEPT !.op = op, !.who = r, !.stage = "exclude"]
  <2>1. begun \in TaskType /\ Ready(begun)
    BY DEF NoTask, TaskType, Stages, Ready
  <2>2. QED
    BY <1>2, <2>1, BeginTypes
<1>3. CASE RecordUnsubscribe(w)
  <2>1. PICK r \in Live :
          \/ Begin(w, "recordUnsubscribe",
                   [NoTask EXCEPT !.op = "recordUnsubscribe", !.who = r,
                                  !.stage = "exclude"])
          \/ Edits(w, "recordUnsubscribe", r, Unsubscribed(recipient[r]))
    BY <1>3 DEF RecordUnsubscribe
  <2>2. Unsubscribed(recipient[r]) \in RecipientRow
    BY <1>1, RecipientRowTypes
  <2>3. CASE Edits(w, "recordUnsubscribe", r, Unsubscribed(recipient[r]))
    BY <1>1, <2>2, <2>3, EditsTypes
  <2>4. CASE Begin(w, "recordUnsubscribe",
                   [NoTask EXCEPT !.op = "recordUnsubscribe", !.who = r,
                                  !.stage = "exclude"])
    <3>1. "recordUnsubscribe" \in Operations
      BY <2>4 DEF Begin
    <3>2. QED
      BY <1>1, <1>2, <2>4, <3>1
  <2>5. QED
    BY <2>1, <2>3, <2>4
<1>4. CASE ExcludeRecipientGlobally(w)
  <2>1. PICK r \in Recipients :
          Begin(w, "excludeRecipientGlobally",
                [NoTask EXCEPT !.op = "excludeRecipientGlobally", !.who = r,
                               !.stage = "exclude"])
    BY <1>1, <1>4 DEF ExcludeRecipientGlobally
  <2>2. "excludeRecipientGlobally" \in Operations
    BY <2>1 DEF Begin
  <2>3. QED
    BY <1>2, <2>1, <2>2
<1>5. CASE ExcludeEmail(w)
  <2>1. PICK r \in Recipients :
          Begin(w, "excludeEmail",
                [NoTask EXCEPT !.op = "excludeEmail", !.who = r,
                               !.stage = "exclude"])
    BY <1>5 DEF ExcludeEmail
  <2>2. "excludeEmail" \in Operations
    BY <2>1 DEF Begin
  <2>3. QED
    BY <1>2, <2>1, <2>2
<1>6. QED
  BY <1>3, <1>4, <1>5

LEMMA CampaignReadsTypes ==
  ASSUME TypeInv, NEW w \in Workers,
         \/ PauseCampaign(w) \/ StopSender(w) \/ StopCampaign(w)
         \/ ResumeCampaign(w) \/ UpdateStatus(w) \/ Update(w)
         \/ ResetToDraft(w) \/ Schedule(w)
  PROVE  TypeInv'
<1>1. \A c \in Existing : c \in Campaigns /\ campaign[c] \in CampaignRow
  BY DEF Existing, TypeInv, TablesInv
<1>2. CASE PauseCampaign(w) \/ StopSender(w)
  <2>1. PICK op \in CampaignOperations, t \in BOOLEAN, c \in Existing :
          /\ MayPauseCampaign(campaign[c])
          /\ EditsCampaign(w, op, "saveCampaign", c, CampaignPaused(campaign[c], t))
    BY <1>2 DEF PauseCampaign, StopSender, CampaignOperations
  <2>2. CampaignPaused(campaign[c], t) \in CampaignRow
    BY <1>1, <2>1, CampaignRowTypes
  <2>3. QED
    BY <1>1, <2>1, <2>2, EditsCampaignTypes
<1>3. CASE ResumeCampaign(w)
  <2>1. PICK c \in Existing :
          /\ MayResumeCampaign(campaign[c])
          /\ EditsCampaign(w, "resumeCampaign", "saveCampaign", c,
                           CampaignResumed(campaign[c]))
    BY <1>3 DEF ResumeCampaign
  <2>2. CampaignResumed(campaign[c]) \in CampaignRow
    BY <1>1, <2>1, CampaignRowTypes
  <2>3. QED
    BY <1>1, <2>1, <2>2, EditsCampaignTypes
<1>4. CASE StopCampaign(w) \/ UpdateStatus(w) \/ Update(w) \/ ResetToDraft(w)
           \/ Schedule(w)
  <2>1. PICK op \in CampaignOperations,
             stage \in {"saveCampaign", "reset", "schedule"},
             c \in Existing :
          \/ EditsCampaign(w, op, stage, c, CampaignStopped(campaign[c]))
          \/ EditsCampaign(w, op, stage, c, [campaign[c] EXCEPT !.status = "scheduled"])
          \/ EditsCampaign(w, op, stage, c, campaign[c])
          \/ EditsCampaign(w, op, stage, c, CampaignReset(campaign[c]))
          \/ EditsCampaign(w, op, stage, c, CampaignScheduled(campaign[c]))
    BY <1>4 DEF StopCampaign, UpdateStatus, Update, ResetToDraft, Schedule,
                CampaignOperations
  <2>2. /\ CampaignStopped(campaign[c]) \in CampaignRow
        /\ [campaign[c] EXCEPT !.status = "scheduled"] \in CampaignRow
        /\ CampaignReset(campaign[c]) \in CampaignRow
        /\ CampaignScheduled(campaign[c]) \in CampaignRow
    BY <1>1, CampaignRowTypes DEF CampaignStatuses
  <2>3. QED
    BY <1>1, <2>1, <2>2, EditsCampaignTypes
<1>5. QED
  BY <1>2, <1>3, <1>4

LEMMA NewRecipientType ==
  ASSUME NEW timed \in BOOLEAN
  PROVE  NewRecipient(timed) \in RecipientRow
BY RowsAssumption DEF NewRecipient, RecipientRow, Dispositions, Steps

LEMMA AddRecipientTypes ==
  ASSUME TypeInv, NEW w \in Workers, AddRecipient(w) \/ DeleteCampaign(w)
  PROVE  TypeInv'
<1>1. \A c \in Existing : c \in Campaigns /\ campaign[c] \in CampaignRow
  BY DEF Existing, TypeInv, TablesInv
<1>2. CASE AddRecipient(w)
  <2>1. PICK c \in Existing, r \in Recipients :
          Begin(w, "addRecipient",
             [NoTask EXCEPT !.op = "addRecipient", !.stage = "add", !.who = r,
                            !.edit = NewRecipient(campaign[c].launched),
                            !.camp = c, !.copy = campaign[c]])
    BY <1>2 DEF AddRecipient, Unborn, Of
  <2> DEFINE new == NewRecipient(campaign[c].launched)
             begun ==
        [NoTask EXCEPT !.op = "addRecipient", !.stage = "add", !.who = r,
                       !.edit = new, !.camp = c, !.copy = campaign[c]]
  <2>2. new \in RecipientRow
    BY <1>1, NewRecipientType DEF CampaignRow
  <2>3. Begin(w, "addRecipient", begun) /\ "addRecipient" \in Operations
    BY <2>1 DEF Begin
  <2> HIDE DEF new
  <2>4. begun \in TaskType /\ Ready(begun)
    BY <1>1, <2>2, <2>3 DEF NoTask, TaskType, Stages, Ready
  <2>5. QED
    BY <2>3, <2>4, BeginTypes
<1>3. CASE DeleteCampaign(w)
  <2>1. PICK c \in Existing :
          Begin(w, "deleteCampaign",
            [NoTask EXCEPT !.op = "deleteCampaign", !.stage = "delete", !.camp = c])
    BY <1>3 DEF DeleteCampaign
  <2> DEFINE begun ==
        [NoTask EXCEPT !.op = "deleteCampaign", !.stage = "delete", !.camp = c]
  <2>2. begun \in TaskType /\ Ready(begun)
    BY <1>1, <2>1 DEF NoTask, TaskType, Stages, Ready, Begin
  <2>3. QED
    BY <2>1, <2>2, BeginTypes
<1>4. QED
  BY <1>2, <1>3

-----------------------------------------------------------------------------
\* The calls a handler in progress still has to make

LEMMA TickStays ==
  ASSUME TypeInv, tick' = tick
  PROVE  TickInv'
BY DEF TypeInv, TickInv, InHandInv

LEMMA SaveMessageTypes ==
  ASSUME TypeInv, NEW w \in Workers, SaveMessage(w) \/ ReadBounced(w)
  PROVE  TypeInv'
<1>1. TickInv'
  BY TickStays DEF SaveMessage, ReadBounced
<1>2. CASE SaveMessage(w)
  <2>1. /\ task[w].who \in Recipients
        /\ task[w].mail \in MessageIds
        /\ task[w].note \in Message
    BY <1>2 DEF SaveMessage, Stage, TypeInv, TasksInv, TaskInv, Ready
  <2>2. messages' \in Messages
    BY <1>2, <2>1 DEF SaveMessage, TypeInv, TablesInv, Messages
  <2>3. TasksInv'
    BY <1>2, <2>1, ThenKeeps, DoneKeeps DEF SaveMessage, TypeInv, Stages
  <2>4. QED
    BY <1>1, <1>2, <2>2, <2>3
       DEF SaveMessage, TypeInv, TablesInv, Messages, Rows, history, counters
<1>3. CASE ReadBounced(w)
  <2>1. TasksInv'
    <3>1. CASE task[w].who \in Live
      <4> DEFINE edit == Failed(recipient[task[w].who])
                 t == [task[w] EXCEPT !.stage = "saveRecipient", !.edit = edit]
      <4>1. task[w].who \in Recipients /\ recipient[task[w].who] \in RecipientRow
        BY <3>1 DEF Live, TypeInv, TablesInv, Rows
      <4>2. edit \in RecipientRow
        BY <4>1, RecipientRowTypes
      <4>3. task' = [task EXCEPT ![w] = t]
        BY <1>3, <3>1 DEF ReadBounced, TypeInv, TasksInv
      <4>4. task[w] \in TaskType
        BY DEF TypeInv, TasksInv
      <4> HIDE DEF edit
      <4>5. t \in TaskType /\ Ready(t)
        <5>1. task[w].op = "recordBounce"
          BY <1>3 DEF ReadBounced, Stage, TypeInv, TasksInv, TaskInv, Ready
        <5>2. QED
          BY <4>1, <4>2, <4>4, <5>1 DEF TaskType, Stages, Ready
      <4>6. QED
        BY <4>3, <4>5, SetTask DEF TypeInv
    <3>2. CASE task[w].who \notin Live
      BY <1>3, <3>2, DoneKeeps DEF ReadBounced, TypeInv
    <3>3. QED
      BY <3>1, <3>2
  <2>2. QED
    BY <1>1, <1>3, <2>1
       DEF ReadBounced, TypeInv, TablesInv, tables, history, counters, Rows
<1>4. QED
  BY <1>2, <1>3

LEMMA SaveEditTypes ==
  ASSUME TypeInv, NEW w \in Workers, SaveEdit(w)
  PROVE  TypeInv'
<1> DEFINE rows == [NoRows EXCEPT ![task[w].who] = task[w].edit]
<1>1. task[w].who \in Recipients /\ task[w].edit \in RecipientRow
  BY DEF SaveEdit, Stage, TypeInv, TasksInv, TaskInv, Ready
<1>2. rows \in Rows
  BY <1>1, NoRowsType DEF Rows
<1>3. recipient' \in Rows
  BY <1>2, SaveType DEF SaveEdit, TypeInv, TablesInv
<1>4. TasksInv'
  <2>1. CASE Then(w, "exclude") \/ Done(w)
    BY <1>1, <2>1, ThenKeeps, DoneKeeps DEF TypeInv, Stages
  <2>2. CASE Then(w, "saveMessage") /\ task[w].op = "recordReply"
    <3>1. task[w].mail \in MessageIds /\ task[w].note \in Message
      BY <2>2 DEF SaveEdit, Stage, TypeInv, TasksInv, TaskInv, Ready
    <3>2. QED
      BY <1>1, <2>2, <3>1, ThenKeeps DEF TypeInv, Stages
  <2>3. QED
    BY <2>1, <2>2 DEF SaveEdit
<1>5. TickInv'
  BY TickStays DEF SaveEdit
<1>6. QED
  BY <1>3, <1>4, <1>5 DEF SaveEdit, TypeInv, TablesInv, history, counters, Rows

LEMMA ExcludeType ==
  ASSUME TypeInv, NEW e \in Emails, Exclude(e) \/ Readmit(e)
  PROVE  excluded' \subseteq Emails /\ late' \in [Emails -> Nat]
BY DEF Exclude, Readmit, TypeInv, TablesInv

LEMMA ExcludeAddressTypes ==
  ASSUME TypeInv, NEW w \in Workers, ExcludeAddress(w)
  PROVE  TypeInv'
<1> DEFINE e == EmailOf[task[w].who]
<1>1. task[w].who \in Recipients
  BY DEF ExcludeAddress, Stage, TypeInv, TasksInv, TaskInv, Ready
<1>2. e \in Emails
  BY <1>1, RowsAssumption
<1>3. Exclude(e) \/ UNCHANGED <<excluded, late>>
  BY DEF ExcludeAddress
<1>4. excluded' \subseteq Emails /\ late' \in [Emails -> Nat]
  BY <1>2, <1>3, ExcludeType DEF TypeInv, TablesInv
<1>5. Then(w, "stopAll") \/ Done(w)
  BY DEF ExcludeAddress
<1>6. TasksInv'
  BY <1>1, <1>5, ThenKeeps, DoneKeeps DEF TypeInv, Stages
<1>7. TickInv'
  BY TickStays DEF ExcludeAddress
<1>8. QED
  BY <1>4, <1>6, <1>7 DEF ExcludeAddress, TypeInv, TablesInv, counters, Rows

LEMMA StopAllTypes ==
  ASSUME TypeInv, NEW w \in Workers, StopAll(w)
  PROVE  TypeInv'
<1>1. \A r \in Live : Stopped(recipient[r]) \in RecipientRow
  BY RecipientRowTypes DEF Live, TypeInv, TablesInv, Rows
<1>2. recipient' \in Rows
  BY <1>1 DEF StopAll, TypeInv, TablesInv, Rows
<1>3. TasksInv' /\ TickInv'
  BY DoneKeeps, TickStays DEF StopAll, TypeInv
<1>4. QED
  BY <1>2, <1>3 DEF StopAll, TypeInv, TablesInv, history, counters, Rows

CampaignTable == [Campaigns -> CampaignRow \cup {NoRow}]
Lives == [Recipients -> {"unborn", "live", "erased"}]

\* Steps that touch the campaigns, the recipients and their messages
LEMMA TablesAndTask ==
  ASSUME TypeInv, TasksInv', tick' = tick,
         campaign' \in CampaignTable, recipient' \in Rows,
         messages' \in Messages, life' \in Lives,
         UNCHANGED <<excluded, outbox, late, counters>>
  PROVE  TypeInv'
BY TickStays DEF TypeInv, TablesInv, counters, CampaignTable, Rows, Messages, Lives

LEMMA EraseTypes ==
  ASSUME TypeInv, NEW S, Erase(S)
  PROVE  recipient' \in Rows /\ messages' \in Messages
BY DEF Erase, TypeInv, TablesInv, Rows, Messages

LEMMA DiedTypes ==
  ASSUME TypeInv, NEW S
  PROVE  Died(S) \in Lives
BY DEF Died, TypeInv, TablesInv, Lives

LEMMA TableTypes ==
  ASSUME TypeInv
  PROVE  /\ campaign \in CampaignTable
         /\ recipient \in Rows
         /\ messages \in Messages
         /\ life \in Lives
BY DEF TypeInv, TablesInv, CampaignTable, Messages, Lives

\* What a handler of a campaign has in hand
LEMMA CampaignInTask ==
  ASSUME TypeInv, NEW w \in Workers
  PROVE  /\ task[w].stage \in {"saveCampaign", "reset", "schedule", "add"} =>
              task[w].copy \in CampaignRow
         /\ task[w].stage \in {"saveCampaign", "reset", "schedule", "add",
                               "delete", "replaceChildren"} =>
              task[w].camp \in Campaigns
         /\ task[w].stage = "add" =>
              task[w].who \in Recipients /\ task[w].edit \in RecipientRow
BY DEF TypeInv, TasksInv, TaskInv, Ready

LEMMA PutCampaign ==
  ASSUME TypeInv, NEW c, NEW x \in CampaignRow \cup {NoRow}
  PROVE  [campaign EXCEPT ![c] = x] \in CampaignTable
BY DEF TypeInv, TablesInv, CampaignTable

LEMMA SaveCampaignHandlerTypes ==
  ASSUME TypeInv, NEW w \in Workers, SaveCampaign(w)
  PROVE  TypeInv'
<1>1. task[w].copy \in CampaignRow /\ task[w].camp \in Campaigns
  BY CampaignInTask DEF SaveCampaign, Stage
<1>2. campaign' \in CampaignTable
  <2>1. [campaign EXCEPT ![task[w].camp] = task[w].copy] \in CampaignTable
    BY <1>1, PutCampaign
  <2>2. QED
    BY <2>1, TableTypes DEF SaveCampaign
<1>3. Then(w, "replaceChildren") \/ Done(w)
  BY DEF SaveCampaign
<1>4. TasksInv'
  BY <1>1, <1>3, ThenKeeps, DoneKeeps DEF TypeInv, Stages
<1>5. QED
  BY <1>2, <1>4, TablesAndTask, TableTypes DEF SaveCampaign, history

LEMMA ReplaceChildrenTypes ==
  ASSUME TypeInv, NEW w \in Workers, ReplaceChildren(w)
  PROVE  TypeInv'
<1>1. CASE campaign[task[w].camp] # NoRow /\ revision < MaxRevisions
  <2>1. PICK n \in Steps :
          /\ campaign' = [campaign EXCEPT ![task[w].camp].steps = n,
                                          ![task[w].camp].gen = revision + 1]
          /\ revision' = revision + 1
    BY <1>1 DEF ReplaceChildren
  <2>2. task[w].camp \in Campaigns
    BY CampaignInTask DEF ReplaceChildren, Stage
  <2>3. campaign[task[w].camp] \in CampaignRow
    BY <1>1, <2>2 DEF TypeInv, TablesInv
  <2>4. revision + 1 \in 0..MaxRevisions
    BY <1>1, RowsAssumption DEF TypeInv, TablesInv
  <2>5. n \in 0..MaxSteps
    BY RowsAssumption DEF Steps
  <2>6. campaign' \in CampaignTable
    <3> DEFINE c == task[w].camp
               x == [campaign[c] EXCEPT !.steps = n, !.gen = revision + 1]
    <3>1. x \in CampaignRow
      BY <2>3, <2>4, <2>5 DEF CampaignRow
    <3>2. campaign' = [campaign EXCEPT ![c] = x]
      BY <2>1, <2>2 DEF TypeInv, TablesInv
    <3>3. QED
      BY <3>1, <3>2, PutCampaign
  <2>7. TasksInv' /\ TickInv'
    BY DoneKeeps, TickStays DEF ReplaceChildren, TypeInv
  <2>8. QED
    BY <2>1, <2>4, <2>6, <2>7
       DEF ReplaceChildren, TypeInv, TablesInv, CampaignTable, Rows, history
<1>2. CASE ~(campaign[task[w].camp] # NoRow /\ revision < MaxRevisions)
  <2>1. TasksInv'
    BY DoneKeeps DEF ReplaceChildren, TypeInv
  <2>2. QED
    BY <1>2, <2>1, TablesAndTask, TableTypes DEF ReplaceChildren, history, counters
<1>3. QED
  BY <1>1, <1>2

LEMMA SaveResetTypes ==
  ASSUME TypeInv, NEW w \in Workers, SaveReset(w) \/ DeleteById(w)
  PROVE  TypeInv'
<1>1. TasksInv'
  BY DoneKeeps DEF SaveReset, DeleteById, TypeInv
<1>2. CASE SaveReset(w)
  <2>1. task[w].copy \in CampaignRow
    BY <1>2, CampaignInTask DEF SaveReset, Stage
  <2>2. campaign' \in CampaignTable
    <3>1. [campaign EXCEPT ![task[w].camp] = task[w].copy] \in CampaignTable
      BY <2>1, PutCampaign
    <3>2. QED
      BY <1>2, <3>1, TableTypes DEF SaveReset
  <2>3. recipient' \in Rows /\ messages' \in Messages /\ life' \in Lives
    BY <1>2, EraseTypes, DiedTypes, TableTypes DEF SaveReset
  <2>4. QED
    BY <1>1, <1>2, <2>2, <2>3, TablesAndTask DEF SaveReset
<1>3. CASE DeleteById(w)
  <2>1. /\ campaign' \in CampaignTable
        /\ recipient' \in Rows
        /\ messages' \in Messages
        /\ life' \in Lives
    BY <1>3, PutCampaign, EraseTypes, DiedTypes, TableTypes DEF DeleteById
  <2>2. QED
    BY <1>1, <1>3, <2>1, TablesAndTask DEF DeleteById
<1>4. QED
  BY <1>2, <1>3

LEMMA SaveScheduleTypes ==
  ASSUME TypeInv, NEW w \in Workers, SaveSchedule(w)
  PROVE  TypeInv'
<1> DEFINE c == task[w].camp
           old == Live \cap Of(c)
<1>1. TasksInv'
  BY DoneKeeps DEF SaveSchedule, TypeInv
<1>2. task[w].copy \in CampaignRow
  BY CampaignInTask DEF SaveSchedule, Stage
<1>3. CASE c \in Existing /\ CampaignSavable(c, task[w].copy) /\ Unborn(c) # {}
  <2>1. PICK S \in Audiences(c) :
          /\ recipient' = [r \in Recipients |->
                            IF r \in S THEN NewRecipient(TRUE)
                            ELSE IF r \in old THEN NoRow ELSE recipient[r]]
          /\ messages' = [m \in MessageIds |->
                           IF messages[m] # NoRow /\ messages[m].to \in old
                           THEN NoRow ELSE messages[m]]
          /\ life' = [r \in Recipients |->
                       IF r \in S THEN "live" ELSE Died(old)[r]]
          /\ campaign' = [campaign EXCEPT ![c] = task[w].copy]
    BY <1>3 DEF SaveSchedule
  <2>2. recipient' \in Rows
    BY <2>1, NewRecipientType, TableTypes DEF Rows
  <2>3. messages' \in Messages
    BY <2>1, TableTypes DEF Messages
  <2>4. life' \in Lives
    BY <2>1, DiedTypes DEF Lives
  <2>5. campaign' \in CampaignTable
    BY <1>2, <2>1, PutCampaign
  <2>6. QED
    BY <1>1, <2>2, <2>3, <2>4, <2>5, TablesAndTask DEF SaveSchedule
<1>4. CASE ~(c \in Existing /\ CampaignSavable(c, task[w].copy) /\ Unborn(c) # {})
  BY <1>1, <1>4, TablesAndTask, TableTypes DEF SaveSchedule
<1>5. QED
  BY <1>3, <1>4

LEMMA SaveAdditionTypes ==
  ASSUME TypeInv, NEW w \in Workers, SaveAddition(w)
  PROVE  TypeInv'
<1>1. TasksInv'
  BY DoneKeeps DEF SaveAddition, TypeInv
<1>2. task[w].copy \in CampaignRow /\ task[w].edit \in RecipientRow
  BY CampaignInTask DEF SaveAddition, Stage
<1>3. campaign' \in CampaignTable
  <2>1. [campaign EXCEPT ![task[w].camp] = task[w].copy] \in CampaignTable
    BY <1>2, PutCampaign
  <2>2. QED
    BY <2>1, TableTypes DEF SaveAddition
<1>4. recipient' \in Rows /\ life' \in Lives
  BY <1>2, TableTypes DEF SaveAddition, Rows, Lives
<1>5. QED
  BY <1>1, <1>3, <1>4, TablesAndTask, TableTypes DEF SaveAddition

LEMMA HandlerFailsTypes ==
  ASSUME TypeInv, NEW w \in Workers, HandlerFails(w)
  PROVE  TypeInv'
<1>1. TasksInv'
  BY DoneKeeps DEF HandlerFails, TypeInv
<1>2. TickInv'
  BY TickStays DEF HandlerFails
<1>3. faults' \in Nat
  BY DEF HandlerFails, TypeInv, TablesInv
<1>4. QED
  BY <1>1, <1>2, <1>3
     DEF HandlerFails, TypeInv, TablesInv, tables, history, Rows

LEMMA HandlerTypes ==
  ASSUME TypeInv, NEW w \in Workers, HandlerStep(w)
  PROVE  TypeInv'
<1>1. CASE \/ UpdateRecipient(w) \/ MarkReplyAsRead(w) \/ PauseRecipient(w)
           \/ StopRecipient(w) \/ ResumeRecipient(w)
  BY <1>1, RecipientReadsTypes
<1>2. CASE \/ RecordReply(w) \/ RecordOpen(w) \/ RecordBounce(w)
           \/ RecordUnsubscribe(w)
           \/ ExcludeRecipientGlobally(w) \/ ExcludeEmail(w)
  BY <1>2, MessageReadsTypes, OtherBeginsTypes
<1>3. CASE \/ SaveMessage(w) \/ ReadBounced(w) \/ SaveEdit(w)
           \/ ExcludeAddress(w) \/ StopAll(w)
  BY <1>3, SaveMessageTypes, SaveEditTypes, ExcludeAddressTypes, StopAllTypes
<1>4. CASE \/ PauseCampaign(w) \/ StopSender(w) \/ StopCampaign(w)
           \/ ResumeCampaign(w) \/ UpdateStatus(w) \/ Update(w)
           \/ ResetToDraft(w) \/ Schedule(w)
  BY <1>4, CampaignReadsTypes
<1>5. CASE \/ SaveCampaign(w) \/ ReplaceChildren(w) \/ SaveReset(w)
           \/ SaveSchedule(w) \/ AddRecipient(w) \/ SaveAddition(w)
           \/ DeleteCampaign(w) \/ DeleteById(w)
  BY <1>5, SaveCampaignHandlerTypes, ReplaceChildrenTypes, SaveResetTypes,
     SaveScheduleTypes, AddRecipientTypes, SaveAdditionTypes
<1>6. CASE HandlerFails(w)
  BY <1>6, HandlerFailsTypes
<1>7. QED
  BY <1>1, <1>2, <1>3, <1>4, <1>5, <1>6 DEF HandlerStep

LEMMA RemoveExclusionTypes ==
  ASSUME TypeInv, RemoveExclusion
  PROVE  TypeInv'
<1>1. PICK e \in excluded : Readmit(e)
  BY DEF RemoveExclusion
<1>2. excluded' \subseteq Emails /\ late' \in [Emails -> Nat]
  BY <1>1, ExcludeType DEF TypeInv, TablesInv
<1>3. requests' \in Nat
  BY DEF RemoveExclusion, TypeInv, TablesInv
<1>4. TickInv'
  BY TickStays DEF RemoveExclusion
<1>5. QED
  BY <1>2, <1>3, <1>4
     DEF RemoveExclusion, TypeInv, TablesInv, TasksInv, TaskInv, Rows

LEMMA CrashTypes ==
  ASSUME TypeInv, Crash
  PROVE  TypeInv'
<1>1. TickInv'
  BY RestingType, Elsewhere DEF Crash, WithCampaign, WithRecipient
<1>2. TasksInv'
  BY NoTaskType DEF Crash, TasksInv, TaskInv
<1>3. crashes' \in Nat
  BY DEF Crash, TypeInv, TablesInv
<1>4. QED
  BY <1>1, <1>2, <1>3 DEF Crash, TypeInv, TablesInv, tables, history, Rows

-----------------------------------------------------------------------------

LEMMA InitTypes == Init => TypeInv
<1> SUFFICES ASSUME Init PROVE TypeInv
  OBVIOUS
<1>1. campaign \in CampaignTable
  <2>1. PICK n \in Steps, planned \in BOOLEAN :
          campaign = [c \in Campaigns |-> InitialCampaign(c, n, planned)]
    BY DEF Init
  <2>2. ASSUME NEW c \in Campaigns
        PROVE  InitialCampaign(c, n, planned) \in CampaignRow
    <3>1. n \in 0..MaxSteps /\ 0 \in 0..MaxRevisions
      BY RowsAssumption DEF Steps
    <3>2. (c \in Launched \/ planned) \in BOOLEAN
      OBVIOUS
    <3>3. QED
      BY <3>1, <3>2 DEF InitialCampaign, CampaignRow, CampaignStatuses
  <2>3. QED
    BY <2>1, <2>2 DEF CampaignTable
<1>2. recipient \in Rows /\ life \in Lives
  BY NewRecipientType DEF Init, Rows, Lives
<1>3. TickInv
  BY RestingType DEF Init, TickInv, InHandInv, WithCampaign, WithRecipient
<1>4. TasksInv
  BY NoTaskType DEF Init, TasksInv, TaskInv
<1>5. revision \in 0..MaxRevisions
  BY RowsAssumption DEF Init
<1>6. QED
  BY <1>1, <1>2, <1>3, <1>4, <1>5
     DEF Init, TypeInv, TablesInv, CampaignTable, Rows, Lives

LEMMA NextTypes == TypeInv /\ [Next]_vars => TypeInv'
<1> SUFFICES ASSUME TypeInv, [Next]_vars PROVE TypeInv'
  OBVIOUS
<1>1. CASE SchedulerStep
  BY <1>1, SchedulerTypes
<1>2. CASE \E w \in Workers : HandlerStep(w)
  BY <1>2, HandlerTypes
<1>3. CASE RemoveExclusion
  BY <1>3, RemoveExclusionTypes
<1>4. CASE Crash
  BY <1>4, CrashTypes
<1>5. CASE UNCHANGED vars
  BY <1>5, TickStays
     DEF vars, tables, history, counters, TypeInv, TablesInv, TasksInv, TaskInv, Rows
<1>6. QED
  BY <1>1, <1>2, <1>3, <1>4, <1>5 DEF Next

\* Every column of every table, every copy a handler holds and everything the
\* scheduler run has in hand has a value of its type at all times, and at each
\* control location the things the next call needs are there.
THEOREM TypesHold == Spec => []TypeInv
BY InitTypes, NextTypes, PTL DEF Spec

\* The rows in the tables and the copies in memory are always well formed,
\* whichever handlers interleave with processCampaign.
THEOREM TypeCorrect == Spec => []TypeOK
<1>1. TypeInv => TypeOK
  BY DEF TypeInv, TablesInv, TickInv, TasksInv, TypeOK, Rows
<1>2. QED
  BY <1>1, TypesHold, PTL
============================================================================
