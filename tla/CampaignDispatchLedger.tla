----------------------- MODULE CampaignDispatchLedger -----------------------
(***************************************************************************)
(* Proof that the message table covers what the mail provider accepted:    *)
(* every accepted email of a recipient that was not deleted has its row,   *)
(* no row says sent or bounced of an email that was refused, and no        *)
(* outcome is ever undone.                                                 *)
(*                                                                         *)
(* The hard part are the message rows that the open, reply and bounce      *)
(* handlers hold while the tick inserts, removes and updates rows of the   *)
(* same table.  What saves them is that they only ever hold rows of        *)
(* accepted emails, and that the tick removes a row only before its email  *)
(* is accepted.  Deletions come in through the ids: a recipient id is      *)
(* never reused, so whoever still holds a row of a deleted recipient       *)
(* cannot make it count as not deleted.                                    *)
(***************************************************************************)
EXTENDS CampaignDispatchOrder

-----------------------------------------------------------------------------
(***************************************************************************)
(* Where recipient rows come from: the scheduler makes none up, and what   *)
(* it does to a row neither counts the step back nor reopens a recipient   *)
(* that is completed or failed.                                            *)
(***************************************************************************)
NotBehind(y, x) == y.step >= x.step /\ (Unfinished(y) => Unfinished(x))

Descends(y, r) ==
  \/ recipient[r] # NoRow /\ NotBehind(y, recipient[r])
  \/ tick.held[r] # NoRow /\ NotBehind(y, tick.held[r])

RowsDescend ==
  \A r \in Recipients : recipient'[r] # NoRow => Descends(recipient'[r], r)

HeldDescend ==
  \A r \in Recipients : tick'.held[r] # NoRow => Descends(tick'.held[r], r)

LEMMA NeverBehind ==
  ASSUME NEW x \in RecipientRow
  PROVE  /\ NotBehind(x, x)
         /\ NotBehind(Resumed(x), x)
         /\ NotBehind(Stopped(x), x)
         /\ NotBehind(Failed(x), x)
         /\ NotBehind(Barred(x), x)
         /\ NotBehind(OutOfSteps(x), x)
         /\ NotBehind([x EXCEPT !.timed = TRUE], x)
<1>1. x.step \in Nat
  BY DEF RecipientRow, Steps
<1>2. ASSUME NEW y \in {x, Resumed(x), Stopped(x), Failed(x), Barred(x),
                        OutOfSteps(x), [x EXCEPT !.timed = TRUE]}
      PROVE  y.step = x.step /\ (Unfinished(y) => Unfinished(x))
  BY <1>2 DEF RecipientRow, Resumed, Stopped, Failed, Barred, OutOfSteps,
              Unfinished
<1>3. QED
  BY <1>1, <1>2 DEF NotBehind

LEMMA RowDescends ==
  ASSUME TypeInv, NEW r \in Recipients
  PROVE  /\ recipient[r] # NoRow =>
              recipient[r] \in RecipientRow /\ Descends(recipient[r], r)
         /\ tick.held[r] # NoRow =>
              tick.held[r] \in RecipientRow /\ Descends(tick.held[r], r)
<1>1. /\ recipient[r] # NoRow => recipient[r] \in RecipientRow
      /\ tick.held[r] # NoRow => tick.held[r] \in RecipientRow
  BY DEF TypeInv, TablesInv, Rows, TickInv, TickType
<1>2. QED
  BY <1>1, NeverBehind DEF Descends

\* Copies of rows of the table, as they are or as their readers edit them
LEMMA CopiesDescend ==
  ASSUME TypeInv, NEW S \in SUBSET Live, NEW rows,
         \/ rows = Copies(S, AsRead)
         \/ rows = Copies(S, Resumed)
         \/ rows = [r \in Recipients |->
                     IF r \in S THEN [recipient[r] EXCEPT !.timed = TRUE] ELSE NoRow],
         tick'.held = rows
  PROVE  HeldDescend
<1>1. ASSUME NEW r \in S
      PROVE  /\ r \in Recipients /\ recipient[r] # NoRow
             /\ NotBehind(recipient[r], recipient[r])
             /\ NotBehind(Resumed(recipient[r]), recipient[r])
             /\ NotBehind([recipient[r] EXCEPT !.timed = TRUE], recipient[r])
  BY RowDescends, NeverBehind DEF Live
<1>2. QED
  BY <1>1 DEF HeldDescend, Copies, Descends, AsRead

LEMMA SaveDescends ==
  ASSUME TypeInv, NEW rows, Save(rows),
         \A r \in Recipients : rows[r] # NoRow => Descends(rows[r], r)
  PROVE  RowsDescend
BY RowDescends DEF RowsDescend, Save

LEMMA RowsKept ==
  ASSUME TypeInv, recipient' = recipient
  PROVE  RowsDescend
BY RowDescends DEF RowsDescend

LEMMA HeldKept ==
  ASSUME TypeInv, tick'.held = tick.held
  PROVE  HeldDescend
BY RowDescends DEF HeldDescend

LEMMA NoneHeld ==
  ASSUME EmptyHanded
  PROVE  HeldDescend
BY DEF EmptyHanded, HeldDescend, NoRows

-----------------------------------------------------------------------------
\* The steps of the scheduler that leave every message and email alone

LetterPcs == {"handoff", "accepted", "failing"}

\* What such a step may do
NoLetter ==
  /\ messages' = messages /\ outbox' = outbox
  /\ tick'.pc \notin LetterPcs
  /\ RowsDescend /\ HeldDescend

LEMMA LetGoNoLetter ==
  ASSUME TypeInv, EmptyHanded, RowsDescend, messages' = messages, outbox' = outbox
  PROVE  NoLetter
BY NoneHeld DEF EmptyHanded, NoLetter, LetterPcs, WithRecipient

LEMMA LoopNoLetter ==
  ASSUME TypeInv,
         \/ LoadCampaigns \/ ReadPausedCampaigns \/ ResumeCampaigns \/ EndTick
         \/ CountIncomplete \/ CloseCampaign \/ MarkCampaignSent
         \/ PickNobody \/ NoSender \/ TickFails
         \/ \E c \in Campaigns :
              SkipCampaign(c) \/ ExhaustedCampaign(c) \/ ProcessCampaign(c)
  PROVE  NoLetter /\ tick'.pc \notin WithRecipient
<1>1. recipient' = recipient /\ messages' = messages /\ outbox' = outbox
  BY DEF LoadCampaigns, ReadPausedCampaigns, ResumeCampaigns, EndTick,
         CountIncomplete, CloseCampaign, MarkCampaignSent, PickNobody, NoSender,
         TickFails, SkipCampaign, ExhaustedCampaign, ProcessCampaign, tables,
         history
<1>2. tick \in TickType
  BY DEF TypeInv, TickInv
<1>3. CASE EmptyHanded
  BY <1>1, <1>3, RowsKept, LetGoNoLetter DEF EmptyHanded
<1>4. CASE ~EmptyHanded
  <2>1. tick'.held = tick.held /\ tick'.pc \notin WithRecipient
    <3>1. CASE LoadCampaigns \/ CountIncomplete
      BY <1>2, <1>4, <3>1, LetGo
         DEF LoadCampaigns, CountIncomplete, Goto, TickType, WithRecipient
    <3>2. CASE ReadPausedCampaigns
      <4>1. PICK pc \in {"load", "unpause"} :
              \E todo : tick' = [tick EXCEPT !.pc = pc, !.todo = todo]
        BY <1>4, <3>2, LetGo DEF ReadPausedCampaigns
      <4>2. QED
        BY <1>2, <4>1 DEF TickType, WithRecipient
    <3>3. CASE CloseCampaign \/ MarkCampaignSent
      <4>1. PICK closed : tick' = [tick EXCEPT !.pc = "count", !.copy = closed]
        BY <1>4, <3>3, LetGo DEF CloseCampaign, MarkCampaignSent, SaveCampaignAs
      <4>2. QED
        BY <1>2, <4>1 DEF TickType, WithRecipient
    <3>4. CASE ResumeCampaigns
      BY <1>4, <3>4 DEF ResumeCampaigns, Resting, EmptyHanded, WithRecipient
    <3>5. CASE EndTick \/ PickNobody \/ NoSender \/ TickFails
      BY <1>4, <3>5, LetGo DEF EndTick, PickNobody, NoSender, TickFails
    <3>6. CASE \E c \in Campaigns :
                 SkipCampaign(c) \/ ExhaustedCampaign(c) \/ ProcessCampaign(c)
      <4>1. PICK c \in Campaigns :
              SkipCampaign(c) \/ ExhaustedCampaign(c) \/ ProcessCampaign(c)
        BY <3>6
      <4>2. CASE SkipCampaign(c)
        BY <1>2, <4>2 DEF SkipCampaign, At, TickType, WithRecipient
      <4>3. CASE ~SkipCampaign(c)
        <5>1. InHand(c, "close") \/ InHand(c, "seed")
          BY <4>1, <4>3 DEF ExhaustedCampaign, ProcessCampaign
        <5>2. QED
          BY <1>2, <5>1 DEF InHand, TickType, WithRecipient
      <4>4. QED
        BY <4>2, <4>3
    <3>7. QED
      BY <3>1, <3>2, <3>3, <3>4, <3>5, <3>6
  <2>2. QED
    BY <1>1, <2>1, RowsKept, HeldKept DEF NoLetter, WithRecipient, LetterPcs
<1>5. QED
  BY <1>3, <1>4

LEMMA ReadsNoLetter ==
  ASSUME TypeInv, StartTick \/ ReadUnscheduled \/ ReadFollowUps \/ ReadCohort
  PROVE  NoLetter /\ tick'.pc \notin WithRecipient
<1>1. recipient' = recipient /\ messages' = messages /\ outbox' = outbox
  BY DEF StartTick, ReadUnscheduled, ReadFollowUps, ReadCohort, tables, history
<1>2. tick \in TickType
  BY DEF TypeInv, TickInv
<1>3. HeldDescend /\ tick'.pc \notin WithRecipient
  <2>1. CASE StartTick
    <3>1. PICK S \in SUBSET Live, pc \in {"reread", "resume"} :
            tick' = [Resting EXCEPT !.pc = pc, !.held = Copies(S, Resumed)]
      BY <2>1 DEF StartTick
    <3>2. tick'.held = Copies(S, Resumed) /\ tick'.pc = pc
      BY <3>1, RestingType DEF TickType
    <3>3. QED
      BY <3>2, CopiesDescend DEF WithRecipient
  <2>2. CASE ReadUnscheduled
    <3> DEFINE Scheduled(r) == [r EXCEPT !.timed = TRUE]
    <3>1. PICK S \in SUBSET Live, pc \in {"spread", "saveSeed"} :
            tick' = [tick EXCEPT !.pc = pc, !.held = Copies(S, Scheduled)]
      BY <2>2 DEF ReadUnscheduled
    <3>2. tick'.held = Copies(S, Scheduled) /\ tick'.pc = pc
      BY <1>2, <3>1 DEF TickType
    <3>3. QED
      BY <3>2, CopiesDescend DEF WithRecipient, Copies
  <2>3. CASE ReadFollowUps
    <3>1. PICK S \in SUBSET Live, pc \in {"pick", "saveSpread"} :
            tick' = [tick EXCEPT !.pc = pc, !.held = Copies(S, AsRead)]
      BY <2>3 DEF ReadFollowUps
    <3>2. tick'.held = Copies(S, AsRead) /\ tick'.pc = pc
      BY <1>2, <3>1 DEF TickType
    <3>3. QED
      BY <3>2, CopiesDescend DEF WithRecipient
  <2>4. CASE ReadCohort
    <3>1. PICK S \in SUBSET Live :
            IF S = {} THEN Close(TRUE)
            ELSE tick' = [tick EXCEPT !.pc = "saveCohort",
                                      !.held = Copies(S, AsRead)]
      BY <2>4 DEF ReadCohort
    <3>2. CASE S = {}
      BY <3>1, <3>2, LetGo, NoneHeld DEF EmptyHanded, WithRecipient
    <3>3. CASE S # {}
      <4>1. tick'.held = Copies(S, AsRead) /\ tick'.pc = "saveCohort"
        BY <1>2, <3>1, <3>3 DEF TickType
      <4>2. QED
        BY <4>1, CopiesDescend DEF WithRecipient
    <3>4. QED
      BY <3>2, <3>3
  <2>5. QED
    BY <2>1, <2>2, <2>3, <2>4
<1>4. QED
  BY <1>1, <1>3, RowsKept DEF NoLetter, WithRecipient, LetterPcs

LEMMA SavesNoLetter ==
  ASSUME TypeInv,
         ResumeRecipients \/ SaveUnscheduled \/ SaveFollowUps \/ SaveCohort
  PROVE  NoLetter /\ EmptyHanded
<1>1. messages' = messages /\ outbox' = outbox
  BY DEF ResumeRecipients, SaveUnscheduled, SaveFollowUps, SaveCohort, history
<1>2. RowsDescend
  <2>1. Save(tick.held) \/ recipient' = recipient
    BY DEF ResumeRecipients, SaveUnscheduled, SaveFollowUps, SaveCohort, SaveHeld
  <2>2. QED
    BY <2>1, SaveDescends, RowDescends, RowsKept
<1>3. EmptyHanded
  <2>1. CASE SaveCohort
    BY <2>1, LetGo DEF SaveCohort
  <2>2. CASE ResumeRecipients \/ SaveUnscheduled \/ SaveFollowUps
    <3>1. PICK pc \in {"reread", "spread", "pick"} : SaveHeld(pc)
      BY <2>2 DEF ResumeRecipients, SaveUnscheduled, SaveFollowUps
    <3>2. \/ tick' = [tick EXCEPT !.pc = pc, !.held = NoRows]
          \/ tick' = Abandoned
      BY <3>1 DEF SaveHeld
    <3>3. tick' = [tick EXCEPT !.pc = pc, !.held = NoRows] => EmptyHanded
      BY <3>1 DEF EmptyHanded, WithRecipient, TypeInv, TickInv, TickType
    <3>4. QED
      BY <3>2, <3>3, LetGo
  <2>3. QED
    BY <2>1, <2>2
<1>4. QED
  BY <1>1, <1>2, <1>3, LetGoNoLetter

\* The row in hand is saved as settled; the others held are saved as they are.
LEMMA SettlesNoLetter ==
  ASSUME TypeInv, BarRecipient \/ FinishRecipient \/ FailRecipient
  PROVE  NoLetter /\ EmptyHanded
<1>1. messages' = messages /\ outbox' = outbox
  BY DEF BarRecipient, FinishRecipient, FailRecipient, history
<1>2. tick.who \in Recipients /\ row \in RecipientRow
  BY InHandFacts
     DEF BarRecipient, FinishRecipient, FailRecipient, At, WithRecipient
<1>3. PICK settled \in {Barred(row), OutOfSteps(row), Failed(row)} : Settle(settled)
  BY DEF BarRecipient, FinishRecipient, FailRecipient
<1>4. Descends(settled, tick.who)
  BY <1>2, <1>3, NeverBehind, NoRowAssumption DEF Descends, row
<1> DEFINE rows == [tick.held EXCEPT ![tick.who] = settled]
<1>5. \A r \in Recipients : rows[r] # NoRow => Descends(rows[r], r)
  BY <1>4, RowDescends DEF TypeInv, TickInv, TickType
<1>6. \/ Save(rows) /\ Close(FALSE)
      \/ tick' = Abandoned /\ recipient' = recipient
  BY <1>3 DEF Settle
<1> HIDE DEF rows
<1>7. RowsDescend /\ EmptyHanded
  BY <1>5, <1>6, SaveDescends, RowsKept, LetGo
<1>8. QED
  BY <1>1, <1>7, LetGoNoLetter

LEMMA PickNoLetter ==
  ASSUME TypeInv, NEW r \in Recipients, PickRecipient(r)
  PROVE  /\ NoLetter
         /\ tick'.pc = "screen" /\ tick'.who = r
         /\ recipient' = recipient
         /\ row' = recipient[r]
         /\ \A q \in Recipients \ {r} : tick'.held[q] = NoRow
<1>1. recipient' = recipient /\ messages' = messages /\ outbox' = outbox
  BY DEF PickRecipient, tables, history
<1> DEFINE rows == [NoRows EXCEPT ![r] = recipient[r]]
<1>2. /\ tick'.held = rows
      /\ tick'.who = r
      /\ tick'.pc = "screen"
  BY DEF PickRecipient, TypeInv, TickInv, TickType
<1>3. /\ rows[r] = recipient[r]
      /\ \A q \in Recipients \ {r} : rows[q] = NoRow
  BY DEF NoRows
<1> HIDE DEF rows
<1>4. recipient[r] # NoRow
  BY DEF PickRecipient, Candidates, Live
<1>5. HeldDescend
  BY <1>2, <1>3, <1>4, RowDescends DEF HeldDescend
<1>6. QED
  BY <1>1, <1>2, <1>3, <1>5, RowsKept DEF NoLetter, LetterPcs, row

LEMMA ScreenNoLetter ==
  ASSUME TypeInv, ReadExclusionList
  PROVE  NoLetter /\ SameInHand /\ recipient' = recipient /\ tick'.pc = "prepare"
<1>1. recipient' = recipient /\ messages' = messages /\ outbox' = outbox
  BY DEF ReadExclusionList, tables, history
<1>2. SameInHand /\ tick'.pc = "prepare"
  BY DEF ReadExclusionList, SameInHand, TypeInv, TickInv, TickType
<1>3. QED
  BY <1>1, <1>2, RowsKept, HeldKept DEF NoLetter, SameInHand, LetterPcs

\* The save that counts the step up
Onward == [tick.held EXCEPT ![tick.who] = Advanced(row, tick.copy.steps)]

LEMMA AdvanceFacts ==
  ASSUME TypeInv, AdvanceRecipient
  PROVE  /\ messages' = messages /\ outbox' = outbox
         /\ tick'.pc \notin LetterPcs
         /\ tick.who \in Recipients /\ row \in RecipientRow
         /\ Onward[tick.who] = Advanced(row, tick.copy.steps)
         /\ \A r \in Recipients \ {tick.who} : Onward[r] = tick.held[r]
         /\ \/ Savable(Onward) /\ Save(Onward)
            \/ ~Savable(Onward) /\ recipient' = recipient /\ EmptyHanded
         /\ \/ EmptyHanded
            \/ tick'.pc = "cohort" /\ tick'.who = tick.who /\ tick'.held = Onward
<1>1. messages' = messages /\ outbox' = outbox
  BY DEF AdvanceRecipient, history
<1>2. tick.who \in Recipients /\ row \in RecipientRow
  BY InHandFacts DEF AdvanceRecipient, At, WithRecipient
<1>3. /\ Onward[tick.who] = Advanced(row, tick.copy.steps)
      /\ \A r \in Recipients \ {tick.who} : Onward[r] = tick.held[r]
  BY <1>2 DEF Onward, TypeInv, TickInv, TickType
<1>4. \/ Savable(Onward) /\ Save(Onward)
      \/ ~Savable(Onward) /\ recipient' = recipient /\ EmptyHanded
  BY LetGo DEF AdvanceRecipient, Onward
<1>5. \/ EmptyHanded
      \/ tick'.pc = "cohort" /\ tick'.who = tick.who /\ tick'.held = Onward
  <2>1. CASE ~EmptyHanded
    <3>1. tick' = [tick EXCEPT !.pc = "cohort", !.held = Onward]
      BY <2>1, LetGo DEF AdvanceRecipient, Onward
    <3>2. QED
      BY <3>1 DEF TypeInv, TickInv, TickType
  <2>2. QED
    BY <2>1
<1>6. tick'.pc \notin LetterPcs
  BY <1>5 DEF EmptyHanded, WithRecipient, LetterPcs
<1>7. QED
  BY <1>1, <1>2, <1>3, <1>4, <1>5, <1>6

-----------------------------------------------------------------------------
\* The steps of the scheduler with a message in hand

LEMMA LetterFacts ==
  ASSUME TypeInv, tick.pc \in LetterPcs
  PROVE  /\ tick.who \in Recipients /\ row \in RecipientRow /\ row.step \in Steps
         /\ tick.mail \in MessageIds
         /\ letter \in Message /\ AsSent(letter) \in Message
         /\ AsFailed(letter) \in Message
         /\ EmailUnder(tick.mail, letter)
              = [id |-> tick.mail, to |-> tick.who, step |-> row.step]
<1>1. tick.pc \in WithRecipient /\ tick.mail \in MessageIds
  BY DEF TypeInv, TickInv, InHandInv, LetterPcs, WithRecipient
<1>2. QED
  BY <1>1, InHandFacts DEF RecipientRow, EmailUnder, letter

LEMMA LetterFields ==
  /\ letter.to = tick.who /\ letter.step = row.step /\ letter.status = "pending"
  /\ AsSent(letter).to = tick.who /\ AsSent(letter).step = row.step
  /\ AsSent(letter).status = "sent"
  /\ AsFailed(letter).to = tick.who /\ AsFailed(letter).step = row.step
  /\ AsFailed(letter).status = "failed"
BY DEF letter, AsSent, AsFailed

\* The message goes on to pc with the same recipient and message in hand.
LEMMA GotoInHand ==
  ASSUME TypeInv, NEW pc, Goto(pc)
  PROVE  /\ SameInHand /\ tick'.mail = tick.mail /\ tick'.pc = pc
         /\ row' = row /\ letter' = letter
BY DEF Goto, SameInHand, TypeInv, TickInv, TickType, row, letter

\* No step of the scheduler touches the handlers or creates recipients.
LEMMA SchedulerAside ==
  ASSUME SchedulerStep
  PROVE  task' = task /\ life' = life
<1>1. CASE \/ StartTick \/ ResumeRecipients \/ ReadPausedCampaigns
           \/ ResumeCampaigns \/ LoadCampaigns \/ EndTick
           \/ \E c \in Campaigns :
                SkipCampaign(c) \/ ExhaustedCampaign(c) \/ ProcessCampaign(c)
  BY <1>1 DEF StartTick, ResumeRecipients, ReadPausedCampaigns,
              ResumeCampaigns, LoadCampaigns, EndTick, SkipCampaign,
              ExhaustedCampaign, ProcessCampaign, history
<1>2. CASE \/ ReadUnscheduled \/ SaveUnscheduled \/ ReadFollowUps
           \/ SaveFollowUps \/ (\E r \in Recipients : PickRecipient(r))
           \/ PickNobody \/ ReadExclusionList \/ BarRecipient
           \/ FinishRecipient \/ NoSender \/ InsertMessage
  BY <1>2 DEF ReadUnscheduled, SaveUnscheduled, ReadFollowUps,
              SaveFollowUps, PickRecipient, PickNobody, ReadExclusionList,
              BarRecipient, FinishRecipient, NoSender, InsertMessage, history
<1>3. CASE \/ HandoffAtLimit \/ HandoffRefused \/ RecordSent \/ RecordSentThrows
           \/ RecordSendFailed \/ FailRecipient \/ AdvanceRecipient
           \/ (\E lost \in BOOLEAN : HandoffAccepted(lost))
           \/ ReadCohort \/ SaveCohort \/ CloseCampaign \/ CountIncomplete
           \/ MarkCampaignSent \/ TickFails
  BY <1>3 DEF HandoffAtLimit, HandoffRefused, RecordSent, HandoffAccepted,
              RecordSentThrows, RecordSendFailed, FailRecipient,
              AdvanceRecipient, ReadCohort, SaveCohort, CloseCampaign,
              CountIncomplete, MarkCampaignSent, TickFails, history
<1>4. QED
  BY <1>1, <1>2, <1>3 DEF SchedulerStep

LetterStep ==
  \/ InsertMessage \/ HandoffAtLimit \/ HandoffRefused
  \/ \E lost \in BOOLEAN : HandoffAccepted(lost)
  \/ RecordSent \/ RecordSentThrows \/ RecordSendFailed

LEMMA LetterStepRows ==
  ASSUME TypeInv, LetterStep
  PROVE  recipient' = recipient /\ (EmptyHanded \/ (SameInHand /\ row' = row))
<1>1. recipient' = recipient
  BY DEF LetterStep, InsertMessage, HandoffAtLimit, HandoffRefused,
         HandoffAccepted, RecordSent, RecordSentThrows, RecordSendFailed, tables
<1>2. CASE \E pc : Goto(pc)
  BY <1>2, GotoInHand, <1>1
<1>3. CASE ~ \E pc : Goto(pc)
  <2>1. \/ tick' = Abandoned \/ Close(FALSE)
        \/ tick' = [tick EXCEPT !.pc = "handoff", !.mail = FreshId]
    BY <1>3 DEF LetterStep, InsertMessage, HandoffAtLimit, HandoffRefused,
                HandoffAccepted, RecordSent, RecordSentThrows, RecordSendFailed
  <2>2. tick' = [tick EXCEPT !.pc = "handoff", !.mail = FreshId]
          => SameInHand /\ row' = row
    BY DEF TypeInv, TickInv, TickType, SameInHand, row
  <2>3. CASE tick' = Abandoned \/ Close(FALSE)
    BY <1>1, <2>3, LetGo
  <2>4. CASE tick' = [tick EXCEPT !.pc = "handoff", !.mail = FreshId]
    BY <1>1, <2>2, <2>4
  <2>5. QED
    BY <2>1, <2>3, <2>4
<1>4. QED
  BY <1>2, <1>3

LEMMA SchedulerCases ==
  ASSUME TypeInv, SchedulerStep
  PROVE  NoLetter \/ AdvanceRecipient \/ LetterStep
BY LoopNoLetter, ReadsNoLetter, SavesNoLetter, SettlesNoLetter, PickNoLetter,
   ScreenNoLetter DEF SchedulerStep, LetterStep

LEMMA SchedulerUnsent ==
  ASSUME TypeInv, SchedulerStep, ~ \E lost \in BOOLEAN : HandoffAccepted(lost)
  PROVE  outbox' = outbox
<1>1. LetterStep => outbox' = outbox
  BY DEF LetterStep, InsertMessage, HandoffAtLimit, HandoffRefused, RecordSent,
         RecordSentThrows, RecordSendFailed, history
<1>2. QED
  BY <1>1, SchedulerCases, AdvanceFacts DEF NoLetter

-----------------------------------------------------------------------------
\* Whoever has a row was born: the scheduler

HasRow(r) == recipient[r] # NoRow \/ tick.held[r] # NoRow

LEMMA SchedulerRows ==
  ASSUME TypeInv, SchedulerStep, NEW r \in Recipients, HasRow(r)'
  PROVE  HasRow(r)
<1>1. CASE NoLetter
  BY <1>1 DEF NoLetter, RowsDescend, HeldDescend, Descends, HasRow
<1>2. CASE AdvanceRecipient
  <2>1. \A q \in Recipients : Onward[q] # NoRow => HasRow(q)
    BY <1>2, AdvanceFacts, NoRowAssumption DEF HasRow, row
  <2>2. recipient'[r] # NoRow => HasRow(r)
    BY <1>2, <2>1, AdvanceFacts DEF Save, HasRow
  <2>3. tick'.held[r] # NoRow => HasRow(r)
    BY <1>2, <2>1, AdvanceFacts DEF EmptyHanded, NoRows
  <2>4. QED
    BY <2>2, <2>3 DEF HasRow
<1>3. CASE LetterStep
  BY <1>3, LetterStepRows DEF HasRow, SameInHand, EmptyHanded, NoRows
<1>4. QED
  BY <1>1, <1>2, <1>3, SchedulerCases

LEMMA SchedulerBorn ==
  ASSUME TypeInv, BornInv, SchedulerStep
  PROVE  BornInv'
<1>1. task' = task /\ life' = life
  BY SchedulerAside
<1>2. \A r \in Recipients : HasRow(r)' => Born(r)'
  BY <1>1, SchedulerRows DEF BornInv, HasRow, Born
<1>3. \A x \in outbox' : Born(x.to)'
  <2>1. CASE \E lost \in BOOLEAN : HandoffAccepted(lost)
    <3>1. tick.pc \in LetterPcs
          /\ outbox' = outbox \cup {[id |-> tick.mail, to |-> tick.who,
                                    step |-> row.step]}
      BY <2>1 DEF HandoffAccepted, At, LetterPcs
    <3>2. Born(tick.who)
      BY <3>1, LetterFacts, NoRowAssumption DEF BornInv, row
    <3>3. QED
      BY <1>1, <3>1, <3>2 DEF BornInv, Born
  <2>2. CASE ~ \E lost \in BOOLEAN : HandoffAccepted(lost)
    BY <1>1, <2>2, SchedulerUnsent DEF BornInv, Born
  <2>3. QED
    BY <2>1, <2>2
<1>4. QED
  BY <1>1, <1>2, <1>3 DEF BornInv, HasRow, Born

-----------------------------------------------------------------------------
(***************************************************************************)
(* The ledger itself.  The parts that speak of the tables and the handlers *)
(* are kept when messages and emails stay, whatever the tick does.         *)
(***************************************************************************)
OneIdEach == \A x, y \in outbox : x.id = y.id => x = y

LEMMA QuietLedger ==
  ASSUME LedgerInv, BornInv', messages' = messages, outbox' = outbox,
         task' = task, life' = life, tick'.pc \notin LetterPcs
  PROVE  LedgerInv'
<1>1. LetterInHand'
  BY DEF LetterInHand, LetterPcs
<1>2. NotesAreAccepted' /\ LedgerCoversEmails' /\ SentWasAccepted'
  BY DEF LedgerInv, NotesAreAccepted, LedgerCoversEmails, SentWasAccepted,
         EmailUnder
<1>3. QED
  BY <1>1, <1>2 DEF LedgerInv

LEMMA InsertLedger ==
  ASSUME TypeInv, LedgerInv, BornInv', InsertMessage, task' = task
  PROVE  LedgerInv'
<1>1. outbox' = outbox /\ life' = life /\ recipient' = recipient
  BY DEF InsertMessage, history
<1>2. CASE ~MessageSavable(letter)
  <2>1. messages' = messages /\ tick' = Abandoned
    BY <1>2 DEF InsertMessage
  <2>2. tick'.pc \notin LetterPcs
    BY <2>1, LetGo DEF EmptyHanded, LetterPcs, WithRecipient
  <2>3. QED
    BY <1>1, <2>1, <2>2, QuietLedger
<1>3. CASE MessageSavable(letter)
  <2>1. FreshId \in MessageIds \ UsedIds
    BY FreshIdIsFresh DEF InsertMessage
  <2>2. messages' = [messages EXCEPT ![FreshId] = letter]
        /\ tick' = [tick EXCEPT !.pc = "handoff", !.mail = FreshId]
    BY <1>3 DEF InsertMessage
  <2>3. /\ tick'.pc = "handoff" /\ tick'.mail = FreshId
        /\ tick'.who = tick.who /\ row' = row
    BY <2>2 DEF TypeInv, TickInv, TickType, row
  <2>4. letter \in Message /\ letter # NoRow
    BY InHandFacts, MessageAssumption DEF InsertMessage, At, WithRecipient
  <2>5. /\ \A x \in outbox : x.id # FreshId
        /\ messages[FreshId] = NoRow
    BY <2>1 DEF UsedIds
  <2> DEFINE m == FreshId
  <2> HIDE DEF m
  <2>6. /\ messages'[m] = letter
        /\ \A n \in MessageIds \ {m} : messages'[n] = messages[n]
    BY <2>1, <2>2 DEF TypeInv, TablesInv, m
  <2>7. LetterInHand'
    BY <1>1, <2>3, <2>4, <2>5, <2>6, LetterFields DEF LetterInHand, m
  <2>8. LedgerCoversEmails' /\ SentWasAccepted'
    <3>1. \A x \in outbox : x.id \in MessageIds
      BY DEF TypeInv, TablesInv, Email
    <3>2. QED
      BY <1>1, <2>5, <2>6, <3>1, LetterFields
         DEF LedgerInv, LedgerCoversEmails, SentWasAccepted, m
  <2>9. NotesAreAccepted'
    BY <1>1 DEF LedgerInv, NotesAreAccepted, EmailUnder
  <2>10. QED
    BY <1>1, <2>7, <2>8, <2>9 DEF LedgerInv
<1>4. QED
  BY <1>2, <1>3

\* removePending: the row goes before its email was accepted.
LEMMA LimitLedger ==
  ASSUME TypeInv, LedgerInv, BornInv', HandoffAtLimit, task' = task
  PROVE  LedgerInv'
<1>1. outbox' = outbox /\ life' = life
  BY DEF HandoffAtLimit, history
<1>2. tick.pc = "handoff" /\ tick.pc \in LetterPcs
  BY DEF HandoffAtLimit, At, LetterPcs
<1>3. \A x \in outbox : x.id # tick.mail /\ x.id \in MessageIds
  BY <1>2 DEF LedgerInv, LetterInHand, TypeInv, TablesInv, Email
<1>4. \A n \in MessageIds :
        messages'[n] = IF n = tick.mail THEN NoRow ELSE messages[n]
  BY DEF HandoffAtLimit, TypeInv, TablesInv
<1>5. tick'.pc \notin LetterPcs
  BY LetGo DEF HandoffAtLimit, EmptyHanded, LetterPcs, WithRecipient
<1>6. LetterInHand'
  BY <1>5 DEF LetterInHand, LetterPcs
<1>7. LedgerCoversEmails' /\ SentWasAccepted'
  BY <1>1, <1>3, <1>4 DEF LedgerInv, LedgerCoversEmails, SentWasAccepted
<1>8. NotesAreAccepted'
  BY <1>1 DEF LedgerInv, NotesAreAccepted, EmailUnder
<1>9. QED
  BY <1>1, <1>6, <1>7, <1>8 DEF LedgerInv

\* The handoff fails: whether the email went out is not known from here on.
LEMMA RefusedLedger ==
  ASSUME TypeInv, LedgerInv, BornInv', HandoffRefused, task' = task
  PROVE  LedgerInv'
<1>1. outbox' = outbox /\ life' = life /\ messages' = messages
  BY DEF HandoffRefused, history, tables
<1>2. tick.pc = "handoff" /\ Goto("failing")
  BY DEF HandoffRefused, At
<1>3. tick'.pc = "failing" /\ tick'.mail = tick.mail /\ tick'.who = tick.who
      /\ row' = row /\ letter' = letter
  BY <1>2, GotoInHand DEF SameInHand
<1>4. LetterInHand'
  BY <1>1, <1>2, <1>3 DEF LedgerInv, LetterInHand
<1>5. NotesAreAccepted' /\ LedgerCoversEmails' /\ SentWasAccepted'
  BY <1>1 DEF LedgerInv, NotesAreAccepted, LedgerCoversEmails, SentWasAccepted,
              EmailUnder
<1>6. QED
  BY <1>1, <1>4, <1>5 DEF LedgerInv

\* The id of the message in hand has not been used for an email before.
LEMMA AcceptedLedger ==
  ASSUME TypeInv, LedgerInv, BornInv', NEW lost \in BOOLEAN,
         HandoffAccepted(lost), task' = task
  PROVE  LedgerInv'
<1> DEFINE email == EmailUnder(tick.mail, letter)
<1>1. /\ tick.pc = "handoff" /\ tick.pc \in LetterPcs
      /\ \E pc \in {"accepted", "failing"} : Goto(pc)
  BY DEF HandoffAccepted, At, LetterPcs
<1>2. email = [id |-> tick.mail, to |-> tick.who, step |-> row.step]
  BY <1>1, LetterFacts
<1>3. outbox' = outbox \cup {email} /\ life' = life /\ messages' = messages
  BY <1>2 DEF HandoffAccepted, tables
<1>4. /\ tick'.pc \in {"accepted", "failing"}
      /\ tick'.mail = tick.mail /\ tick'.who = tick.who
      /\ row' = row /\ letter' = letter
  BY <1>1, GotoInHand DEF SameInHand
<1>5. /\ \A x \in outbox : x.id # tick.mail
      /\ life[tick.who] # "erased" => messages[tick.mail] # NoRow
      /\ messages[tick.mail] # NoRow =>
           messages[tick.mail].to = tick.who /\ messages[tick.mail].step = row.step
  BY <1>1 DEF LedgerInv, LetterInHand
<1>6. email.id = tick.mail /\ email.to = tick.who /\ email.step = row.step
  BY <1>2
<1>7. LetterInHand'
  BY <1>3, <1>4, <1>5 DEF LetterInHand
<1> HIDE DEF email
<1>8. OneIdEach'
  BY <1>3, <1>5, <1>6 DEF LedgerInv, OneIdEach
<1>9. LedgerCoversEmails'
  BY <1>3, <1>5, <1>6 DEF LedgerInv, LedgerCoversEmails
<1>10. NotesAreAccepted' /\ SentWasAccepted'
  BY <1>3 DEF LedgerInv, NotesAreAccepted, SentWasAccepted, EmailUnder
<1>11. QED
  BY <1>7, <1>8, <1>9, <1>10 DEF LedgerInv, OneIdEach

\* The outcome is written over the message in hand: failed, or sent after the
\* email was accepted.
LEMMA OutcomeLedger ==
  ASSUME TypeInv, LedgerInv, tick.pc \in {"accepted", "failing"}, NEW l,
         \/ l = AsFailed(letter)
         \/ l = AsSent(letter) /\ tick.pc = "accepted",
         outbox' = outbox, life' = life, task' = task,
         messages' = [messages EXCEPT ![tick.mail] = l]
  PROVE  /\ LedgerCoversEmails' /\ SentWasAccepted' /\ NotesAreAccepted'
         /\ messages'[tick.mail] = l
         /\ l # NoRow /\ l.to = tick.who /\ l.step = row.step
<1>1. tick.pc \in LetterPcs
  BY DEF LetterPcs
<1>2. /\ l # NoRow /\ l.to = tick.who /\ l.step = row.step
      /\ l.status \in {"sent", "bounced"} => tick.pc = "accepted"
  BY <1>1, LetterFacts, LetterFields, MessageAssumption
<1>3. /\ tick.mail \in MessageIds
      /\ EmailUnder(tick.mail, letter)
           = [id |-> tick.mail, to |-> tick.who, step |-> row.step]
  BY <1>1, LetterFacts
<1>4. /\ messages'[tick.mail] = l
      /\ \A n \in MessageIds \ {tick.mail} : messages'[n] = messages[n]
  BY <1>3 DEF TypeInv, TablesInv
<1>5. /\ \A x \in outbox : x.id = tick.mail =>
                            x.to = tick.who /\ x.step = row.step
      /\ tick.pc = "accepted" => EmailUnder(tick.mail, letter) \in outbox
  BY <1>3 DEF LedgerInv, LetterInHand
<1>6. \A x \in outbox : x.id \in MessageIds
  BY DEF TypeInv, TablesInv, Email
<1>7. LedgerCoversEmails'
  BY <1>2, <1>4, <1>5, <1>6 DEF LedgerInv, LedgerCoversEmails
<1>8. SentWasAccepted'
  BY <1>2, <1>3, <1>4, <1>5 DEF LedgerInv, SentWasAccepted
<1>9. NotesAreAccepted'
  BY DEF LedgerInv, NotesAreAccepted, EmailUnder
<1>10. QED
  BY <1>2, <1>4, <1>7, <1>8, <1>9

LEMMA RecordSentLedger ==
  ASSUME TypeInv, LedgerInv, BornInv', RecordSent, task' = task
  PROVE  LedgerInv'
<1>1. /\ outbox' = outbox /\ life' = life /\ tick.pc = "accepted"
      /\ Goto("advance")
      /\ messages' = [messages EXCEPT ![tick.mail] = AsSent(letter)]
  BY DEF RecordSent, history, At
<1>2. tick'.pc = "advance"
  BY <1>1, GotoInHand
<1>3. LetterInHand'
  BY <1>2 DEF LetterInHand
<1>4. LedgerCoversEmails' /\ SentWasAccepted' /\ NotesAreAccepted'
  BY <1>1, OutcomeLedger
<1>5. QED
  BY <1>1, <1>3, <1>4 DEF LedgerInv

LEMMA RecordSentThrowsLedger ==
  ASSUME TypeInv, LedgerInv, BornInv', RecordSentThrows, task' = task
  PROVE  LedgerInv'
<1>1. /\ outbox' = outbox /\ life' = life /\ tick.pc = "accepted"
      /\ Goto("failing")
      /\ \/ messages' = messages
         \/ messages' = [messages EXCEPT ![tick.mail] = AsSent(letter)]
  BY DEF RecordSentThrows, history, At
<1>2. tick'.pc = "failing" /\ tick'.mail = tick.mail /\ tick'.who = tick.who
      /\ row' = row /\ letter' = letter
  BY <1>1, GotoInHand DEF SameInHand
<1>3. /\ \A x \in outbox : x.id = tick.mail => x = EmailUnder(tick.mail, letter)
      /\ life[tick.who] # "erased" => messages[tick.mail] # NoRow
      /\ messages[tick.mail] # NoRow =>
           messages[tick.mail].to = tick.who /\ messages[tick.mail].step = row.step
  BY <1>1 DEF LedgerInv, LetterInHand
<1>4. CASE messages' = messages
  <2>1. LetterInHand'
    BY <1>1, <1>2, <1>3, <1>4 DEF LetterInHand
  <2>2. NotesAreAccepted' /\ LedgerCoversEmails' /\ SentWasAccepted'
    BY <1>1, <1>4 DEF LedgerInv, NotesAreAccepted, LedgerCoversEmails,
                      SentWasAccepted, EmailUnder
  <2>3. QED
    BY <1>1, <2>1, <2>2 DEF LedgerInv
<1>5. CASE messages' = [messages EXCEPT ![tick.mail] = AsSent(letter)]
  <2>1. /\ LedgerCoversEmails' /\ SentWasAccepted' /\ NotesAreAccepted'
        /\ messages'[tick.mail] = AsSent(letter)
        /\ AsSent(letter) # NoRow /\ AsSent(letter).to = tick.who
        /\ AsSent(letter).step = row.step
    BY <1>1, <1>5, OutcomeLedger
  <2>2. LetterInHand'
    BY <1>1, <1>2, <1>3, <2>1 DEF LetterInHand
  <2>3. QED
    BY <1>1, <2>1, <2>2 DEF LedgerInv
<1>6. QED
  BY <1>1, <1>4, <1>5

LEMMA RecordSendFailedLedger ==
  ASSUME TypeInv, LedgerInv, BornInv', RecordSendFailed, task' = task
  PROVE  LedgerInv'
<1>1. outbox' = outbox /\ life' = life /\ tick.pc = "failing"
  BY DEF RecordSendFailed, history, At
<1>2. CASE MessageSavable(letter)
  <2>1. Goto("fail") /\ messages' = [messages EXCEPT ![tick.mail] = AsFailed(letter)]
    BY <1>2 DEF RecordSendFailed
  <2>2. tick'.pc = "fail"
    BY <2>1, GotoInHand
  <2>3. LetterInHand'
    BY <2>2 DEF LetterInHand
  <2>4. LedgerCoversEmails' /\ SentWasAccepted' /\ NotesAreAccepted'
    BY <1>1, <2>1, OutcomeLedger
  <2>5. QED
    BY <1>1, <2>3, <2>4 DEF LedgerInv
<1>3. CASE ~MessageSavable(letter)
  <2>1. messages' = messages /\ tick' = Abandoned
    BY <1>3 DEF RecordSendFailed
  <2>2. tick'.pc \notin LetterPcs
    BY <2>1, LetGo DEF EmptyHanded, LetterPcs, WithRecipient
  <2>3. QED
    BY <1>1, <2>1, <2>2, QuietLedger
<1>4. QED
  BY <1>2, <1>3

LEMMA SchedulerLedger ==
  ASSUME TypeInv, LedgerInv, SchedulerStep
  PROVE  LedgerInv'
<1>1. task' = task /\ life' = life /\ BornInv'
  BY SchedulerAside, SchedulerBorn DEF LedgerInv
<1>2. CASE NoLetter \/ AdvanceRecipient
  BY <1>1, <1>2, AdvanceFacts, QuietLedger DEF NoLetter
<1>3. CASE LetterStep
  BY <1>1, <1>3, InsertLedger, LimitLedger, RefusedLedger, AcceptedLedger,
     RecordSentLedger, RecordSentThrowsLedger, RecordSendFailedLedger
     DEF LetterStep
<1>4. QED
  BY <1>2, <1>3, SchedulerCases

-----------------------------------------------------------------------------
(***************************************************************************)
(* The handlers: what one holds after its step was born, and is the row of *)
(* an accepted email.                                                      *)
(***************************************************************************)
Sound(t) ==
  /\ t.edit # NoRow /\ t.stage # "add" => t.who \in Recipients /\ Born(t.who)
  /\ t.note # NoRow =>
       /\ t.mail \in MessageIds
       /\ t.note.status \in {"sent", "bounced"}
       /\ EmailUnder(t.mail, t.note) \in outbox

LEMMA TasksSound ==
  ASSUME LedgerInv, NEW w \in Workers
  PROVE  Sound(task[w])
BY DEF LedgerInv, BornInv, NotesAreAccepted, Sound

LEMMA NoTaskSound == Sound(NoTask)
BY DEF Sound, NoTask

LEMMA ThenSound ==
  ASSUME TypeInv, LedgerInv, NEW w \in Workers, NEW stage,
         task[w].stage # "add", Then(w, stage)
  PROVE  \E t : task' = [task EXCEPT ![w] = t] /\ Sound(t)
<1> DEFINE t == [task[w] EXCEPT !.stage = stage]
<1>1. task' = [task EXCEPT ![w] = t]
  BY DEF Then
<1>2. /\ t.edit = task[w].edit /\ t.who = task[w].who
      /\ t.mail = task[w].mail /\ t.note = task[w].note
  BY DEF TypeInv, TasksInv, TaskType
<1>3. Sound(t)
  BY <1>2, TasksSound DEF Sound
<1>4. QED
  BY <1>1, <1>3

\* A deleted recipient stays deleted, and with it go its messages only.
MessagesGoWithRecipients ==
  /\ \A r \in Recipients : life[r] = "erased" => life'[r] = "erased"
  /\ \A r \in Recipients : Born(r) => Born(r)'
  /\ \A m \in MessageIds :
       messages'[m] # messages[m] =>
         /\ messages[m] # NoRow /\ messages'[m] = NoRow
         /\ life'[messages[m].to] = "erased"

LEMMA HandlerKeeps ==
  ASSUME TypeInv, LedgerInv, NEW w \in Workers, NEW t,
         task' = [task EXCEPT ![w] = t], Sound(t),
         tick' = tick, outbox' = outbox, MessagesGoWithRecipients,
         \A r \in Recipients :
           recipient'[r] # NoRow => recipient[r] # NoRow \/ Born(r)'
  PROVE  LedgerInv'
<1>1. \A v \in Workers : Sound(task'[v])
  BY TasksSound DEF TypeInv, TasksInv
<1>2. BornInv'
  <2>1. \A x \in outbox : x.to \in Recipients
    BY DEF TypeInv, TablesInv, Email
  <2>2. \A r \in Recipients :
          recipient'[r] # NoRow \/ tick'.held[r] # NoRow => life'[r] # "unborn"
    BY DEF LedgerInv, BornInv, Born, MessagesGoWithRecipients
  <2>3. \A v \in Workers :
          task'[v].edit # NoRow /\ task'[v].stage # "add" =>
            task'[v].who \in Recipients /\ life'[task'[v].who] # "unborn"
    BY <1>1 DEF Sound, Born, MessagesGoWithRecipients
  <2>4. \A x \in outbox' : life'[x.to] # "unborn"
    BY <2>1 DEF LedgerInv, BornInv, Born, MessagesGoWithRecipients
  <2>5. QED
    BY <2>2, <2>3, <2>4 DEF BornInv, Born
<1>3. NotesAreAccepted'
  BY <1>1 DEF NotesAreAccepted, Sound, EmailUnder
<1>4. \A x \in outbox : x.to \in Recipients /\ x.id \in MessageIds
  BY DEF TypeInv, TablesInv, Email
<1>5. LedgerCoversEmails'
  BY <1>4 DEF LedgerInv, LedgerCoversEmails, MessagesGoWithRecipients
<1>6. SentWasAccepted'
  BY DEF LedgerInv, SentWasAccepted, MessagesGoWithRecipients
<1>7. LetterInHand'
  <2> SUFFICES ASSUME tick.pc \in LetterPcs PROVE LetterInHand'
    BY DEF LetterInHand, LetterPcs
  <2>1. tick.who \in Recipients /\ tick.mail \in MessageIds
    BY LetterFacts
  <2>2. letter' = letter /\ row' = row
    BY DEF letter, row
  <2>3. QED
    BY <2>1, <2>2
       DEF LedgerInv, LetterInHand, LetterPcs, MessagesGoWithRecipients, EmailUnder
<1>8. QED
  BY <1>2, <1>3, <1>5, <1>6, <1>7 DEF LedgerInv

\* Handlers that have read something, and handlers that write no message and
\* create or delete no recipient
LEMMA QuietHandler ==
  ASSUME TypeInv, LedgerInv, NEW w \in Workers, NEW t,
         task' = [task EXCEPT ![w] = t], Sound(t),
         tick' = tick, outbox' = outbox, messages' = messages, life' = life,
         \A r \in Recipients :
           recipient'[r] # NoRow => recipient[r] # NoRow \/ Born(r)
  PROVE  LedgerInv'
<1>1. MessagesGoWithRecipients
  BY DEF MessagesGoWithRecipients, Born
<1>2. \A r \in Recipients :
        recipient'[r] # NoRow => recipient[r] # NoRow \/ Born(r)'
  BY DEF Born
<1>3. QED
  BY <1>1, <1>2, HandlerKeeps

LEMMA BeginLedger ==
  ASSUME TypeInv, LedgerInv, NEW w \in Workers, NEW op, NEW begun,
         Begin(w, op, begun), Sound(begun)
  PROVE  LedgerInv'
BY QuietHandler DEF Begin, tables, history

\* The message rows that are handed out are those of accepted emails.
LEMMA SentNote ==
  ASSUME LedgerInv, NEW m \in MessageIds, messages[m] # NoRow,
         messages[m].status = "sent"
  PROVE  EmailUnder(m, messages[m]) \in outbox
BY DEF LedgerInv, SentWasAccepted, EmailUnder

LEMMA EditsLedger ==
  ASSUME TypeInv, LedgerInv, NEW w \in Workers, NEW op, NEW r \in Live,
         NEW edited, Edits(w, op, r, edited)
  PROVE  LedgerInv'
<1> DEFINE begun == [NoTask EXCEPT !.op = op, !.stage = "saveRecipient",
                                   !.who = r, !.edit = edited]
<1>1. begun.who = r /\ begun.note = NoRow
  BY DEF NoTask
<1>2. r \in Recipients /\ Born(r)
  BY DEF Live, LedgerInv, BornInv
<1>3. Sound(begun)
  BY <1>1, <1>2 DEF Sound
<1>4. QED
  BY <1>3, BeginLedger DEF Edits

LEMMA RecipientReadsLedger ==
  ASSUME TypeInv, LedgerInv, NEW w \in Workers,
         \/ UpdateRecipient(w) \/ MarkReplyAsRead(w) \/ PauseRecipient(w)
         \/ StopRecipient(w) \/ ResumeRecipient(w)
         \/ \E r \in Live :
              Edits(w, "recordUnsubscribe", r, Unsubscribed(recipient[r]))
  PROVE  LedgerInv'
<1>1. \E op, edited : \E r \in Live : Edits(w, op, r, edited)
  BY DEF UpdateRecipient, MarkReplyAsRead, PauseRecipient, StopRecipient,
         ResumeRecipient
<1>2. QED
  BY <1>1, EditsLedger

\* A handler that holds neither a recipient to save nor a message
LEMMA EmptyBeginLedger ==
  ASSUME TypeInv, LedgerInv, NEW w \in Workers, NEW op, NEW begun,
         Begin(w, op, begun), begun.note = NoRow,
         begun.edit = NoRow \/ begun.stage = "add"
  PROVE  LedgerInv'
BY BeginLedger DEF Sound

LEMMA OtherBeginsLedger ==
  ASSUME TypeInv, LedgerInv, NEW w \in Workers,
         \/ ExcludeRecipientGlobally(w) \/ ExcludeEmail(w) \/ DeleteCampaign(w)
         \/ AddRecipient(w)
         \/ \E r \in Live :
              Begin(w, "recordUnsubscribe",
                    [NoTask EXCEPT !.op = "recordUnsubscribe", !.who = r,
                                   !.stage = "exclude"])
         \/ PauseCampaign(w) \/ StopSender(w) \/ StopCampaign(w)
         \/ ResumeCampaign(w) \/ UpdateStatus(w) \/ Update(w)
         \/ ResetToDraft(w) \/ Schedule(w)
  PROVE  LedgerInv'
<1>1. CASE AddRecipient(w)
  <2>1. PICK c, r, new :
          Begin(w, "addRecipient",
             [NoTask EXCEPT !.op = "addRecipient", !.stage = "add", !.who = r,
                            !.edit = new, !.camp = c, !.copy = campaign[c]])
    BY <1>1 DEF AddRecipient
  <2> DEFINE begun ==
        [NoTask EXCEPT !.op = "addRecipient", !.stage = "add", !.who = r,
                       !.edit = new, !.camp = c, !.copy = campaign[c]]
  <2>2. begun.note = NoRow /\ begun.stage = "add"
    BY DEF NoTask
  <2>3. QED
    BY <2>1, <2>2, EmptyBeginLedger
<1>2. CASE \/ PauseCampaign(w) \/ StopSender(w) \/ StopCampaign(w)
           \/ ResumeCampaign(w) \/ UpdateStatus(w) \/ Update(w)
           \/ ResetToDraft(w) \/ Schedule(w)
  <2>1. PICK op, stage, c, edited : EditsCampaign(w, op, stage, c, edited)
    BY <1>2 DEF PauseCampaign, StopSender, StopCampaign, ResumeCampaign,
                UpdateStatus, Update, ResetToDraft, Schedule
  <2> DEFINE begun == [NoTask EXCEPT !.op = op, !.stage = stage, !.camp = c,
                                     !.copy = edited]
  <2>2. begun.note = NoRow /\ begun.edit = NoRow
    BY DEF NoTask
  <2>3. QED
    BY <2>1, <2>2, EmptyBeginLedger DEF EditsCampaign
<1>3. CASE DeleteCampaign(w)
  <2>1. PICK c : Begin(w, "deleteCampaign",
                       [NoTask EXCEPT !.op = "deleteCampaign",
                                      !.stage = "delete", !.camp = c])
    BY <1>3 DEF DeleteCampaign
  <2> DEFINE begun == [NoTask EXCEPT !.op = "deleteCampaign",
                                     !.stage = "delete", !.camp = c]
  <2>2. begun.note = NoRow /\ begun.edit = NoRow
    BY DEF NoTask
  <2>3. QED
    BY <2>1, <2>2, EmptyBeginLedger
<1>4. CASE \/ ExcludeRecipientGlobally(w) \/ ExcludeEmail(w)
           \/ \E r \in Live :
                Begin(w, "recordUnsubscribe",
                      [NoTask EXCEPT !.op = "recordUnsubscribe", !.who = r,
                                     !.stage = "exclude"])
  <2>1. PICK op, r :
          Begin(w, op, [NoTask EXCEPT !.op = op, !.who = r, !.stage = "exclude"])
    BY <1>4 DEF ExcludeRecipientGlobally, ExcludeEmail
  <2> DEFINE begun == [NoTask EXCEPT !.op = op, !.who = r, !.stage = "exclude"]
  <2>2. begun.note = NoRow /\ begun.edit = NoRow
    BY DEF NoTask
  <2>3. QED
    BY <2>1, <2>2, EmptyBeginLedger
<1>5. QED
  BY <1>1, <1>2, <1>3, <1>4

\* A message row is read: one that says sent, so its email was accepted.
LEMMA MessageReadsLedger ==
  ASSUME TypeInv, LedgerInv, NEW w \in Workers,
         RecordReply(w) \/ RecordOpen(w) \/ RecordBounce(w)
  PROVE  LedgerInv'
<1>1. CASE RecordReply(w)
  <2>1. PICK r \in Live, m \in MessageIds :
          /\ messages[m] # NoRow
          /\ messages[m].status = "sent"
          /\ Begin(w, "recordReply",
               [NoTask EXCEPT !.op = "recordReply", !.stage = "saveRecipient",
                              !.who = r, !.edit = Replied(recipient[r]),
                              !.mail = m, !.note = messages[m]])
    BY <1>1 DEF RecordReply
  <2> DEFINE begun ==
        [NoTask EXCEPT !.op = "recordReply", !.stage = "saveRecipient",
                       !.who = r, !.edit = Replied(recipient[r]),
                       !.mail = m, !.note = messages[m]]
  <2>2. begun.who = r /\ begun.mail = m /\ begun.note = messages[m]
    BY DEF NoTask
  <2>3. r \in Recipients /\ Born(r)
    BY DEF Live, LedgerInv, BornInv
  <2>4. Sound(begun)
    BY <2>1, <2>2, <2>3, SentNote DEF Sound
  <2>5. QED
    BY <2>1, <2>4, BeginLedger
<1>2. CASE RecordOpen(w) \/ RecordBounce(w)
  <2>1. PICK m \in MessageIds : \E op, note :
          /\ note = messages[m] \/ note = AsBounced(messages[m])
          /\ messages[m] # NoRow
          /\ messages[m].status = "sent"
          /\ Begin(w, op,
               [NoTask EXCEPT !.op = op, !.stage = "saveMessage",
                              !.who = messages[m].to, !.mail = m, !.note = note])
    BY <1>2 DEF RecordOpen, RecordBounce
  <2> PICK op, note :
          /\ note = messages[m] \/ note = AsBounced(messages[m])
          /\ messages[m] # NoRow
          /\ messages[m].status = "sent"
          /\ Begin(w, op,
               [NoTask EXCEPT !.op = op, !.stage = "saveMessage",
                              !.who = messages[m].to, !.mail = m, !.note = note])
    BY <2>1
  <2> DEFINE begun == [NoTask EXCEPT !.op = op, !.stage = "saveMessage",
                                     !.who = messages[m].to, !.mail = m,
                                     !.note = note]
  <2>2. begun.edit = NoRow /\ begun.mail = m /\ begun.note = note
    BY DEF NoTask
  <2>3. /\ note.to = messages[m].to /\ note.step = messages[m].step
        /\ note.status \in {"sent", "bounced"}
    BY DEF AsBounced, TypeInv, TablesInv, Message
  <2>4. Sound(begun)
    BY <2>2, <2>3, SentNote DEF Sound, EmailUnder
  <2>5. QED
    BY <2>4, BeginLedger
<1>3. QED
  BY <1>1, <1>2

\* The row of an accepted email is written back: over the email's own message,
\* which is not one the tick has yet to hand off.
LEMMA SaveMessageLedger ==
  ASSUME TypeInv, LedgerInv, NEW w \in Workers, SaveMessage(w)
  PROVE  LedgerInv'
<1> DEFINE m == task[w].mail
           l == task[w].note
<1>1. /\ tick' = tick /\ recipient' = recipient
      /\ outbox' = outbox /\ life' = life
  BY DEF SaveMessage, history
<1>2. task[w].stage = "saveMessage" /\ m \in MessageIds /\ l \in Message
  BY DEF SaveMessage, Stage, TypeInv, TasksInv, TaskInv, Ready
<1>3. \E t : task' = [task EXCEPT ![w] = t] /\ Sound(t)
  <2>1. CASE Done(w)
    BY <2>1, NoTaskSound DEF Done
  <2>2. CASE Then(w, "readRecipient")
    BY <1>2, <2>2, ThenSound
  <2>3. QED
    BY <2>1, <2>2 DEF SaveMessage
<1>4. CASE messages' = messages
  BY <1>1, <1>3, <1>4, QuietHandler
<1>5. CASE messages' # messages
  <2>1. messages' = [messages EXCEPT ![m] = l]
    BY <1>5 DEF SaveMessage
  <2>2. /\ l # NoRow /\ EmailUnder(m, l) \in outbox
        /\ l.status \in {"sent", "bounced"}
    BY <1>2, MessageAssumption DEF LedgerInv, NotesAreAccepted
  <2>3. /\ \A x \in outbox : x.id = m => x.to = l.to /\ x.step = l.step
        /\ \A x \in outbox : x.id \in MessageIds
    <3>1. EmailUnder(m, l).id = m /\ EmailUnder(m, l).to = l.to
          /\ EmailUnder(m, l).step = l.step
      BY DEF EmailUnder
    <3>2. \A x \in outbox : x.id = m => x = EmailUnder(m, l)
      BY <2>2, <3>1 DEF LedgerInv
    <3>3. QED
      BY <3>1, <3>2 DEF TypeInv, TablesInv, Email
  <2>4. /\ messages'[m] = l
        /\ \A n \in MessageIds \ {m} : messages'[n] = messages[n]
    BY <1>2, <2>1 DEF TypeInv, TablesInv
  <2> HIDE DEF m, l
  <2>5. LedgerCoversEmails'
    BY <1>1, <2>2, <2>3, <2>4 DEF LedgerInv, LedgerCoversEmails
  <2>6. SentWasAccepted'
    BY <1>1, <2>2, <2>4 DEF LedgerInv, SentWasAccepted, EmailUnder
  <2>7. NotesAreAccepted'
    <3>1. \A v \in Workers : Sound(task'[v])
      BY <1>3, TasksSound DEF TypeInv, TasksInv
    <3>2. QED
      BY <1>1, <3>1 DEF NotesAreAccepted, Sound, EmailUnder
  <2>8. BornInv'
    <3>1. \A v \in Workers : Sound(task'[v])
      BY <1>3, TasksSound DEF TypeInv, TasksInv
    <3>2. QED
      BY <1>1, <3>1 DEF LedgerInv, BornInv, Born, Sound
  <2>9. LetterInHand'
    <3> SUFFICES ASSUME tick.pc \in LetterPcs PROVE LetterInHand'
      BY <1>1 DEF LetterInHand, LetterPcs
    <3>1. letter' = letter /\ row' = row
      BY <1>1 DEF letter, row
    <3>2. CASE tick.mail = m
      <4>1. tick.pc # "handoff" /\ EmailUnder(m, l) = EmailUnder(tick.mail, letter)
        BY <2>2, <3>2 DEF LedgerInv, LetterInHand, LetterPcs, EmailUnder
      <4>2. l.to = tick.who /\ l.step = row.step
        BY <3>2, <4>1, LetterFacts, LetterFields DEF EmailUnder
      <4>3. QED
        BY <1>1, <2>2, <2>4, <3>1, <3>2, <4>2
           DEF LedgerInv, LetterInHand, LetterPcs, EmailUnder
    <3>3. CASE tick.mail # m
      <4>1. messages'[tick.mail] = messages[tick.mail]
        BY <2>4, <3>3, LetterFacts
      <4>2. QED
        BY <1>1, <3>1, <4>1 DEF LedgerInv, LetterInHand, LetterPcs, EmailUnder
    <3>4. QED
      BY <3>2, <3>3
  <2>10. QED
    BY <1>1, <2>5, <2>6, <2>7, <2>8, <2>9 DEF LedgerInv
<1>6. QED
  BY <1>4, <1>5

LEMMA ReadBouncedLedger ==
  ASSUME TypeInv, LedgerInv, NEW w \in Workers, ReadBounced(w)
  PROVE  LedgerInv'
<1>1. /\ tick' = tick /\ recipient' = recipient /\ messages' = messages
      /\ outbox' = outbox /\ life' = life
  BY DEF ReadBounced, tables, history
<1>2. \E t : task' = [task EXCEPT ![w] = t] /\ Sound(t)
  <2>1. CASE task[w].who \in Live
    <3> DEFINE t == [task[w] EXCEPT !.stage = "saveRecipient",
                                    !.edit = Failed(recipient[task[w].who])]
    <3>1. task' = [task EXCEPT ![w] = t]
      BY <2>1 DEF ReadBounced
    <3>2. t.who = task[w].who /\ t.mail = task[w].mail /\ t.note = task[w].note
      BY DEF TypeInv, TasksInv, TaskType
    <3>3. t.who \in Recipients /\ Born(t.who)
      BY <2>1, <3>2 DEF Live, LedgerInv, BornInv
    <3>4. Sound(t)
      BY <3>2, <3>3, TasksSound DEF Sound
    <3>5. QED
      BY <3>1, <3>4
  <2>2. CASE task[w].who \notin Live
    BY <2>2, NoTaskSound DEF ReadBounced, Done
  <2>3. QED
    BY <2>1, <2>2
<1>3. QED
  BY <1>1, <1>2, QuietHandler

\* Saving a row may insert it again, but only one that was born.
LEMMA SaveEditLedger ==
  ASSUME TypeInv, LedgerInv, NEW w \in Workers, SaveEdit(w)
  PROVE  LedgerInv'
<1> DEFINE rows == [NoRows EXCEPT ![task[w].who] = task[w].edit]
<1>1. /\ tick' = tick /\ messages' = messages
      /\ outbox' = outbox /\ life' = life
  BY DEF SaveEdit, history
<1>2. /\ task[w].stage = "saveRecipient" /\ task[w].who \in Recipients
      /\ task[w].edit # NoRow
  BY NoRowAssumption DEF SaveEdit, Stage, TypeInv, TasksInv, TaskInv, Ready
<1>3. Born(task[w].who)
  BY <1>2 DEF LedgerInv, BornInv
<1>4. \A r \in Recipients : rows[r] # NoRow => r = task[w].who
  BY DEF NoRows
<1>5. Save(rows) \/ recipient' = recipient
  BY DEF SaveEdit
<1> HIDE DEF rows
<1>6. \A r \in Recipients : recipient'[r] # NoRow => recipient[r] # NoRow \/ Born(r)
  BY <1>3, <1>4, <1>5 DEF Save
<1>7. \E t : task' = [task EXCEPT ![w] = t] /\ Sound(t)
  <2>1. Done(w) \/ Then(w, "exclude") \/ Then(w, "saveMessage")
    BY DEF SaveEdit
  <2>2. QED
    BY <1>2, <2>1, NoTaskSound, ThenSound DEF Done
<1>8. QED
  BY <1>1, <1>6, <1>7, QuietHandler

\* The calls that only change other rows
LEMMA OtherCallsLedger ==
  ASSUME TypeInv, LedgerInv, NEW w \in Workers,
         \/ ExcludeAddress(w) \/ StopAll(w) \/ SaveCampaign(w)
         \/ ReplaceChildren(w) \/ HandlerFails(w)
  PROVE  LedgerInv'
<1>1. /\ tick' = tick /\ messages' = messages
      /\ outbox' = outbox /\ life' = life
  BY DEF ExcludeAddress, StopAll, SaveCampaign, ReplaceChildren, HandlerFails,
         tables, history
<1>2. \E t : task' = [task EXCEPT ![w] = t] /\ Sound(t)
  <2>1. \/ Done(w)
        \/ /\ task[w].stage # "add"
           /\ Then(w, "stopAll") \/ Then(w, "replaceChildren")
    BY DEF ExcludeAddress, StopAll, SaveCampaign, ReplaceChildren, HandlerFails,
           Stage
  <2>2. QED
    BY <2>1, NoTaskSound, ThenSound DEF Done
<1>3. \A r \in Recipients : recipient'[r] # NoRow => recipient[r] # NoRow \/ Born(r)
  <2>1. CASE StopAll(w)
    BY <2>1 DEF StopAll, Live
  <2>2. CASE ~StopAll(w)
    BY <2>2 DEF ExcludeAddress, SaveCampaign, ReplaceChildren, HandlerFails, tables
  <2>3. QED
    BY <2>1, <2>2
<1>4. QED
  BY <1>1, <1>2, <1>3, QuietHandler

\* The transactions that delete recipients: their messages go with them.
LEMMA DeletionsLedger ==
  ASSUME TypeInv, LedgerInv, NEW w \in Workers, SaveReset(w) \/ DeleteById(w)
  PROVE  LedgerInv'
<1> DEFINE S == Live \cap Of(task[w].camp)
<1>1. tick' = tick /\ outbox' = outbox /\ task' = [task EXCEPT ![w] = NoTask]
  BY DEF SaveReset, DeleteById, Done
<1>2. CASE life' = life /\ messages' = messages /\ recipient' = recipient
  BY <1>1, <1>2, NoTaskSound, QuietHandler
<1>3. CASE Erase(S) /\ life' = Died(S)
  <2>1. \A r \in Recipients : life'[r] = IF r \in S THEN "erased" ELSE life[r]
    BY <1>3 DEF Died
  <2>2. \A m \in MessageIds :
          messages'[m] = IF messages[m] # NoRow /\ messages[m].to \in S
                         THEN NoRow ELSE messages[m]
    BY <1>3 DEF Erase
  <2>3. S \subseteq Recipients
    BY DEF Live
  <2> HIDE DEF S
  <2>4. MessagesGoWithRecipients
    BY <2>1, <2>2, <2>3 DEF MessagesGoWithRecipients, Born
  <2>5. \A r \in Recipients :
          recipient'[r] # NoRow => recipient[r] # NoRow \/ Born(r)'
    BY <1>3 DEF Erase
  <2>6. QED
    BY <1>1, <2>4, <2>5, NoTaskSound, HandlerKeeps
<1>4. QED
  BY <1>2, <1>3 DEF SaveReset, DeleteById

LEMMA SaveScheduleLedger ==
  ASSUME TypeInv, LedgerInv, NEW w \in Workers, SaveSchedule(w)
  PROVE  LedgerInv'
<1> DEFINE c == task[w].camp
           old == Live \cap Of(c)
<1>1. tick' = tick /\ outbox' = outbox /\ task' = [task EXCEPT ![w] = NoTask]
  BY DEF SaveSchedule, Done
<1>2. CASE life' = life /\ messages' = messages /\ recipient' = recipient
  BY <1>1, <1>2, NoTaskSound, QuietHandler
<1>3. CASE ~(life' = life /\ messages' = messages /\ recipient' = recipient)
  <2>1. PICK S \in Audiences(c) :
          /\ recipient' = [r \in Recipients |->
                             IF r \in S THEN NewRecipient(TRUE)
                             ELSE IF r \in old THEN NoRow ELSE recipient[r]]
          /\ messages' = [m \in MessageIds |->
                            IF messages[m] # NoRow /\ messages[m].to \in old
                            THEN NoRow ELSE messages[m]]
          /\ life' = [r \in Recipients |->
                        IF r \in S THEN "live" ELSE Died(old)[r]]
    BY <1>3 DEF SaveSchedule
  <2>2. \A r \in S : r \in Recipients /\ life[r] = "unborn"
    BY DEF Audiences, Unborn, Of
  <2>3. \A r \in old : r \in Recipients /\ life[r] # "unborn"
    BY DEF Live, LedgerInv, BornInv, Born
  <2>4. \A r \in Recipients :
          life'[r] = IF r \in S THEN "live"
                     ELSE IF r \in old THEN "erased" ELSE life[r]
    BY <2>1 DEF Died
  <2> HIDE DEF old
  <2>5. MessagesGoWithRecipients
    BY <2>1, <2>2, <2>3, <2>4 DEF MessagesGoWithRecipients, Born
  <2>6. \A r \in Recipients :
          recipient'[r] # NoRow => recipient[r] # NoRow \/ Born(r)'
    BY <2>1, <2>4 DEF Born
  <2>7. QED
    BY <1>1, <2>5, <2>6, NoTaskSound, HandlerKeeps
<1>4. QED
  BY <1>2, <1>3

LEMMA SaveAdditionLedger ==
  ASSUME TypeInv, LedgerInv, NEW w \in Workers, SaveAddition(w)
  PROVE  LedgerInv'
<1> DEFINE r == task[w].who
<1>1. /\ tick' = tick /\ outbox' = outbox /\ messages' = messages
      /\ task' = [task EXCEPT ![w] = NoTask]
  BY DEF SaveAddition, Done
<1>2. r \in Recipients
  BY DEF SaveAddition, Stage, TypeInv, TasksInv, TaskInv, Ready
<1>3. CASE life' = life /\ recipient' = recipient
  BY <1>1, <1>3, NoTaskSound, QuietHandler
<1>4. CASE ~(life' = life /\ recipient' = recipient)
  <2>1. /\ recipient' = [recipient EXCEPT ![r] = task[w].edit]
        /\ life' = [life EXCEPT ![r] = "live"]
        /\ life[r] = "unborn"
    BY <1>4 DEF SaveAddition
  <2>2. /\ \A q \in Recipients : life'[q] = IF q = r THEN "live" ELSE life[q]
        /\ \A q \in Recipients \ {r} : recipient'[q] = recipient[q]
    BY <1>2, <2>1 DEF TypeInv, TablesInv, Rows
  <2> HIDE DEF r
  <2>3. MessagesGoWithRecipients
    BY <1>1, <2>1, <2>2 DEF MessagesGoWithRecipients, Born
  <2>4. \A q \in Recipients :
          recipient'[q] # NoRow => recipient[q] # NoRow \/ Born(q)'
    BY <2>2 DEF Born
  <2>5. QED
    BY <1>1, <2>3, <2>4, NoTaskSound, HandlerKeeps
<1>5. QED
  BY <1>3, <1>4

LEMMA HandlerLedger ==
  ASSUME TypeInv, LedgerInv, NEW w \in Workers, HandlerStep(w)
  PROVE  LedgerInv'
<1>1. RecordUnsubscribe(w) =>
        \/ \E r \in Live :
             Edits(w, "recordUnsubscribe", r, Unsubscribed(recipient[r]))
        \/ \E r \in Live :
             Begin(w, "recordUnsubscribe",
                   [NoTask EXCEPT !.op = "recordUnsubscribe", !.who = r,
                                  !.stage = "exclude"])
  BY DEF RecordUnsubscribe
<1>2. QED
  BY <1>1, RecipientReadsLedger, OtherBeginsLedger, MessageReadsLedger,
     SaveMessageLedger, ReadBouncedLedger, SaveEditLedger, OtherCallsLedger,
     DeletionsLedger, SaveScheduleLedger, SaveAdditionLedger
     DEF HandlerStep

-----------------------------------------------------------------------------
\* The whole system

LEMMA InitLedger == Init => LedgerInv
<1> SUFFICES ASSUME Init PROVE LedgerInv
  OBVIOUS
<1>1. outbox = {} /\ tick = Resting /\ messages = [m \in MessageIds |-> NoRow]
      /\ task = [w \in Workers |-> NoTask]
  BY DEF Init
<1>2. \A r \in Recipients : recipient[r] # NoRow => life[r] = "live"
  BY DEF Init
<1>3. BornInv
  BY <1>1, <1>2 DEF BornInv, Born, Resting, NoRows, NoTask
<1>4. LetterInHand
  BY <1>1 DEF LetterInHand, Resting
<1>5. QED
  BY <1>1, <1>3, <1>4
     DEF LedgerInv, NotesAreAccepted, LedgerCoversEmails, SentWasAccepted, NoTask

LEMMA CrashLedger ==
  ASSUME TypeInv, LedgerInv, Crash
  PROVE  LedgerInv'
<1>1. /\ tick' = Resting /\ task' = [w \in Workers |-> NoTask]
      /\ recipient' = recipient /\ messages' = messages
      /\ outbox' = outbox /\ life' = life
  BY DEF Crash, tables, history
<1>2. BornInv'
  BY <1>1 DEF LedgerInv, BornInv, Born, Resting, NoRows, NoTask
<1>3. LetterInHand'
  BY <1>1 DEF LetterInHand, Resting
<1>4. NotesAreAccepted'
  BY <1>1 DEF NotesAreAccepted, NoTask
<1>5. QED
  BY <1>1, <1>2, <1>3, <1>4 DEF LedgerInv, LedgerCoversEmails, SentWasAccepted

LEMMA NextLedger == TypeInv /\ LedgerInv /\ [Next]_vars => LedgerInv'
<1> SUFFICES ASSUME TypeInv, LedgerInv, [Next]_vars PROVE LedgerInv'
  OBVIOUS
<1>1. CASE SchedulerStep
  BY <1>1, SchedulerLedger
<1>2. CASE \E w \in Workers : HandlerStep(w)
  BY <1>2, HandlerLedger
<1>3. CASE Crash
  BY <1>3, CrashLedger
<1>4. CASE RemoveExclusion \/ UNCHANGED vars
  <2>1. /\ tick' = tick /\ task' = task /\ recipient' = recipient
        /\ messages' = messages /\ outbox' = outbox /\ life' = life
    BY <1>4 DEF RemoveExclusion, vars, tables, history
  <2>2. letter' = letter /\ row' = row
    BY <2>1 DEF letter, row
  <2>3. QED
    BY <2>1, <2>2
       DEF LedgerInv, BornInv, Born, NotesAreAccepted, LetterInHand,
           LedgerCoversEmails, SentWasAccepted, EmailUnder
<1>5. QED
  BY <1>1, <1>2, <1>3, <1>4 DEF Next

LEMMA LedgerHolds == Spec => []LedgerInv
<1>1. Spec => []TypeInv
  BY TypesHold
<1>2. QED
  BY <1>1, InitLedger, NextLedger, PTL DEF Spec

-----------------------------------------------------------------------------
\* Outcomes: a pending row is only ever written under an id that is free.
OutcomeStays(m) ==
  messages[m] # NoRow /\ messages[m].status # "pending" /\ messages'[m] # NoRow =>
    messages'[m].status # "pending"

LEMMA SchedulerOutcomes ==
  ASSUME TypeInv, SchedulerStep, NEW m \in MessageIds
  PROVE  OutcomeStays(m)
<1>1. CASE messages' = messages
  BY <1>1 DEF OutcomeStays
<1>2. CASE InsertMessage
  <2>1. messages' = messages \/ messages' = [messages EXCEPT ![FreshId] = letter]
    BY <1>2 DEF InsertMessage
  <2>2. FreshId \in MessageIds /\ messages[FreshId] = NoRow
    BY <1>2, FreshIdIsFresh DEF InsertMessage, UsedIds
  <2>3. \A n \in MessageIds \ {FreshId} : messages'[n] = messages[n]
    BY <2>1 DEF TypeInv, TablesInv
  <2>4. QED
    BY <2>2, <2>3 DEF OutcomeStays
<1>3. CASE HandoffAtLimit
  BY <1>3 DEF HandoffAtLimit, OutcomeStays, TypeInv, TablesInv
<1>4. CASE RecordSent \/ RecordSentThrows \/ RecordSendFailed
  <2>1. tick.pc \in LetterPcs
    BY <1>4 DEF RecordSent, RecordSentThrows, RecordSendFailed, At, LetterPcs
  <2>2. PICK l \in {AsSent(letter), AsFailed(letter)} :
          messages' = messages \/ messages' = [messages EXCEPT ![tick.mail] = l]
    BY <1>4 DEF RecordSent, RecordSentThrows, RecordSendFailed
  <2>3. l.status # "pending"
    BY DEF AsSent, AsFailed, letter
  <2>4. QED
    BY <2>2, <2>3 DEF OutcomeStays, TypeInv, TablesInv
<1>5. QED
  <2>1. LetterStep => \/ messages' = messages \/ InsertMessage \/ HandoffAtLimit
                      \/ RecordSent \/ RecordSentThrows \/ RecordSendFailed
    BY DEF LetterStep, HandoffRefused, HandoffAccepted, tables
  <2>2. QED
    BY <1>1, <1>2, <1>3, <1>4, <2>1, SchedulerCases, AdvanceFacts DEF NoLetter

LEMMA HandlerOutcomes ==
  ASSUME TypeInv, LedgerInv, NEW w \in Workers, HandlerStep(w), NEW m \in MessageIds
  PROVE  OutcomeStays(m)
<1>1. CASE messages' = messages
  BY <1>1 DEF OutcomeStays
<1>2. CASE SaveMessage(w)
  <2>1. /\ task[w].note \in Message
        /\ \/ messages' = messages
           \/ messages' = [messages EXCEPT ![task[w].mail] = task[w].note]
    BY <1>2 DEF SaveMessage, Stage, TypeInv, TasksInv, TaskInv, Ready
  <2>2. task[w].note.status # "pending"
    BY <2>1, MessageAssumption DEF LedgerInv, NotesAreAccepted
  <2>3. QED
    BY <2>1, <2>2 DEF OutcomeStays, TypeInv, TablesInv
<1>3. CASE SaveReset(w) \/ DeleteById(w) \/ SaveSchedule(w)
  <2>1. messages'[m] = messages[m] \/ messages'[m] = NoRow
    BY <1>3 DEF SaveReset, DeleteById, SaveSchedule, Erase
  <2>2. QED
    BY <2>1 DEF OutcomeStays
<1>4. \/ messages' = messages \/ SaveMessage(w)
      \/ SaveReset(w) \/ DeleteById(w) \/ SaveSchedule(w)
  <2>1. CASE \/ UpdateRecipient(w) \/ MarkReplyAsRead(w) \/ PauseRecipient(w)
             \/ StopRecipient(w) \/ ResumeRecipient(w) \/ RecordReply(w)
             \/ RecordOpen(w) \/ RecordUnsubscribe(w) \/ RecordBounce(w)
             \/ ExcludeRecipientGlobally(w) \/ ExcludeEmail(w)
             \/ AddRecipient(w) \/ DeleteCampaign(w)
    BY <2>1 DEF UpdateRecipient, MarkReplyAsRead, PauseRecipient,
                StopRecipient, ResumeRecipient, RecordReply, RecordOpen,
                RecordUnsubscribe, RecordBounce, ExcludeRecipientGlobally,
                ExcludeEmail, AddRecipient, DeleteCampaign, Edits, Begin, tables
  <2>2. CASE \/ PauseCampaign(w) \/ StopSender(w) \/ StopCampaign(w)
             \/ ResumeCampaign(w) \/ UpdateStatus(w) \/ Update(w)
             \/ ResetToDraft(w) \/ Schedule(w)
    BY <2>2 DEF PauseCampaign, StopSender, StopCampaign, ResumeCampaign,
                UpdateStatus, Update, ResetToDraft, Schedule, EditsCampaign,
                Begin, tables
  <2>3. CASE \/ ReadBounced(w) \/ SaveEdit(w) \/ ExcludeAddress(w) \/ StopAll(w)
             \/ SaveCampaign(w) \/ ReplaceChildren(w) \/ SaveAddition(w)
             \/ HandlerFails(w)
    BY <2>3 DEF ReadBounced, SaveEdit, ExcludeAddress, StopAll, SaveCampaign,
                ReplaceChildren, SaveAddition, HandlerFails, tables
  <2>4. QED
    BY <2>1, <2>2, <2>3 DEF HandlerStep
<1>5. QED
  BY <1>1, <1>2, <1>3, <1>4

LEMMA NextOutcomes ==
  TypeInv /\ LedgerInv /\ [Next]_vars => \A m \in MessageIds : OutcomeStays(m)
<1> SUFFICES ASSUME TypeInv, LedgerInv, [Next]_vars, NEW m \in MessageIds
             PROVE  OutcomeStays(m)
  OBVIOUS
<1>1. CASE RemoveExclusion \/ Crash \/ UNCHANGED vars
  BY <1>1 DEF RemoveExclusion, Crash, vars, tables, OutcomeStays
<1>2. QED
  BY <1>1, SchedulerOutcomes, HandlerOutcomes DEF Next

-----------------------------------------------------------------------------
(***************************************************************************)
(* Every email the mail provider accepted has its message row, with its    *)
(* recipient and step, for as long as the recipient is not deleted: opens, *)
(* replies, bounces and unsubscribe links can be traced, whatever crashes, *)
(* failed calls and late writes of the monitors come in between.           *)
(***************************************************************************)
THEOREM EveryEmailIsTraceable == Spec => []LedgerCoversEmails
<1>1. LedgerInv => LedgerCoversEmails
  BY DEF LedgerInv
<1>2. QED
  BY <1>1, LedgerHolds, PTL

\* No message says sent, or bounced, of an email that the provider never took
\* (recordSent, markMessageBounced and the monitors' saves).
THEOREM SentIsTrue == Spec => []SentWasAccepted
<1>1. LedgerInv => SentWasAccepted
  BY DEF LedgerInv
<1>2. QED
  BY <1>1, LedgerHolds, PTL

\* A message that has an outcome never becomes pending again, although the
\* open, reply and bounce handlers write whole message rows back.
THEOREM OutcomesAreFinal == Spec => OutcomesStay
<1>1. TypeInv /\ LedgerInv /\ [Next]_vars =>
        [\A m \in MessageIds :
           messages[m] # NoRow /\ messages[m].status # "pending"
           /\ messages'[m] # NoRow =>
             messages'[m].status # "pending"]_vars
  BY NextOutcomes DEF OutcomeStays
<1>2. Spec => []TypeInv
  BY TypesHold
<1>3. QED
  BY <1>1, <1>2, LedgerHolds, PTL DEF Spec, OutcomesStay

-----------------------------------------------------------------------------
(***************************************************************************)
(* Proof that no step is emailed twice to a recipient unless something     *)
(* comes between the provider's answer and the recipient's save.           *)
(*                                                                         *)
(* A recipient is sendable on the step its row says.  The row moves on one *)
(* save after the provider has accepted the email, and the row with the    *)
(* step that was spent is written again only by a handler that read it     *)
(* before that save.  So there are exactly two ways to a second email: the *)
(* run breaks off before the save, or such a handler saves after it.       *)
(* Everything else, pauses, deletions, rescheduling, bounces, unsubscribes *)
(* and failed saves elsewhere included, leaves every step spent.           *)
(***************************************************************************)

\* From the provider's answer to the recipient's save
Spending == {"accepted", "failing", "fail", "advance"}

InFlight(x) == tick.pc \in Spending /\ tick.who = x.to /\ row.step = x.step

\* A row from which email x cannot be sent again
Past(entry, x) == entry.step > x.step \/ ~Unfinished(entry)

Spent(x) ==
  InFlight(x) \/ (recipient[x.to] # NoRow => Past(recipient[x.to], x))

\* The two ways to a second email
BreaksOff == tick.pc \in Spending /\ (Crash \/ TickFails)

TurnsBack(w) ==
  /\ SaveEdit(w)
  /\ \E x \in outbox : x.to = task[w].who /\ ~InFlight(x) /\ ~Past(task[w].edit, x)

Calm == ~BreaksOff /\ \A w \in Workers : ~TurnsBack(w)

CalmSpec == Init /\ [][Next /\ Calm]_vars

\* From the choice of a recipient to its save
Sending == WithRecipient \ {"cohort"}

\* What the tick holds has not been spent either, and from the screen to the
\* save it holds one row, that of an unfinished recipient.
AllSpent ==
  \A x \in outbox :
    /\ Spent(x)
    /\ tick.held[x.to] # NoRow => InFlight(x) \/ Past(tick.held[x.to], x)

OneInHand ==
  tick.pc \in Sending =>
    /\ Unfinished(row)
    /\ \A r \in Recipients \ {tick.who} : tick.held[r] = NoRow

OnceInv == AllSpent /\ OneInHand /\ OneEmailPerStep

-----------------------------------------------------------------------------
\* The scheduler

LEMMA OutboxTypes ==
  ASSUME TypeInv, NEW x \in outbox
  PROVE  x.to \in Recipients /\ x.step \in Nat
BY DEF TypeInv, TablesInv, Email, Steps

LEMMA StepTypes ==
  ASSUME TypeInv, NEW r \in Recipients
  PROVE  /\ recipient[r] # NoRow => recipient[r].step \in Nat
         /\ tick.held[r] # NoRow => tick.held[r].step \in Nat
BY RowDescends DEF RecipientRow, Steps

LEMMA PastOnward ==
  ASSUME NEW x, NEW y, NEW z, x.step \in Nat, y.step \in Nat, z.step \in Nat,
         NotBehind(y, z), Past(z, x)
  PROVE  Past(y, x)
BY DEF NotBehind, Past

\* With nothing in flight, what a step copies or saves of rows that are past an
\* email is past it.
LEMMA NoLetterSpent ==
  ASSUME TypeInv, TypeInv', AllSpent, NoLetter, tick.pc \notin Spending
  PROVE  AllSpent'
<1> SUFFICES ASSUME NEW x \in outbox
             PROVE  /\ recipient'[x.to] # NoRow => Past(recipient'[x.to], x)
                    /\ tick'.held[x.to] # NoRow => Past(tick'.held[x.to], x)
  BY DEF NoLetter, AllSpent, Spent, Past
<1> DEFINE r == x.to
<1>1. r \in Recipients /\ x.step \in Nat
  BY OutboxTypes
<1>2. /\ recipient[r] # NoRow => Past(recipient[r], x) /\ recipient[r].step \in Nat
      /\ tick.held[r] # NoRow => Past(tick.held[r], x) /\ tick.held[r].step \in Nat
  BY <1>1, StepTypes DEF AllSpent, Spent, InFlight
<1>3. /\ recipient'[r] # NoRow => recipient'[r].step \in Nat
      /\ tick'.held[r] # NoRow => tick'.held[r].step \in Nat
  BY <1>1 DEF TypeInv, TablesInv, Rows, TickInv, TickType, RecipientRow, Steps
<1>4. /\ recipient'[r] # NoRow => Descends(recipient'[r], r)
      /\ tick'.held[r] # NoRow => Descends(tick'.held[r], r)
  BY <1>1 DEF NoLetter, RowsDescend, HeldDescend
<1>5. QED
  BY <1>1, <1>2, <1>3, <1>4, PastOnward DEF Descends

LEMMA LetsGoOnce ==
  ASSUME TypeInv, OnceInv, EmptyHanded, outbox' = outbox,
         \A x \in outbox : recipient'[x.to] # NoRow => Past(recipient'[x.to], x)
  PROVE  OnceInv'
<1>1. AllSpent'
  <2>1. \A x \in outbox : tick'.held[x.to] = NoRow
    BY OutboxTypes DEF EmptyHanded, NoRows
  <2>2. QED
    BY <2>1 DEF AllSpent, Spent, Past
<1>2. OneInHand' /\ OneEmailPerStep'
  BY DEF EmptyHanded, OneInHand, Sending, OnceInv, OneEmailPerStep
<1>3. QED
  BY <1>1, <1>2 DEF OnceInv

\* Steps that keep the recipient in hand and every row
LEMMA StaysInHandOnce ==
  ASSUME TypeInv, OnceInv, SameInHand, row' = row, recipient' = recipient,
         outbox' = outbox, tick.pc \in Sending,
         tick.pc \in Spending => tick'.pc \in Spending
  PROVE  OnceInv'
<1>1. \A x \in outbox : InFlight(x) => InFlight(x)'
  BY DEF InFlight, SameInHand
<1>2. AllSpent'
  <2>1. \A x \in outbox : Spent(x) => Spent(x)'
    BY <1>1 DEF Spent, Past
  <2>2. QED
    BY <1>1, <2>1 DEF OnceInv, AllSpent, SameInHand, Past
<1>3. OneInHand'
  BY DEF OnceInv, OneInHand, SameInHand
<1>4. QED
  BY <1>2, <1>3 DEF OnceInv, OneEmailPerStep

LEMMA LoopOnce ==
  ASSUME TypeInv, TypeInv', OnceInv, NoLetter, tick'.pc \notin WithRecipient,
         tick.pc \notin Spending
  PROVE  OnceInv'
BY NoLetterSpent DEF OnceInv, OneInHand, Sending, NoLetter, OneEmailPerStep

LEMMA PickOnce ==
  ASSUME TypeInv, TypeInv', OnceInv, NEW r \in Recipients, PickRecipient(r)
  PROVE  OnceInv'
<1>1. /\ NoLetter /\ tick'.pc = "screen" /\ tick'.who = r
      /\ row' = recipient[r]
      /\ \A q \in Recipients \ {r} : tick'.held[q] = NoRow
  BY PickNoLetter
<1>2. Unfinished(recipient[r]) /\ tick.pc \notin Spending
  BY DEF PickRecipient, Candidates, Sendable, Incomplete, At, Spending
<1>3. OneInHand'
  BY <1>1, <1>2 DEF OneInHand, Unfinished
<1>4. QED
  BY <1>1, <1>2, <1>3, NoLetterSpent DEF OnceInv, NoLetter, OneEmailPerStep

\* The row in hand is finished, in the table as well unless it is gone from it.
LEMMA SettlesOnce ==
  ASSUME TypeInv, TypeInv', OnceInv, BarRecipient \/ FinishRecipient \/ FailRecipient
  PROVE  OnceInv'
<1>1. NoLetter /\ EmptyHanded
  BY SettlesNoLetter
<1>2. tick.pc \in Sending /\ tick.who \in Recipients /\ row \in RecipientRow
  BY InHandFacts DEF BarRecipient, FinishRecipient, FailRecipient, At,
                     WithRecipient, Sending
<1>3. PICK settled \in {Barred(row), OutOfSteps(row), Failed(row)} : Settle(settled)
  BY DEF BarRecipient, FinishRecipient, FailRecipient
<1>4. ~Unfinished(settled) /\ settled # NoRow
  <2>1. settled.status \in {"failed", "completed"}
    BY <1>2, <1>3 DEF Barred, OutOfSteps, Failed, RecipientRow
  <2>2. settled \in RecipientRow
    BY <1>2, <1>3, RecipientRowTypes
  <2>3. QED
    BY <2>1, <2>2, NoRowAssumption DEF Unfinished
<1> DEFINE rows == [tick.held EXCEPT ![tick.who] = settled]
<1>5. /\ rows[tick.who] = settled
      /\ \A r \in Recipients \ {tick.who} : rows[r] = NoRow
  BY <1>2 DEF OnceInv, OneInHand, TypeInv, TickInv, TickType
<1>6. \/ Save(rows)
      \/ recipient' = recipient /\ ~Savable(rows)
  BY <1>3 DEF Settle
<1> HIDE DEF rows
<1>7. \A r \in Recipients \ {tick.who} : recipient'[r] = recipient[r]
  BY <1>5, <1>6 DEF Save
<1>8. recipient'[tick.who] # NoRow => ~Unfinished(recipient'[tick.who])
  <2>1. CASE Save(rows)
    BY <1>2, <1>4, <1>5, <2>1 DEF Save
  <2>2. CASE recipient' = recipient /\ ~Savable(rows)
    BY <1>2, <1>5, <2>2 DEF Savable, Loaded, Live
  <2>3. QED
    BY <1>6, <2>1, <2>2
<1>9. \A x \in outbox : recipient'[x.to] # NoRow => Past(recipient'[x.to], x)
  BY <1>7, <1>8, OutboxTypes DEF OnceInv, AllSpent, Spent, InFlight, Past
<1>10. QED
  BY <1>1, <1>9, LetsGoOnce DEF NoLetter

LEMMA AdvanceOnce ==
  ASSUME TypeInv, TypeInv', OnceInv, AdvanceRecipient
  PROVE  OnceInv'
<1>1. /\ outbox' = outbox
      /\ tick.who \in Recipients /\ row \in RecipientRow
      /\ Onward[tick.who] = Advanced(row, tick.copy.steps)
      /\ \A r \in Recipients \ {tick.who} : Onward[r] = tick.held[r]
      /\ \/ Savable(Onward) /\ Save(Onward)
         \/ ~Savable(Onward) /\ recipient' = recipient /\ EmptyHanded
      /\ \/ EmptyHanded
         \/ tick'.pc = "cohort" /\ tick'.who = tick.who /\ tick'.held = Onward
  BY AdvanceFacts
<1> DEFINE next == Advanced(row, tick.copy.steps)
<1>2. tick.pc = "advance" /\ tick.pc \in Sending /\ tick.pc \in Spending
  BY DEF AdvanceRecipient, At, Sending, Spending, WithRecipient
<1>3. /\ next # NoRow /\ row.step \in Nat
      /\ next.step > row.step \/ (next.step >= row.step /\ ~Unfinished(next))
      /\ next.step \in Nat
  <2>1. row.step \in Nat /\ tick.copy.steps \in Nat
    BY <1>1, <1>2, InHandFacts DEF RecipientRow, CampaignRow, Steps, Sending,
                                  RowsAssumption
  <2>2. /\ row.step < tick.copy.steps => next.step = row.step + 1
        /\ ~(row.step < tick.copy.steps) =>
             next.step = row.step /\ next.status = "completed"
    BY <1>1 DEF Advanced, RecipientRow
  <2>3. next # NoRow
    <3>1. tick.copy.steps \in 0..MaxSteps
      BY <1>2, InHandFacts DEF CampaignRow, Sending
    <3>2. QED
      BY <1>1, <3>1, AdvancedType, NoRowAssumption
  <2>4. QED
    BY <2>1, <2>2, <2>3 DEF Unfinished
<1> HIDE DEF next
<1>4. \A r \in Recipients \ {tick.who} : Onward[r] = NoRow
  BY <1>1, <1>2 DEF OnceInv, OneInHand
<1>5. Onward[tick.who] = next
  BY <1>1 DEF next
<1>6. \A r \in Recipients \ {tick.who} : recipient'[r] = recipient[r]
  BY <1>1, <1>4 DEF Save
<1>7. recipient'[tick.who] # NoRow => recipient'[tick.who] = next
  <2>1. CASE Save(Onward)
    BY <1>1, <1>3, <1>5, <2>1 DEF Save
  <2>2. CASE ~Savable(Onward) /\ recipient' = recipient
    BY <1>1, <1>4, <2>2 DEF Savable, Loaded, Live
  <2>3. QED
    BY <1>1, <2>1, <2>2
<1>8. \A x \in outbox : x.to = tick.who => Past(next, x)
  <2> SUFFICES ASSUME NEW x \in outbox, x.to = tick.who PROVE Past(next, x)
    OBVIOUS
  <2>1. x.step \in Nat
    BY OutboxTypes
  <2>2. CASE row.step = x.step
    BY <1>3, <2>1, <2>2 DEF Past
  <2>3. CASE row.step # x.step
    <3>1. tick.held[x.to] = row /\ row # NoRow
      BY <1>1, NoRowAssumption DEF row
    <3>2. Past(row, x)
      BY <2>3, <3>1 DEF OnceInv, AllSpent, InFlight
    <3>3. row.step > x.step
      BY <1>2, <3>2 DEF Past, OnceInv, OneInHand
    <3>4. QED
      BY <1>3, <2>1, <3>3 DEF Past
  <2>4. QED
    BY <2>2, <2>3
<1>9. \A x \in outbox : recipient'[x.to] # NoRow => Past(recipient'[x.to], x)
  BY <1>6, <1>7, <1>8, OutboxTypes DEF OnceInv, AllSpent, Spent, InFlight
<1>10. CASE EmptyHanded
  BY <1>1, <1>9, <1>10, LetsGoOnce
<1>11. CASE tick'.pc = "cohort" /\ tick'.held = Onward
  <2>1. \A x \in outbox : tick'.held[x.to] # NoRow => Past(tick'.held[x.to], x)
    BY <1>4, <1>5, <1>8, <1>11, OutboxTypes
  <2>2. AllSpent'
    BY <1>1, <1>9, <2>1 DEF AllSpent, Spent, Past
  <2>3. QED
    BY <1>1, <1>11, <2>2 DEF OnceInv, OneInHand, Sending, OneEmailPerStep
<1>12. QED
  BY <1>1, <1>10, <1>11

\* The email that goes out is the only one of its recipient and step: the row in
\* hand is unfinished and nothing is in flight yet, so no email spent that step.
LEMMA AcceptedOnce ==
  ASSUME TypeInv, OnceInv, NEW lost \in BOOLEAN, HandoffAccepted(lost)
  PROVE  OnceInv'
<1>0. PICK email : email = [id |-> tick.mail, to |-> tick.who, step |-> row.step]
  OBVIOUS
<1>1. /\ tick.pc = "handoff" /\ tick.pc \in Sending /\ tick.pc \in LetterPcs
      /\ tick.pc \notin Spending
      /\ \E pc \in {"accepted", "failing"} : Goto(pc)
      /\ recipient' = recipient
      /\ outbox' = outbox \cup {email}
  BY <1>0 DEF HandoffAccepted, At, Sending, WithRecipient, LetterPcs, Spending,
              tables
<1>2. SameInHand /\ row' = row /\ tick'.pc \in Spending
  BY <1>1, GotoInHand DEF Spending
<1>3. /\ email.to = tick.who /\ email.step = row.step
      /\ tick.who \in Recipients /\ row \in RecipientRow
  BY <1>0, <1>1, LetterFacts
<1>4. InFlight(email)'
  BY <1>2, <1>3 DEF InFlight, SameInHand
<1>5. \A x \in outbox :
        /\ recipient[x.to] # NoRow => Past(recipient[x.to], x)
        /\ tick.held[x.to] # NoRow => Past(tick.held[x.to], x)
  BY <1>1 DEF OnceInv, AllSpent, Spent, InFlight
<1>6. AllSpent'
  BY <1>1, <1>2, <1>4, <1>5 DEF AllSpent, Spent, SameInHand, Past
<1>7. \A x \in outbox : ~(x.to = tick.who /\ x.step = row.step)
  <2> SUFFICES ASSUME NEW x \in outbox, x.to = tick.who, x.step = row.step
               PROVE  FALSE
    OBVIOUS
  <2>1. tick.held[x.to] = row /\ row # NoRow /\ row.step \in Nat
    BY <1>3, NoRowAssumption DEF row, RecipientRow, Steps
  <2>2. Past(row, x) /\ Unfinished(row)
    BY <1>1, <1>5, <2>1 DEF OnceInv, OneInHand
  <2>3. QED
    BY <2>1, <2>2 DEF Past
<1>8. OneEmailPerStep'
  BY <1>1, <1>3, <1>7 DEF OnceInv, OneEmailPerStep
<1>9. OneInHand'
  BY <1>1, <1>2 DEF OnceInv, OneInHand, SameInHand
<1>10. QED
  BY <1>6, <1>8, <1>9 DEF OnceInv

LEMMA LetterOnce ==
  ASSUME TypeInv, OnceInv, LetterStep
  PROVE  OnceInv'
<1>1. CASE \E lost \in BOOLEAN : HandoffAccepted(lost)
  BY <1>1, AcceptedOnce
<1>2. CASE ~ \E lost \in BOOLEAN : HandoffAccepted(lost)
  <2>1. outbox' = outbox
    BY <1>2 DEF LetterStep, InsertMessage, HandoffAtLimit, HandoffRefused,
                RecordSent, RecordSentThrows, RecordSendFailed, history
  <2>2. recipient' = recipient /\ (EmptyHanded \/ (SameInHand /\ row' = row))
    BY LetterStepRows
  <2>3. /\ tick.pc \in Sending /\ tick.who \in Recipients
        /\ tick.pc \in Spending =>
             tick'.pc \in Spending \/ recipient[tick.who] = NoRow
    <3>1. CASE InsertMessage \/ HandoffAtLimit \/ HandoffRefused
      <4>1. tick.pc \in {"prepare", "handoff"}
        BY <3>1 DEF InsertMessage, HandoffAtLimit, HandoffRefused, At
      <4>2. QED
        BY <4>1, InHandFacts DEF Sending, Spending, WithRecipient
    <3>2. CASE RecordSent \/ RecordSentThrows
      <4>1. tick.pc = "accepted" /\ \E pc \in {"advance", "failing"} : Goto(pc)
        BY <3>2 DEF RecordSent, RecordSentThrows, At
      <4>2. QED
        BY <4>1, InHandFacts, GotoInHand DEF Sending, Spending, WithRecipient
    <3>3. CASE RecordSendFailed
      <4>1. /\ tick.pc = "failing"
            /\ Goto("fail") \/ ~MessageSavable(letter)
        BY <3>3 DEF RecordSendFailed, At
      <4>2. tick.who \in Recipients /\ letter.to = tick.who
        BY <4>1, InHandFacts DEF WithRecipient, letter
      <4>3. ~MessageSavable(letter) => recipient[tick.who] = NoRow
        BY <4>2 DEF MessageSavable, Live
      <4>4. QED
        BY <4>1, <4>2, <4>3, GotoInHand DEF Sending, Spending, WithRecipient
    <3>4. QED
      BY <1>2, <3>1, <3>2, <3>3 DEF LetterStep
  <2>4. CASE tick.pc \in Spending => tick'.pc \in Spending
    <3>1. CASE SameInHand /\ row' = row
      BY <2>1, <2>2, <2>3, <2>4, <3>1, StaysInHandOnce
    <3>2. CASE EmptyHanded
      <4>1. tick.pc \notin Spending
        BY <2>4, <3>2 DEF EmptyHanded, Spending, WithRecipient
      <4>2. \A x \in outbox : recipient'[x.to] # NoRow => Past(recipient'[x.to], x)
        BY <2>2, <4>1 DEF OnceInv, AllSpent, Spent, InFlight
      <4>3. QED
        BY <2>1, <3>2, <4>2, LetsGoOnce
    <3>3. QED
      BY <2>2, <3>1, <3>2
  <2>5. CASE recipient[tick.who] = NoRow /\ tick.pc \in Spending
             /\ tick'.pc \notin Spending
    <3>1. EmptyHanded
      <4>1. CASE RecordSendFailed
        BY <2>5, <4>1, GotoInHand, LetGo DEF RecordSendFailed, Spending
      <4>2. CASE RecordSent \/ RecordSentThrows
        BY <2>5, <4>2, GotoInHand DEF RecordSent, RecordSentThrows, Spending
      <4>3. CASE InsertMessage \/ HandoffAtLimit \/ HandoffRefused
        BY <2>5, <4>3 DEF InsertMessage, HandoffAtLimit, HandoffRefused, At,
                          Spending
      <4>4. QED
        BY <1>2, <4>1, <4>2, <4>3 DEF LetterStep
    <3>2. \A x \in outbox : recipient'[x.to] # NoRow => Past(recipient'[x.to], x)
      BY <2>2, <2>5 DEF OnceInv, AllSpent, Spent, InFlight
    <3>3. QED
      BY <2>1, <3>1, <3>2, LetsGoOnce
  <2>6. QED
    BY <2>3, <2>4, <2>5
<1>3. QED
  BY <1>1, <1>2

LEMMA SchedulerOnce ==
  ASSUME TypeInv, TypeInv', OnceInv, SchedulerStep, ~BreaksOff
  PROVE  OnceInv'
<1>1. CASE \/ LoadCampaigns \/ ReadPausedCampaigns \/ ResumeCampaigns \/ EndTick
           \/ CountIncomplete \/ CloseCampaign \/ MarkCampaignSent
           \/ PickNobody \/ NoSender \/ TickFails
           \/ \E c \in Campaigns :
                SkipCampaign(c) \/ ExhaustedCampaign(c) \/ ProcessCampaign(c)
  <2>1. tick.pc \notin Spending
    BY <1>1 DEF LoadCampaigns, ReadPausedCampaigns, ResumeCampaigns, EndTick,
                CountIncomplete, CloseCampaign, MarkCampaignSent, PickNobody,
                NoSender, SkipCampaign, ExhaustedCampaign, ProcessCampaign,
                At, BreaksOff, Spending
  <2>2. QED
    BY <1>1, <2>1, LoopNoLetter, LoopOnce
<1>2. CASE StartTick \/ ReadUnscheduled \/ ReadFollowUps \/ ReadCohort
  <2>1. tick.pc \notin Spending
    BY <1>2 DEF StartTick, ReadUnscheduled, ReadFollowUps, ReadCohort, At, Spending
  <2>2. QED
    BY <1>2, <2>1, ReadsNoLetter, LoopOnce
<1>3. CASE ResumeRecipients \/ SaveUnscheduled \/ SaveFollowUps \/ SaveCohort
  <2>1. tick.pc \notin Spending
    BY <1>3 DEF ResumeRecipients, SaveUnscheduled, SaveFollowUps, SaveCohort,
                At, Spending
  <2>2. NoLetter /\ EmptyHanded
    BY <1>3, SavesNoLetter
  <2>3. QED
    BY <2>1, <2>2, LoopOnce DEF EmptyHanded
<1>4. CASE ReadExclusionList
  <2>1. /\ tick.pc = "screen" /\ NoLetter /\ SameInHand /\ recipient' = recipient
    BY <1>4, ScreenNoLetter DEF ReadExclusionList, At
  <2>2. QED
    BY <2>1, StaysInHandOnce
       DEF NoLetter, Sending, Spending, WithRecipient, row, SameInHand
<1>5. QED
  BY <1>1, <1>2, <1>3, <1>4, PickOnce, SettlesOnce, AdvanceOnce, LetterOnce
     DEF SchedulerStep, LetterStep

-----------------------------------------------------------------------------
\* The handlers: a row is created for a recipient that was never mailed, kept
\* on its step, or saved from a copy.

Aside == tick' = tick /\ outbox' = outbox

LEMMA HandlerAside ==
  ASSUME NEW w \in Workers, HandlerStep(w)
  PROVE  Aside
<1>1. CASE \/ UpdateRecipient(w) \/ MarkReplyAsRead(w) \/ PauseRecipient(w)
           \/ StopRecipient(w) \/ ResumeRecipient(w) \/ RecordReply(w)
           \/ RecordOpen(w) \/ RecordUnsubscribe(w) \/ RecordBounce(w)
           \/ ExcludeRecipientGlobally(w) \/ ExcludeEmail(w)
           \/ AddRecipient(w) \/ DeleteCampaign(w)
  BY <1>1 DEF Aside, UpdateRecipient, MarkReplyAsRead, PauseRecipient,
              StopRecipient, ResumeRecipient, RecordReply, RecordOpen,
              RecordUnsubscribe, RecordBounce, ExcludeRecipientGlobally,
              ExcludeEmail, AddRecipient, DeleteCampaign, Edits, Begin, history
<1>2. CASE \/ PauseCampaign(w) \/ StopSender(w) \/ StopCampaign(w)
           \/ ResumeCampaign(w) \/ UpdateStatus(w) \/ Update(w)
           \/ ResetToDraft(w) \/ Schedule(w)
  BY <1>2 DEF Aside, PauseCampaign, StopSender, StopCampaign, ResumeCampaign,
              UpdateStatus, Update, ResetToDraft, Schedule, EditsCampaign,
              Begin, history
<1>3. CASE \/ SaveMessage(w) \/ ReadBounced(w) \/ SaveEdit(w)
           \/ ExcludeAddress(w) \/ StopAll(w) \/ SaveCampaign(w)
           \/ ReplaceChildren(w) \/ SaveReset(w) \/ SaveSchedule(w)
           \/ SaveAddition(w) \/ DeleteById(w) \/ HandlerFails(w)
  BY <1>3 DEF Aside, SaveMessage, ReadBounced, SaveEdit, ExcludeAddress,
              StopAll, SaveCampaign, ReplaceChildren, SaveReset, SaveSchedule,
              SaveAddition, DeleteById, HandlerFails, history
<1>4. QED
  BY <1>1, <1>2, <1>3 DEF HandlerStep

LEMMA HandlerRows ==
  ASSUME TypeInv, NEW w \in Workers, HandlerStep(w), ~SaveEdit(w),
         NEW r \in Recipients, recipient'[r] # NoRow
  PROVE  \/ life[r] = "unborn"
         \/ recipient[r] # NoRow /\ NotBehind(recipient'[r], recipient[r])
<1>1. recipient[r] # NoRow => /\ NotBehind(recipient[r], recipient[r])
                              /\ NotBehind(Stopped(recipient[r]), recipient[r])
  BY RowDescends, NeverBehind
<1>2. CASE recipient'[r] = recipient[r]
  BY <1>1, <1>2
<1>3. CASE StopAll(w)
  BY <1>1, <1>3 DEF StopAll, Live
<1>4. CASE SaveReset(w) \/ DeleteById(w)
  <2>1. recipient'[r] = recipient[r]
    BY <1>4 DEF SaveReset, DeleteById, Erase
  <2>2. QED
    BY <1>1, <2>1
<1>5. CASE SaveSchedule(w)
  <2>1. recipient'[r] = recipient[r] \/ life[r] = "unborn"
    BY <1>5 DEF SaveSchedule, Audiences, Unborn
  <2>2. QED
    BY <1>1, <2>1
<1>6. CASE SaveAddition(w)
  <2>1. recipient'[r] = recipient[r] \/ life[r] = "unborn"
    BY <1>6 DEF SaveAddition, TypeInv, TablesInv, Rows
  <2>2. QED
    BY <1>1, <2>1
<1>7. \/ recipient' = recipient \/ StopAll(w) \/ SaveReset(w) \/ DeleteById(w)
      \/ SaveSchedule(w) \/ SaveAddition(w)
  <2>1. CASE \/ UpdateRecipient(w) \/ MarkReplyAsRead(w) \/ PauseRecipient(w)
             \/ StopRecipient(w) \/ ResumeRecipient(w) \/ RecordReply(w)
             \/ RecordOpen(w) \/ RecordUnsubscribe(w) \/ RecordBounce(w)
             \/ ExcludeRecipientGlobally(w) \/ ExcludeEmail(w)
             \/ AddRecipient(w) \/ DeleteCampaign(w)
    BY <2>1 DEF UpdateRecipient, MarkReplyAsRead, PauseRecipient,
                StopRecipient, ResumeRecipient, RecordReply, RecordOpen,
                RecordUnsubscribe, RecordBounce, ExcludeRecipientGlobally,
                ExcludeEmail, AddRecipient, DeleteCampaign, Edits, Begin, tables
  <2>2. CASE \/ PauseCampaign(w) \/ StopSender(w) \/ StopCampaign(w)
             \/ ResumeCampaign(w) \/ UpdateStatus(w) \/ Update(w)
             \/ ResetToDraft(w) \/ Schedule(w)
    BY <2>2 DEF PauseCampaign, StopSender, StopCampaign, ResumeCampaign,
                UpdateStatus, Update, ResetToDraft, Schedule, EditsCampaign,
                Begin, tables
  <2>3. CASE \/ SaveMessage(w) \/ ReadBounced(w) \/ ExcludeAddress(w)
             \/ SaveCampaign(w) \/ ReplaceChildren(w) \/ HandlerFails(w)
    BY <2>3 DEF SaveMessage, ReadBounced, ExcludeAddress, SaveCampaign,
                ReplaceChildren, HandlerFails, tables
  <2>4. QED
    BY <2>1, <2>2, <2>3 DEF HandlerStep
<1>8. QED
  BY <1>2, <1>3, <1>4, <1>5, <1>6, <1>7

LEMMA AsideOnce ==
  ASSUME TypeInv, OnceInv, Aside,
         \A x \in outbox :
           InFlight(x) \/ (recipient'[x.to] # NoRow => Past(recipient'[x.to], x))
  PROVE  OnceInv'
<1>1. row' = row
  BY DEF Aside, row
<1>2. \A x : InFlight(x)' <=> InFlight(x)
  BY <1>1 DEF Aside, InFlight
<1>3. AllSpent'
  BY <1>2 DEF OnceInv, AllSpent, Spent, Aside, Past
<1>4. OneInHand' /\ OneEmailPerStep'
  BY <1>1 DEF OnceInv, OneInHand, OneEmailPerStep, Aside
<1>5. QED
  BY <1>3, <1>4 DEF OnceInv

LEMMA HandlerOnce ==
  ASSUME TypeInv, TypeInv', LedgerInv, OnceInv, NEW w \in Workers,
         HandlerStep(w), ~TurnsBack(w)
  PROVE  OnceInv'
<1> SUFFICES ASSUME NEW x \in outbox, ~InFlight(x), recipient'[x.to] # NoRow
             PROVE  Past(recipient'[x.to], x)
  BY AsideOnce, HandlerAside
<1> DEFINE r == x.to
<1>1. r \in Recipients /\ x.step \in Nat
  BY OutboxTypes
<1>2. recipient[r] # NoRow => Past(recipient[r], x) /\ recipient[r].step \in Nat
  BY <1>1, StepTypes DEF OnceInv, AllSpent, Spent
<1>3. recipient'[r].step \in Nat
  BY <1>1 DEF TypeInv, TablesInv, Rows, RecipientRow, Steps
<1>4. life[r] # "unborn"
  BY DEF LedgerInv, BornInv, Born
<1>5. CASE ~SaveEdit(w)
  <2>1. recipient[r] # NoRow /\ NotBehind(recipient'[r], recipient[r])
    BY <1>1, <1>4, <1>5, HandlerRows
  <2>2. QED
    BY <1>1, <1>2, <1>3, <2>1, PastOnward
<1>6. CASE SaveEdit(w)
  <2> DEFINE rows == [NoRows EXCEPT ![task[w].who] = task[w].edit]
  <2>1. Save(rows) \/ recipient' = recipient
    BY <1>6 DEF SaveEdit
  <2>2. /\ r = task[w].who => rows[r] = task[w].edit
        /\ r # task[w].who => rows[r] = NoRow
    BY <1>1 DEF NoRows
  <2> HIDE DEF rows
  <2>3. \/ recipient'[r] = recipient[r]
        \/ r = task[w].who /\ recipient'[r] = task[w].edit
    BY <1>1, <2>1, <2>2 DEF Save
  <2>4. r = task[w].who => Past(task[w].edit, x)
    BY <1>6 DEF TurnsBack
  <2>5. CASE recipient'[r] = recipient[r]
    BY <1>2, <2>5
  <2>6. CASE r = task[w].who /\ recipient'[r] = task[w].edit
    BY <2>4, <2>6
  <2>7. QED
    BY <2>3, <2>5, <2>6
<1>7. QED
  BY <1>5, <1>6

-----------------------------------------------------------------------------
\* The whole system

LEMMA InitOnce == Init => OnceInv
<1> SUFFICES ASSUME Init PROVE OnceInv
  OBVIOUS
<1>1. outbox = {} /\ tick.pc = "idle"
  BY DEF Init, Resting
<1>2. QED
  BY <1>1 DEF OnceInv, AllSpent, OneInHand, OneEmailPerStep, Sending, WithRecipient

LEMMA NextOnce ==
  TypeInv /\ TypeInv' /\ LedgerInv /\ OnceInv /\ [Next /\ Calm]_vars => OnceInv'
<1> SUFFICES ASSUME TypeInv, TypeInv', LedgerInv, OnceInv, [Next /\ Calm]_vars
             PROVE  OnceInv'
  OBVIOUS
<1>1. CASE SchedulerStep /\ Calm
  BY <1>1, SchedulerOnce DEF Calm
<1>2. CASE (\E w \in Workers : HandlerStep(w)) /\ Calm
  BY <1>2, HandlerOnce DEF Calm
<1>3. CASE Crash /\ Calm
  <2>1. /\ outbox' = outbox /\ recipient' = recipient /\ tick' = Resting
        /\ tick.pc \notin Spending
    BY <1>3 DEF Crash, Calm, BreaksOff, tables, history
  <2>2. EmptyHanded
    BY <2>1, LetGo
  <2>3. QED
    BY <2>1, <2>2, LetsGoOnce DEF OnceInv, AllSpent, Spent, InFlight
<1>4. CASE RemoveExclusion \/ UNCHANGED vars
  <2>1. Aside /\ recipient' = recipient
    BY <1>4 DEF RemoveExclusion, vars, tables, history, Aside
  <2>2. QED
    BY <2>1, AsideOnce DEF OnceInv, AllSpent, Spent
<1>5. QED
  BY <1>1, <1>2, <1>3, <1>4 DEF Next

(***************************************************************************)
(* Nobody gets a step of the sequence twice, unless the run breaks off     *)
(* between the provider's answer and the recipient's save, or a handler    *)
(* saves after it the recipient it read before (processCampaign and the    *)
(* saves of campaign-recipient and campaign-event services).               *)
(***************************************************************************)
THEOREM OnceWhileCalm == CalmSpec => []OneEmailPerStep
<1>1. CalmSpec => Spec
  <2>1. [Next /\ Calm]_vars => [Next]_vars
    OBVIOUS
  <2>2. QED
    BY <2>1, PTL DEF CalmSpec, Spec
<1>2. TypeInv /\ LedgerInv /\ OnceInv /\ [Next /\ Calm]_vars => OnceInv'
  BY NextOnce, NextTypes
<1>3. OnceInv => OneEmailPerStep
  BY DEF OnceInv
<1>4. QED
  BY <1>1, <1>2, <1>3, InitOnce, TypesHold, LedgerHolds, PTL DEF CalmSpec

-----------------------------------------------------------------------------
(***************************************************************************)
(* When is it calm?  With no restarts and no failing calls, and as long as *)
(* nobody edits recipients: campaigns may be paused, stopped, rescheduled, *)
(* edited, extended and deleted, addresses excluded, emails opened,        *)
(* bounced and unsubscribed from.  A handler of these that saves a         *)
(* recipient has finished it.                                              *)
(***************************************************************************)
RowEditors ==
  {"updateRecipient", "markReplyAsRead", "pauseRecipient", "stopRecipient",
   "resumeRecipient", "recordReply"}

Steady ==
  /\ MaxCrashes = 0
  /\ MaxFaults = 0
  /\ Operations \cap RowEditors = {}

Finishing(t) == t.edit # NoRow /\ t.stage # "add" => ~Unfinished(t.edit)

EditsFinish == \A w \in Workers : Finishing(task[w])

LEMMA FinishingTask ==
  ASSUME TypeInv, EditsFinish, NEW w \in Workers, NEW t, Finishing(t),
         task' = [task EXCEPT ![w] = t]
  PROVE  EditsFinish'
BY DEF EditsFinish, TypeInv, TasksInv

LEMMA DoneFinish ==
  ASSUME TypeInv, EditsFinish, NEW w \in Workers, Done(w)
  PROVE  EditsFinish'
<1>1. Finishing(NoTask)
  BY DEF Finishing, NoTask
<1>2. QED
  BY <1>1, FinishingTask DEF Done

LEMMA ThenFinish ==
  ASSUME TypeInv, EditsFinish, NEW w \in Workers, NEW stage,
         task[w].stage # "add", Then(w, stage)
  PROVE  EditsFinish'
<1> DEFINE t == [task[w] EXCEPT !.stage = stage]
<1>1. task' = [task EXCEPT ![w] = t]
  BY DEF Then
<1>2. t.edit = task[w].edit
  BY DEF TypeInv, TasksInv, TaskType
<1>3. Finishing(t)
  BY <1>2 DEF EditsFinish, Finishing
<1>4. QED
  BY <1>1, <1>3, FinishingTask

LEMMA BeginFinish ==
  ASSUME TypeInv, EditsFinish, NEW w \in Workers, NEW op, NEW begun,
         Begin(w, op, begun), Finishing(begun)
  PROVE  EditsFinish'
BY FinishingTask DEF Begin

\* Handlers that begin without a recipient row to save
LEMMA EmptyBeginsFinish ==
  ASSUME TypeInv, EditsFinish, NEW w \in Workers,
         \/ ExcludeRecipientGlobally(w) \/ ExcludeEmail(w) \/ DeleteCampaign(w)
         \/ AddRecipient(w) \/ RecordOpen(w) \/ RecordBounce(w)
         \/ PauseCampaign(w) \/ StopSender(w) \/ StopCampaign(w)
         \/ ResumeCampaign(w) \/ UpdateStatus(w) \/ Update(w)
         \/ ResetToDraft(w) \/ Schedule(w)
  PROVE  EditsFinish'
<1>1. CASE \/ PauseCampaign(w) \/ StopSender(w) \/ StopCampaign(w)
           \/ ResumeCampaign(w) \/ UpdateStatus(w) \/ Update(w)
           \/ ResetToDraft(w) \/ Schedule(w)
  <2>1. PICK op, stage, c, edited : EditsCampaign(w, op, stage, c, edited)
    BY <1>1 DEF PauseCampaign, StopSender, StopCampaign, ResumeCampaign,
                UpdateStatus, Update, ResetToDraft, Schedule
  <2> DEFINE begun == [NoTask EXCEPT !.op = op, !.stage = stage, !.camp = c,
                                     !.copy = edited]
  <2>2. Finishing(begun)
    BY DEF Finishing, NoTask
  <2>3. QED
    BY <2>1, <2>2, BeginFinish DEF EditsCampaign
<1>2. CASE AddRecipient(w)
  <2>1. PICK c, r, new :
          Begin(w, "addRecipient",
             [NoTask EXCEPT !.op = "addRecipient", !.stage = "add", !.who = r,
                            !.edit = new, !.camp = c, !.copy = campaign[c]])
    BY <1>2 DEF AddRecipient
  <2> DEFINE begun ==
        [NoTask EXCEPT !.op = "addRecipient", !.stage = "add", !.who = r,
                       !.edit = new, !.camp = c, !.copy = campaign[c]]
  <2>2. Finishing(begun)
    BY DEF Finishing, NoTask
  <2>3. QED
    BY <2>1, <2>2, BeginFinish
<1>3. CASE DeleteCampaign(w)
  <2>1. PICK c : Begin(w, "deleteCampaign",
                       [NoTask EXCEPT !.op = "deleteCampaign",
                                      !.stage = "delete", !.camp = c])
    BY <1>3 DEF DeleteCampaign
  <2> DEFINE begun == [NoTask EXCEPT !.op = "deleteCampaign",
                                     !.stage = "delete", !.camp = c]
  <2>2. Finishing(begun)
    BY DEF Finishing, NoTask
  <2>3. QED
    BY <2>1, <2>2, BeginFinish
<1>4. CASE ExcludeRecipientGlobally(w) \/ ExcludeEmail(w)
  <2>1. PICK op, r :
          Begin(w, op, [NoTask EXCEPT !.op = op, !.who = r, !.stage = "exclude"])
    BY <1>4 DEF ExcludeRecipientGlobally, ExcludeEmail
  <2> DEFINE begun == [NoTask EXCEPT !.op = op, !.who = r, !.stage = "exclude"]
  <2>2. Finishing(begun)
    BY DEF Finishing, NoTask
  <2>3. QED
    BY <2>1, <2>2, BeginFinish
<1>5. CASE RecordOpen(w) \/ RecordBounce(w)
  <2>1. PICK op, r, m, note :
          Begin(w, op, [NoTask EXCEPT !.op = op, !.stage = "saveMessage",
                                      !.who = r, !.mail = m, !.note = note])
    BY <1>5 DEF RecordOpen, RecordBounce
  <2> DEFINE begun == [NoTask EXCEPT !.op = op, !.stage = "saveMessage",
                                     !.who = r, !.mail = m, !.note = note]
  <2>2. Finishing(begun)
    BY DEF Finishing, NoTask
  <2>3. QED
    BY <2>1, <2>2, BeginFinish
<1>6. QED
  BY <1>1, <1>2, <1>3, <1>4, <1>5

LEMMA UnsubscribeFinishes ==
  ASSUME TypeInv, EditsFinish, NEW w \in Workers, RecordUnsubscribe(w)
  PROVE  EditsFinish'
<1>1. PICK r \in Live :
        \/ Begin(w, "recordUnsubscribe",
                 [NoTask EXCEPT !.op = "recordUnsubscribe", !.who = r,
                                !.stage = "exclude"])
        \/ Edits(w, "recordUnsubscribe", r, Unsubscribed(recipient[r]))
  BY DEF RecordUnsubscribe
<1>2. ~Unfinished(Unsubscribed(recipient[r]))
  <2>1. recipient[r] \in RecipientRow
    BY RowDescends DEF Live
  <2>2. QED
    BY <2>1 DEF Unsubscribed, Unfinished, RecipientRow
<1> DEFINE read == [NoTask EXCEPT !.op = "recordUnsubscribe", !.who = r,
                                  !.stage = "exclude"]
           edits == [NoTask EXCEPT !.op = "recordUnsubscribe",
                                   !.stage = "saveRecipient", !.who = r,
                                   !.edit = Unsubscribed(recipient[r])]
<1>3. Finishing(read)
  BY DEF Finishing, NoTask
<1>4. Finishing(edits)
  BY <1>2 DEF Finishing, NoTask
<1>5. QED
  BY <1>1, <1>3, <1>4, BeginFinish DEF Edits

LEMMA ReadBouncedFinishes ==
  ASSUME TypeInv, EditsFinish, NEW w \in Workers, ReadBounced(w)
  PROVE  EditsFinish'
<1>1. CASE Done(w)
  BY <1>1, DoneFinish
<1>2. CASE ~Done(w)
  <2> DEFINE failed == Failed(recipient[task[w].who])
             t == [task[w] EXCEPT !.stage = "saveRecipient", !.edit = failed]
  <2>1. task' = [task EXCEPT ![w] = t] /\ task[w].who \in Live
    BY <1>2 DEF ReadBounced
  <2>2. recipient[task[w].who] \in RecipientRow
    BY <2>1, RowDescends DEF Live
  <2>3. ~Unfinished(failed)
    BY <2>2 DEF Failed, Unfinished, RecipientRow
  <2>4. t.edit = failed
    BY DEF TypeInv, TasksInv, TaskType
  <2>5. Finishing(t)
    BY <2>3, <2>4 DEF Finishing
  <2>6. QED
    BY <2>1, <2>5, FinishingTask
<1>3. QED
  BY <1>1, <1>2

LEMMA HandlerFinishes ==
  ASSUME Steady, TypeInv, EditsFinish, NEW w \in Workers, HandlerStep(w)
  PROVE  EditsFinish'
<1>1. CASE \/ UpdateRecipient(w) \/ MarkReplyAsRead(w) \/ PauseRecipient(w)
           \/ StopRecipient(w) \/ ResumeRecipient(w) \/ RecordReply(w)
  <2>1. \E op \in RowEditors : op \in Operations
    BY <1>1 DEF UpdateRecipient, MarkReplyAsRead, PauseRecipient, StopRecipient,
                ResumeRecipient, RecordReply, Edits, Begin, RowEditors
  <2>2. QED
    BY <2>1 DEF Steady
<1>2. CASE \/ SaveMessage(w) \/ SaveEdit(w) \/ ExcludeAddress(w) \/ StopAll(w)
           \/ SaveCampaign(w) \/ ReplaceChildren(w) \/ SaveReset(w)
           \/ SaveSchedule(w) \/ SaveAddition(w) \/ DeleteById(w)
           \/ HandlerFails(w)
  <2>1. Done(w) \/ (task[w].stage # "add" /\ \E stage : Then(w, stage))
    BY <1>2 DEF SaveMessage, SaveEdit, ExcludeAddress, StopAll, SaveCampaign,
                ReplaceChildren, SaveReset, SaveSchedule, SaveAddition,
                DeleteById, HandlerFails, Stage
  <2>2. QED
    BY <2>1, DoneFinish, ThenFinish
<1>3. QED
  BY <1>1, <1>2, EmptyBeginsFinish, UnsubscribeFinishes, ReadBouncedFinishes
     DEF HandlerStep

LEMMA NextFinishes ==
  ASSUME Steady
  PROVE  TypeInv /\ EditsFinish /\ [Next]_vars => EditsFinish'
<1> SUFFICES ASSUME TypeInv, EditsFinish, [Next]_vars PROVE EditsFinish'
  OBVIOUS
<1>1. CASE SchedulerStep \/ RemoveExclusion \/ UNCHANGED vars
  <2>1. task' = task
    BY <1>1, SchedulerAside DEF RemoveExclusion, vars
  <2>2. QED
    BY <2>1 DEF EditsFinish, Finishing
<1>2. CASE Crash
  BY <1>2 DEF Crash, EditsFinish, Finishing, NoTask
<1>3. QED
  BY <1>1, <1>2, HandlerFinishes DEF Next

LEMMA SteadyIsCalm ==
  ASSUME Steady
  PROVE  TypeInv /\ EditsFinish /\ [Next]_vars => [Next /\ Calm]_vars
<1> SUFFICES ASSUME TypeInv, EditsFinish, Next PROVE Calm
  OBVIOUS
<1>1. ~Crash /\ ~TickFails
  BY DEF Steady, Crash, TickFails, TypeInv, TablesInv
<1>2. ASSUME NEW w \in Workers PROVE ~TurnsBack(w)
  <2>1. SaveEdit(w) => ~Unfinished(task[w].edit)
    BY NoRowAssumption DEF SaveEdit, Stage, EditsFinish, Finishing, TypeInv,
                           TasksInv, TaskInv, Ready
  <2>2. QED
    BY <2>1 DEF TurnsBack, Past
<1>3. QED
  BY <1>1, <1>2 DEF Calm, BreaksOff

(***************************************************************************)
(* No step is emailed twice to a recipient in a process that is not        *)
(* restarted, whose database calls return, and while nobody edits          *)
(* recipients one by one, whatever else is done to campaigns, addresses    *)
(* and messages at the same time.                                          *)
(***************************************************************************)
THEOREM OnceWhenSteady == Steady /\ Spec => []OneEmailPerStep
<1> SUFFICES ASSUME Steady PROVE Spec => []OneEmailPerStep
  OBVIOUS
<1>1. Init => EditsFinish
  BY DEF Init, EditsFinish, Finishing, NoTask
<1>2. TypeInv /\ EditsFinish /\ [Next]_vars => EditsFinish' /\ [Next /\ Calm]_vars
  BY NextFinishes, SteadyIsCalm
<1>3. Spec => CalmSpec
  BY <1>1, <1>2, TypesHold, PTL DEF Spec, CalmSpec
<1>4. QED
  BY <1>3, OnceWhileCalm, PTL
=============================================================================
