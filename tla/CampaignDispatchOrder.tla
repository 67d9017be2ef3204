----------------------- MODULE CampaignDispatchOrder -----------------------
(***************************************************************************)
(* Proof that the steps of a sequence reach a recipient in order, whatever *)
(* stale copies the handlers and the scheduler write over each other.      *)
(*                                                                         *)
(* The invariant is that no recipient row, in the table or in anybody's    *)
(* memory, claims a step that was not delivered.  A copy that claims too   *)
(* little may be saved at any time (the pipeline then sends a step again); *)
(* one that claims too much would let a later step overtake.  Emails are   *)
(* never taken back, so a claim that was true when a row was read is true  *)
(* when it is written.                                                     *)
(***************************************************************************)
EXTENDS CampaignDispatchTypes

OrderInv == ClaimsOfRows /\ ClaimsOfTick /\ ClaimsOfTasks /\ StepsInOrder

\* What a step writes to the table, the tick's memory and the handlers' memory
\* claims no more than had been delivered before the step.
RowsFollow ==
  \A r \in Recipients : recipient'[r] # NoRow => Claims(r, recipient'[r])

HeldFollow ==
  \A r \in Recipients : tick'.held[r] # NoRow => Claims(r, tick'.held[r])

EditsFollow ==
  \A w \in Workers :
    task'[w].edit # NoRow =>
      task'[w].who \in Recipients /\ Claims(task'[w].who, task'[w].edit)

LEMMA ClaimsStay ==
  ASSUME outbox \subseteq outbox', NEW r, NEW x, Claims(r, x)
  PROVE  Claims(r, x)'
BY DEF Claims, Delivered

LEMMA OrderStep ==
  ASSUME outbox \subseteq outbox', RowsFollow, HeldFollow, EditsFollow,
         StepsInOrder',
         (tick.pc \in WithRecipient => row.disposition = "eligible")',
         (tick.pc \in {"accepted", "advance"} => Delivered(tick.who, row.step))'
  PROVE  OrderInv'
<1>1. ClaimsOfRows'
  BY ClaimsStay DEF ClaimsOfRows, RowsFollow
<1>2. ClaimsOfTick'
  BY ClaimsStay DEF ClaimsOfTick, HeldFollow
<1>3. ClaimsOfTasks'
  BY ClaimsStay DEF ClaimsOfTasks, EditsFollow
<1>4. QED
  BY <1>1, <1>2, <1>3 DEF OrderInv

\* The steps that send nothing and do not claim to have
LEMMA QuietStep ==
  ASSUME OrderInv, outbox' = outbox, RowsFollow, HeldFollow, EditsFollow,
         tick'.pc \notin {"accepted", "advance"},
         tick'.pc \in WithRecipient => row'.disposition = "eligible"
  PROVE  OrderInv'
<1>1. StepsInOrder'
  BY DEF OrderInv, StepsInOrder, Delivered
<1>2. (tick.pc \in WithRecipient => row.disposition = "eligible")'
  BY DEF WithRecipient
<1>3. QED
  BY <1>1, <1>2, OrderStep

-----------------------------------------------------------------------------
\* The edits of a recipient row: only Advanced claims a delivery.

LEMMA ClaimOf ==
  ASSUME NEW r, NEW x, NEW y, Claims(r, x), y.step = x.step,
         y.disposition = "done" => x.disposition = "done"
  PROVE  Claims(r, y)
BY DEF Claims

LEMMA EditsClaimNothing ==
  ASSUME NEW r, NEW x \in RecipientRow, Claims(r, x)
  PROVE  /\ Claims(r, Resumed(x))
         /\ Claims(r, Paused(x))
         /\ Claims(r, Stopped(x))
         /\ Claims(r, Replied(x))
         /\ Claims(r, Unsubscribed(x))
         /\ Claims(r, Failed(x))
         /\ Claims(r, Barred(x))
         /\ Claims(r, OutOfSteps(x))
         /\ \A c : Claims(r, Categorised(x, c))
         /\ Claims(r, [x EXCEPT !.timed = TRUE])
<1>1. ASSUME NEW y \in {Resumed(x), Paused(x), Stopped(x), Replied(x),
                        Unsubscribed(x), Failed(x), Barred(x), OutOfSteps(x),
                        [x EXCEPT !.timed = TRUE]}
      PROVE  y.step = x.step /\ (y.disposition = "done" => x.disposition = "done")
  BY <1>1 DEF RecipientRow, Resumed, Paused, Stopped, Replied, Unsubscribed,
              Failed, Barred, OutOfSteps
<1>2. ASSUME NEW c
      PROVE  /\ Categorised(x, c).step = x.step
             /\ Categorised(x, c).disposition = x.disposition
  BY DEF RecipientRow, Categorised
<1>3. QED
  BY <1>1, <1>2, ClaimOf

LEMMA PatchClaimsNothing ==
  ASSUME NEW r, NEW x \in RecipientRow, Claims(r, x),
         NEW d \in (Dispositions \ {"done"}) \cup {"keep"}
  PROVE  Claims(r, Disposed(x, d))
<1>1. /\ Disposed(x, d).step = x.step
      /\ Disposed(x, d).disposition = "done" => x.disposition = "done"
  BY DEF RecipientRow, Disposed
<1>2. QED
  BY <1>1, ClaimOf

LEMMA AdvancedClaims ==
  ASSUME NEW r, NEW x \in RecipientRow, NEW n, Claims(r, x),
         Delivered(r, x.step), x.disposition = "eligible"
  PROVE  Claims(r, Advanced(x, n))
<1>1. CASE x.step < n
  <2>1. /\ Advanced(x, n).step = x.step + 1
        /\ Advanced(x, n).disposition = x.disposition
    BY <1>1 DEF RecipientRow, Advanced
  <2>2. x.step \in Nat
    BY DEF RecipientRow, Steps
  <2>3. \A k \in Steps : k < x.step + 1 => k < x.step \/ k = x.step
    BY <2>2 DEF Steps
  <2>4. QED
    BY <2>1, <2>3 DEF Claims
<1>2. CASE ~(x.step < n)
  <2>1. Advanced(x, n).step = x.step
    BY <1>2 DEF RecipientRow, Advanced
  <2>2. QED
    BY <2>1 DEF Claims
<1>3. QED
  BY <1>1, <1>2

LEMMA NewRecipientClaims ==
  ASSUME NEW r, NEW timed
  PROVE  Claims(r, NewRecipient(timed))
BY DEF Claims, NewRecipient, Steps

-----------------------------------------------------------------------------
\* The parts of a step

LEMMA RowsStay ==
  ASSUME OrderInv, recipient' = recipient
  PROVE  RowsFollow
BY DEF OrderInv, ClaimsOfRows, RowsFollow

LEMMA EditsStay ==
  ASSUME OrderInv, task' = task
  PROVE  EditsFollow
BY DEF OrderInv, ClaimsOfTasks, EditsFollow

LEMMA HeldStays ==
  ASSUME OrderInv, tick'.held = tick.held
  PROVE  HeldFollow
BY DEF OrderInv, ClaimsOfTick, HeldFollow

LEMMA SaveFollows ==
  ASSUME OrderInv, NEW rows, Save(rows),
         \A r \in Recipients : rows[r] # NoRow => Claims(r, rows[r])
  PROVE  RowsFollow
BY DEF OrderInv, ClaimsOfRows, RowsFollow, Save

\* The tick lets go of what it held.
EmptyHanded == tick'.held = NoRows /\ tick'.pc \notin WithRecipient

LEMMA NothingHeld ==
  ASSUME EmptyHanded
  PROVE  /\ HeldFollow
         /\ tick'.pc \notin {"accepted", "advance"}
         /\ tick'.pc \notin WithRecipient
BY DEF EmptyHanded, HeldFollow, NoRows, WithRecipient

LEMMA LetGo ==
  ASSUME TypeInv,
         \/ tick' = Resting
         \/ tick' = Moved
         \/ tick' = Abandoned
         \/ \E b \in BOOLEAN : Close(b)
  PROVE  EmptyHanded
<1>1. Resting.held = NoRows /\ Resting.pc = "idle"
  BY DEF Resting
<1>2. Moved.held = NoRows /\ Moved.pc = "next"
  BY DEF Resting, Moved
<1>3. tick' \in {Resting, Moved} => EmptyHanded
  BY <1>1, <1>2 DEF EmptyHanded, WithRecipient
<1>4. tick' = Abandoned => tick' \in {Resting, Moved}
  BY DEF Abandoned
<1>5. (\E b \in BOOLEAN : Close(b)) => EmptyHanded
  BY DEF Close, EmptyHanded, WithRecipient, TypeInv, TickInv, TickType
<1>6. QED
  BY <1>3, <1>4, <1>5

\* Rows are read from the table into the tick's memory.
LEMMA ReadFollows ==
  ASSUME TypeInv, OrderInv, NEW S \in SUBSET Live
  PROVE  \A r \in Recipients :
           /\ Copies(S, Resumed)[r] # NoRow => Claims(r, Copies(S, Resumed)[r])
           /\ Copies(S, AsRead)[r] # NoRow => Claims(r, Copies(S, AsRead)[r])
<1>1. ASSUME NEW r \in S
      PROVE  r \in Recipients /\ recipient[r] \in RecipientRow
             /\ Claims(r, recipient[r])
  BY <1>1 DEF Live, TypeInv, TablesInv, Rows, OrderInv, ClaimsOfRows
<1>2. \A r \in S : Claims(r, Resumed(recipient[r]))
  BY <1>1, EditsClaimNothing
<1>3. QED
  BY <1>1, <1>2 DEF Copies, AsRead

-----------------------------------------------------------------------------
\* The steps of the scheduler

\* What the tick holds is let go, and the tables' recipients are not touched.
LEMMA LetGoOrder ==
  ASSUME TypeInv, OrderInv,
         \/ EndTick \/ PickNobody \/ NoSender \/ HandoffAtLimit
         \/ CountIncomplete /\ tick' = Moved
         \/ ResumeCampaigns \/ TickFails
  PROVE  OrderInv'
<1>1. EmptyHanded
  <2>1. CASE ResumeCampaigns
    BY <2>1 DEF ResumeCampaigns, Resting, EmptyHanded, WithRecipient
  <2>2. CASE ~ResumeCampaigns
    BY <2>2, LetGo DEF EndTick, PickNobody, NoSender, HandoffAtLimit, TickFails
  <2>3. QED
    BY <2>1, <2>2
<1>2. recipient' = recipient /\ task' = task /\ outbox' = outbox
  BY DEF EndTick, PickNobody, NoSender, HandoffAtLimit, CountIncomplete,
         ResumeCampaigns, TickFails, tables, history
<1>3. QED
  BY <1>1, <1>2, NothingHeld, RowsStay, EditsStay, QuietStep

\* The tick goes on with what it holds; no recipient is in hand afterwards.
LEMMA HoldOnOrder ==
  ASSUME TypeInv, OrderInv,
         \/ LoadCampaigns \/ ReadPausedCampaigns
         \/ CountIncomplete /\ Goto("mark")
         \/ \E c \in Campaigns :
              SkipCampaign(c) \/ ExhaustedCampaign(c) \/ ProcessCampaign(c)
  PROVE  OrderInv'
<1>1. recipient' = recipient /\ task' = task /\ outbox' = outbox
  BY DEF LoadCampaigns, ReadPausedCampaigns, CountIncomplete, SkipCampaign,
         ExhaustedCampaign, ProcessCampaign, tables, history
<1>2. tick \in TickType
  BY DEF TypeInv, TickInv
<1>3. CASE tick' = Resting
  BY <1>1, <1>3, LetGo, NothingHeld, RowsStay, EditsStay, QuietStep
<1>4. CASE tick' # Resting
  <2>1. tick'.held = tick.held /\ tick'.pc \notin WithRecipient
    <3>1. CASE LoadCampaigns \/ (CountIncomplete /\ Goto("mark"))
      BY <1>2, <3>1 DEF LoadCampaigns, Goto, TickType, WithRecipient
    <3>2. CASE ReadPausedCampaigns
      <4>1. PICK pc \in {"load", "unpause"} :
              \E todo : tick' = [tick EXCEPT !.pc = pc, !.todo = todo]
        BY <1>4, <3>2 DEF ReadPausedCampaigns
      <4>2. QED
        BY <1>2, <4>1 DEF TickType, WithRecipient
    <3>3. CASE \E c \in Campaigns :
                 SkipCampaign(c) \/ ExhaustedCampaign(c) \/ ProcessCampaign(c)
      <4>1. PICK c \in Campaigns :
              SkipCampaign(c) \/ ExhaustedCampaign(c) \/ ProcessCampaign(c)
        BY <3>3
      <4>2. CASE SkipCampaign(c)
        BY <1>2, <4>2 DEF SkipCampaign, At, TickType, WithRecipient
      <4>3. CASE ExhaustedCampaign(c) \/ ProcessCampaign(c)
        <5>1. InHand(c, "close") \/ InHand(c, "seed")
          BY <4>3 DEF ExhaustedCampaign, ProcessCampaign
        <5>2. QED
          BY <1>2, <5>1 DEF InHand, TickType, WithRecipient
      <4>4. QED
        BY <4>1, <4>2, <4>3
    <3>4. QED
      BY <3>1, <3>2, <3>3
  <2>2. tick'.pc \notin {"accepted", "advance"}
    BY <2>1 DEF WithRecipient
  <2>3. QED
    BY <1>1, <2>1, <2>2, HeldStays, RowsStay, EditsStay, QuietStep
<1>5. QED
  BY <1>3, <1>4

\* Recipients are loaded, to be saved later.
LEMMA ReadsOrder ==
  ASSUME TypeInv, OrderInv,
         StartTick \/ ReadUnscheduled \/ ReadFollowUps \/ ReadCohort
  PROVE  OrderInv'
<1>1. recipient' = recipient /\ task' = task /\ outbox' = outbox
  BY DEF StartTick, ReadUnscheduled, ReadFollowUps, ReadCohort, tables, history
<1>2. tick \in TickType
  BY DEF TypeInv, TickInv
<1>3. HeldFollow /\ tick'.pc \notin WithRecipient
  <2>1. CASE StartTick
    <3>1. PICK S \in SUBSET Live, pc \in {"reread", "resume"} :
            tick' = [Resting EXCEPT !.pc = pc, !.held = Copies(S, Resumed)]
      BY <2>1 DEF StartTick
    <3>2. tick'.held = Copies(S, Resumed) /\ tick'.pc = pc
      BY <3>1, RestingType DEF TickType
    <3>3. QED
      BY <3>2, ReadFollows DEF HeldFollow, WithRecipient
  <2>2. CASE ReadUnscheduled
    <3> DEFINE Scheduled(r) == [r EXCEPT !.timed = TRUE]
    <3>1. PICK S \in SUBSET Live, pc \in {"spread", "saveSeed"} :
            tick' = [tick EXCEPT !.pc = pc, !.held = Copies(S, Scheduled)]
      BY <2>2 DEF ReadUnscheduled
    <3>2. tick'.held = Copies(S, Scheduled) /\ tick'.pc = pc
      BY <1>2, <3>1 DEF TickType
    <3>3. ASSUME NEW r \in S
          PROVE  Claims(r, [recipient[r] EXCEPT !.timed = TRUE])
      <4>1. recipient[r] \in RecipientRow /\ Claims(r, recipient[r])
        BY DEF Live, TypeInv, TablesInv, Rows, OrderInv, ClaimsOfRows
      <4>2. QED
        BY <4>1, EditsClaimNothing
    <3>4. HeldFollow
      BY <3>2, <3>3 DEF HeldFollow, Copies
    <3>5. QED
      BY <3>2, <3>4 DEF WithRecipient
  <2>3. CASE ReadFollowUps
    <3>1. PICK S \in SUBSET Live, pc \in {"pick", "saveSpread"} :
            tick' = [tick EXCEPT !.pc = pc, !.held = Copies(S, AsRead)]
      BY <2>3 DEF ReadFollowUps
    <3>2. tick'.held = Copies(S, AsRead) /\ tick'.pc = pc
      BY <1>2, <3>1 DEF TickType
    <3>3. QED
      BY <3>2, ReadFollows DEF HeldFollow, WithRecipient
  <2>4. CASE ReadCohort
    <3>1. PICK S \in SUBSET Live :
            IF S = {} THEN Close(TRUE)
            ELSE tick' = [tick EXCEPT !.pc = "saveCohort",
                                      !.held = Copies(S, AsRead)]
      BY <2>4 DEF ReadCohort
    <3>2. CASE S = {}
      BY <3>1, <3>2, LetGo, NothingHeld
    <3>3. CASE S # {}
      <4>1. tick'.held = Copies(S, AsRead) /\ tick'.pc = "saveCohort"
        BY <1>2, <3>1, <3>3 DEF TickType
      <4>2. QED
        BY <4>1, ReadFollows DEF HeldFollow, WithRecipient
    <3>4. QED
      BY <3>2, <3>3
  <2>5. QED
    BY <2>1, <2>2, <2>3, <2>4
<1>4. tick'.pc \notin {"accepted", "advance"}
  BY <1>3 DEF WithRecipient
<1>5. QED
  BY <1>1, <1>3, <1>4, RowsStay, EditsStay, QuietStep

\* What was loaded is saved, unless the save throws.
LEMMA SavesOrder ==
  ASSUME TypeInv, OrderInv,
         ResumeRecipients \/ SaveUnscheduled \/ SaveFollowUps \/ SaveCohort
  PROVE  OrderInv'
<1>1. task' = task /\ outbox' = outbox
  BY DEF ResumeRecipients, SaveUnscheduled, SaveFollowUps, SaveCohort, history
<1>2. RowsFollow
  <2>1. Save(tick.held) \/ recipient' = recipient
    BY DEF ResumeRecipients, SaveUnscheduled, SaveFollowUps, SaveCohort, SaveHeld
  <2>2. QED
    BY <2>1, SaveFollows, RowsStay DEF OrderInv, ClaimsOfTick
<1>3. EmptyHanded
  <2>1. CASE SaveCohort
    BY <2>1, LetGo DEF SaveCohort
  <2>2. CASE ResumeRecipients \/ SaveUnscheduled \/ SaveFollowUps
    <3>1. PICK pc \in {"reread", "spread", "pick"} : SaveHeld(pc)
      BY <2>2 DEF ResumeRecipients, SaveUnscheduled, SaveFollowUps
    <3>2. \/ tick' = [tick EXCEPT !.pc = pc, !.held = NoRows]
          \/ tick' = Abandoned
      BY <3>1 DEF SaveHeld
    <3>3. tick' = [tick EXCEPT !.pc = pc, !.held = NoRows] => EmptyHanded
      BY <3>1 DEF EmptyHanded, WithRecipient, TypeInv, TickInv, TickType
    <3>4. QED
      BY <3>2, <3>3, LetGo
  <2>3. QED
    BY <2>1, <2>2
<1>4. QED
  BY <1>1, <1>2, <1>3, NothingHeld, EditsStay, QuietStep

\* The recipient in hand is saved as it ends without an email.
LEMMA SettlesOrder ==
  ASSUME TypeInv, OrderInv, BarRecipient \/ FinishRecipient \/ FailRecipient
  PROVE  OrderInv'
<1>1. task' = task /\ outbox' = outbox
  BY DEF BarRecipient, FinishRecipient, FailRecipient, history
<1>2. tick.pc \in WithRecipient
  BY DEF BarRecipient, FinishRecipient, FailRecipient, At, WithRecipient
<1>3. tick.who \in Recipients /\ row \in RecipientRow
  BY <1>2, InHandFacts
<1>4. Claims(tick.who, row)
  BY <1>3, NoRowAssumption DEF OrderInv, ClaimsOfTick, row
<1>5. PICK settled \in {Barred(row), OutOfSteps(row), Failed(row)} : Settle(settled)
  BY DEF BarRecipient, FinishRecipient, FailRecipient
<1>6. Claims(tick.who, settled)
  BY <1>3, <1>4, <1>5, EditsClaimNothing
<1> DEFINE rows == [tick.held EXCEPT ![tick.who] = settled]
<1>7. \A r \in Recipients : rows[r] # NoRow => Claims(r, rows[r])
  BY <1>6 DEF OrderInv, ClaimsOfTick, TypeInv, TickInv, TickType
<1>8. \/ Save(rows) /\ Close(FALSE)
      \/ tick' = Abandoned /\ recipient' = recipient
  BY <1>5 DEF Settle
<1> HIDE DEF rows
<1>9. RowsFollow /\ EmptyHanded
  BY <1>7, <1>8, SaveFollows, RowsStay, LetGo
<1>10. QED
  BY <1>1, <1>9, NothingHeld, EditsStay, QuietStep

LEMMA PickOrder ==
  ASSUME TypeInv, OrderInv, NEW r \in Recipients, PickRecipient(r)
  PROVE  OrderInv'
<1>1. recipient' = recipient /\ task' = task /\ outbox' = outbox
  BY DEF PickRecipient, tables, history
<1>2. /\ recipient[r] # NoRow
      /\ recipient[r].disposition = "eligible"
  BY DEF PickRecipient, Candidates, Live, Sendable, Incomplete
<1> DEFINE rows == [NoRows EXCEPT ![r] = recipient[r]]
<1>3. /\ tick'.held = rows
      /\ tick'.who = r
      /\ tick'.pc = "screen"
  BY DEF PickRecipient, TypeInv, TickInv, TickType
<1>4. /\ rows[r] = recipient[r]
      /\ \A q \in Recipients : rows[q] # NoRow => q = r
  BY DEF NoRows
<1> HIDE DEF rows
<1>5. HeldFollow
  BY <1>3, <1>4 DEF HeldFollow, OrderInv, ClaimsOfRows
<1>6. row'.disposition = "eligible"
  BY <1>2, <1>3, <1>4 DEF row
<1>7. QED
  BY <1>1, <1>3, <1>5, <1>6, RowsStay, EditsStay, QuietStep

\* The recipient stays in hand.
SameInHand == tick'.held = tick.held /\ tick'.who = tick.who

LEMMA InHandOrder ==
  ASSUME TypeInv, OrderInv,
         \/ ReadExclusionList \/ InsertMessage \/ HandoffRefused
         \/ RecordSentThrows \/ RecordSendFailed
  PROVE  OrderInv'
<1>1. recipient' = recipient /\ task' = task /\ outbox' = outbox
  BY DEF ReadExclusionList, InsertMessage, HandoffRefused, RecordSentThrows,
         RecordSendFailed, tables, history
<1>2. tick.pc \in WithRecipient
  BY DEF ReadExclusionList, InsertMessage, HandoffRefused, RecordSentThrows,
         RecordSendFailed, At, WithRecipient
<1>3. CASE tick' = Abandoned
  BY <1>1, <1>3, LetGo, NothingHeld, RowsStay, EditsStay, QuietStep
<1>4. CASE tick' # Abandoned
  <2>1. SameInHand /\ tick'.pc \notin {"accepted", "advance"}
    BY <1>4 DEF ReadExclusionList, InsertMessage, HandoffRefused, RecordSentThrows,
                RecordSendFailed, Goto, SameInHand, TypeInv, TickInv, TickType
  <2>2. row'.disposition = "eligible"
    BY <1>2, <2>1 DEF SameInHand, OrderInv, ClaimsOfTick, row
  <2>3. QED
    BY <1>1, <2>1, <2>2, HeldStays, RowsStay, EditsStay, QuietStep DEF SameInHand
<1>5. QED
  BY <1>3, <1>4

\* The email is recorded as sent, and the recipient's claim to it stays true.
LEMMA RecordSentOrder ==
  ASSUME TypeInv, OrderInv, RecordSent
  PROVE  OrderInv'
<1>1. recipient' = recipient /\ task' = task /\ outbox' = outbox
  BY DEF RecordSent, history
<1>2. tick.pc = "accepted" /\ tick.pc \in WithRecipient
  BY DEF RecordSent, At, WithRecipient
<1>3. SameInHand /\ tick'.pc = "advance"
  BY DEF RecordSent, Goto, SameInHand, TypeInv, TickInv, TickType
<1>4. row.disposition = "eligible" /\ Delivered(tick.who, row.step)
  BY <1>2 DEF OrderInv, ClaimsOfTick
<1>5. row'.disposition = "eligible" /\ Delivered(tick.who, row.step)'
  BY <1>1, <1>3, <1>4 DEF SameInHand, row, Delivered
<1>6. StepsInOrder'
  BY <1>1 DEF OrderInv, StepsInOrder, Delivered
<1>7. (tick.pc \in WithRecipient => row.disposition = "eligible")'
  BY <1>5
<1>8. QED
  BY <1>1, <1>3, <1>5, <1>6, <1>7, HeldStays, RowsStay, EditsStay, OrderStep
     DEF SameInHand

\* The one step that delivers: the row in hand says that every earlier step was
\* delivered, and rows do not lie.
LEMMA HandoffOrder ==
  ASSUME TypeInv, OrderInv, NEW lost \in BOOLEAN, HandoffAccepted(lost)
  PROVE  OrderInv'
<1> DEFINE email == [id |-> tick.mail, to |-> tick.who, step |-> row.step]
<1>1. recipient' = recipient /\ task' = task /\ outbox' = outbox \cup {email}
  BY DEF HandoffAccepted, tables
<1>2. tick.pc = "handoff" /\ tick.pc \in WithRecipient
  BY DEF HandoffAccepted, At, WithRecipient
<1>3. tick.who \in Recipients /\ row \in RecipientRow
  BY <1>2, InHandFacts
<1>4. Claims(tick.who, row) /\ row.disposition = "eligible"
  BY <1>2, <1>3, NoRowAssumption DEF OrderInv, ClaimsOfTick, row
<1>5. SameInHand
  BY DEF HandoffAccepted, Goto, SameInHand, TypeInv, TickInv, TickType
<1>6. row' = row /\ tick'.who = tick.who
  BY <1>5 DEF SameInHand, row
<1>7. StepsInOrder'
  <2> SUFFICES ASSUME NEW x \in outbox', NEW k \in Steps, k < x.step
               PROVE  Delivered(x.to, k)'
    BY DEF StepsInOrder
  <2>1. CASE x \in outbox
    BY <1>1, <2>1 DEF OrderInv, StepsInOrder, Delivered
  <2>2. CASE x = email
    <3>1. Delivered(tick.who, k)
      BY <1>4, <2>2 DEF Claims
    <3>2. QED
      BY <1>1, <2>2, <3>1 DEF Delivered
  <2>3. QED
    BY <1>1, <2>1, <2>2
<1>8. Delivered(tick.who, row.step)'
  <2>1. email \in outbox' /\ email.to = tick'.who /\ email.step = row'.step
    BY <1>1, <1>6
  <2>2. QED
    BY <2>1 DEF Delivered
<1>9. (tick.pc \in WithRecipient => row.disposition = "eligible")'
  BY <1>4, <1>6
<1>10. QED
  BY <1>1, <1>5, <1>7, <1>8, <1>9, HeldStays, RowsStay, EditsStay, OrderStep
     DEF SameInHand

\* The one save that claims a delivery comes after it.
LEMMA AdvanceOrder ==
  ASSUME TypeInv, OrderInv, AdvanceRecipient
  PROVE  OrderInv'
<1> DEFINE next == Advanced(row, tick.copy.steps)
           rows == [tick.held EXCEPT ![tick.who] = next]
<1>1. task' = task /\ outbox' = outbox
  BY DEF AdvanceRecipient, history
<1>2. tick.pc = "advance" /\ tick.pc \in WithRecipient
  BY DEF AdvanceRecipient, At, WithRecipient
<1>3. tick.who \in Recipients /\ row \in RecipientRow
  BY <1>2, InHandFacts
<1>4. /\ Claims(tick.who, row)
      /\ row.disposition = "eligible"
      /\ Delivered(tick.who, row.step)
  BY <1>2, <1>3, NoRowAssumption DEF OrderInv, ClaimsOfTick, row
<1>5. Claims(tick.who, next)
  BY <1>3, <1>4, AdvancedClaims
<1> HIDE DEF next
<1>6. /\ \A r \in Recipients : rows[r] # NoRow => Claims(r, rows[r])
      /\ rows[tick.who] = next
  BY <1>3, <1>5 DEF OrderInv, ClaimsOfTick, TypeInv, TickInv, TickType
<1> HIDE DEF rows
<1>7. RowsFollow
  <2>1. Save(rows) \/ recipient' = recipient
    BY DEF AdvanceRecipient, rows, next
  <2>2. QED
    BY <1>6, <2>1, SaveFollows, RowsStay
<1>8. CASE EmptyHanded
  BY <1>1, <1>7, <1>8, NothingHeld, EditsStay, QuietStep
<1>9. CASE ~EmptyHanded
  <2>1. /\ row.step < tick.copy.steps
        /\ tick' = [tick EXCEPT !.pc = "cohort", !.held = rows]
    BY <1>9, LetGo DEF AdvanceRecipient, rows, next
  <2>2. tick'.held = rows /\ tick'.who = tick.who /\ tick'.pc = "cohort"
    BY <2>1 DEF TypeInv, TickInv, TickType
  <2>3. next.disposition = "eligible"
    BY <1>3, <1>4, <2>1 DEF next, Advanced, RecipientRow
  <2>4. row'.disposition = "eligible"
    BY <1>6, <2>2, <2>3 DEF row
  <2>5. HeldFollow
    BY <1>6, <2>2 DEF HeldFollow
  <2>6. QED
    BY <1>1, <1>7, <2>2, <2>4, <2>5, EditsStay, QuietStep
<1>10. QED
  BY <1>8, <1>9

LEMMA CampaignSavesOrder ==
  ASSUME TypeInv, OrderInv, CloseCampaign \/ MarkCampaignSent
  PROVE  OrderInv'
<1>1. recipient' = recipient /\ task' = task /\ outbox' = outbox
  BY DEF CloseCampaign, MarkCampaignSent, history
<1>2. CASE EmptyHanded
  BY <1>1, <1>2, NothingHeld, RowsStay, EditsStay, QuietStep
<1>3. CASE ~EmptyHanded
  <2>1. PICK closed : tick' = [tick EXCEPT !.pc = "count", !.copy = closed]
    BY <1>3, LetGo DEF CloseCampaign, MarkCampaignSent, SaveCampaignAs
  <2>2. tick'.held = tick.held /\ tick'.pc = "count"
    BY <2>1 DEF TypeInv, TickInv, TickType
  <2>3. tick'.pc \notin WithRecipient
    BY <2>2 DEF WithRecipient
  <2>4. QED
    BY <1>1, <2>2, <2>3, HeldStays, RowsStay, EditsStay, QuietStep
<1>4. QED
  BY <1>2, <1>3

LEMMA SchedulerOrder ==
  ASSUME TypeInv, OrderInv, SchedulerStep
  PROVE  OrderInv'
<1>1. CASE \/ EndTick \/ PickNobody \/ NoSender \/ HandoffAtLimit
           \/ ResumeCampaigns \/ TickFails
  BY <1>1, LetGoOrder
<1>2. CASE \/ LoadCampaigns \/ ReadPausedCampaigns
           \/ \E c \in Campaigns :
                SkipCampaign(c) \/ ExhaustedCampaign(c) \/ ProcessCampaign(c)
  BY <1>2, HoldOnOrder
<1>3. CASE CountIncomplete
  <2>1. Goto("mark") \/ tick' = Moved
    BY <1>3 DEF CountIncomplete
  <2>2. QED
    BY <1>3, <2>1, LetGoOrder, HoldOnOrder
<1>4. CASE StartTick \/ ReadUnscheduled \/ ReadFollowUps \/ ReadCohort
  BY <1>4, ReadsOrder
<1>5. CASE ResumeRecipients \/ SaveUnscheduled \/ SaveFollowUps \/ SaveCohort
  BY <1>5, SavesOrder
<1>6. CASE BarRecipient \/ FinishRecipient \/ FailRecipient
  BY <1>6, SettlesOrder
<1>7. CASE \E r \in Recipients : PickRecipient(r)
  BY <1>7, PickOrder
<1>8. CASE \/ ReadExclusionList \/ InsertMessage \/ HandoffRefused
           \/ RecordSentThrows \/ RecordSendFailed
  BY <1>8, InHandOrder
<1>9. CASE RecordSent \/ (\E lost \in BOOLEAN : HandoffAccepted(lost))
           \/ AdvanceRecipient
  BY <1>9, RecordSentOrder, HandoffOrder, AdvanceOrder
<1>10. CASE CloseCampaign \/ MarkCampaignSent
  BY <1>10, CampaignSavesOrder
<1>11. QED
  BY <1>1, <1>2, <1>3, <1>4, <1>5, <1>6, <1>7, <1>8, <1>9, <1>10
     DEF SchedulerStep

-----------------------------------------------------------------------------
\* The steps of the handlers

LEMMA HandlerQuiet ==
  ASSUME OrderInv, tick' = tick, outbox' = outbox, RowsFollow, EditsFollow
  PROVE  OrderInv'
<1>1. HeldFollow
  BY HeldStays
<1>2. StepsInOrder'
  BY DEF OrderInv, StepsInOrder, Delivered
<1>3. /\ (tick.pc \in WithRecipient => row.disposition = "eligible")'
      /\ (tick.pc \in {"accepted", "advance"} => Delivered(tick.who, row.step))'
  BY DEF OrderInv, ClaimsOfTick, Delivered, row
<1>4. QED
  BY <1>1, <1>2, <1>3, OrderStep

LEMMA TaskFollows ==
  ASSUME TypeInv, OrderInv, NEW w \in Workers, NEW t,
         task' = [task EXCEPT ![w] = t],
         t.edit # NoRow => t.who \in Recipients /\ Claims(t.who, t.edit)
  PROVE  EditsFollow
BY DEF EditsFollow, OrderInv, ClaimsOfTasks, TypeInv, TasksInv

LEMMA DoneFollows ==
  ASSUME TypeInv, OrderInv, NEW w \in Workers, Done(w)
  PROVE  EditsFollow
<1>1. NoTask.edit = NoRow
  BY DEF NoTask
<1>2. QED
  BY <1>1, TaskFollows DEF Done

LEMMA ThenFollows ==
  ASSUME TypeInv, OrderInv, NEW w \in Workers, NEW stage, Then(w, stage)
  PROVE  EditsFollow
<1> DEFINE t == [task[w] EXCEPT !.stage = stage]
<1>1. task' = [task EXCEPT ![w] = t]
  BY DEF Then
<1>2. t.edit = task[w].edit /\ t.who = task[w].who
  BY DEF TypeInv, TasksInv, TaskType
<1>3. QED
  BY <1>1, <1>2, TaskFollows DEF OrderInv, ClaimsOfTasks

LEMMA BeginOrder ==
  ASSUME TypeInv, OrderInv, NEW w \in Workers, NEW op, NEW begun,
         Begin(w, op, begun),
         begun.edit # NoRow =>
           begun.who \in Recipients /\ Claims(begun.who, begun.edit)
  PROVE  OrderInv'
<1>1. EditsFollow
  BY TaskFollows DEF Begin
<1>2. QED
  BY <1>1, RowsStay, HandlerQuiet DEF Begin, tables, history

LEMMA EditsOrder ==
  ASSUME TypeInv, OrderInv, NEW w \in Workers, NEW op, NEW r \in Recipients,
         NEW edited, Claims(r, edited), Edits(w, op, r, edited)
  PROVE  OrderInv'
<1> DEFINE begun == [NoTask EXCEPT !.op = op, !.stage = "saveRecipient",
                                   !.who = r, !.edit = edited]
<1>1. begun.who = r /\ begun.edit = edited
  BY DEF NoTask
<1>2. QED
  BY <1>1, BeginOrder DEF Edits

LEMMA EditsCampaignOrder ==
  ASSUME TypeInv, OrderInv, NEW w \in Workers, NEW op, NEW stage, NEW c,
         NEW edited, EditsCampaign(w, op, stage, c, edited)
  PROVE  OrderInv'
<1> DEFINE begun == [NoTask EXCEPT !.op = op, !.stage = stage, !.camp = c,
                                   !.copy = edited]
<1>1. begun.edit = NoRow
  BY DEF NoTask
<1>2. QED
  BY <1>1, BeginOrder DEF EditsCampaign

LEMMA LiveClaims ==
  ASSUME TypeInv, OrderInv
  PROVE  \A r \in Live : /\ r \in Recipients
                         /\ recipient[r] \in RecipientRow
                         /\ Claims(r, recipient[r])
BY DEF Live, TypeInv, TablesInv, Rows, OrderInv, ClaimsOfRows

LEMMA RecipientReadsOrder ==
  ASSUME TypeInv, OrderInv, NEW w \in Workers,
         \/ UpdateRecipient(w) \/ MarkReplyAsRead(w) \/ PauseRecipient(w)
         \/ StopRecipient(w) \/ ResumeRecipient(w)
  PROVE  OrderInv'
<1>1. CASE UpdateRecipient(w)
  <2>1. PICK r \in Live, category \in {"keep", "set", "clear"},
             disposition \in (Dispositions \ {"done"}) \cup {"keep"} :
          Edits(w, "updateRecipient", r,
                Disposed(Categorised(recipient[r], category), disposition))
    BY <1>1 DEF UpdateRecipient
  <2>2. /\ Categorised(recipient[r], category) \in RecipientRow
        /\ Claims(r, Categorised(recipient[r], category))
    BY LiveClaims, PatchedTypes, EditsClaimNothing
  <2>3. Claims(r, Disposed(Categorised(recipient[r], category), disposition))
    BY <2>2, PatchClaimsNothing
  <2>4. QED
    BY <2>1, <2>3, LiveClaims, EditsOrder
<1>2. CASE ~UpdateRecipient(w)
  <2>1. \A r \in Live : /\ Claims(r, Categorised(recipient[r], "set"))
                        /\ Claims(r, Paused(recipient[r]))
                        /\ Claims(r, Stopped(recipient[r]))
                        /\ Claims(r, Resumed(recipient[r]))
    BY LiveClaims, EditsClaimNothing
  <2>2. PICK op \in RecipientOperations, r \in Live :
          \/ Edits(w, op, r, Categorised(recipient[r], "set"))
          \/ Edits(w, op, r, Paused(recipient[r]))
          \/ Edits(w, op, r, Stopped(recipient[r]))
          \/ Edits(w, op, r, Resumed(recipient[r]))
    BY <1>2 DEF MarkReplyAsRead, PauseRecipient, StopRecipient, ResumeRecipient,
                RecipientOperations
  <2>3. QED
    BY <2>1, <2>2, LiveClaims, EditsOrder
<1>3. QED
  BY <1>1, <1>2

LEMMA OtherBeginsOrder ==
  ASSUME TypeInv, OrderInv, NEW w \in Workers,
         \/ RecordReply(w) \/ RecordOpen(w)
         \/ RecordUnsubscribe(w) \/ RecordBounce(w)
         \/ ExcludeRecipientGlobally(w) \/ ExcludeEmail(w)
         \/ DeleteCampaign(w) \/ AddRecipient(w)
  PROVE  OrderInv'
<1>1. CASE \E r \in Live :
             Edits(w, "recordUnsubscribe", r, Unsubscribed(recipient[r]))
  BY <1>1, LiveClaims, EditsClaimNothing, EditsOrder
<1>2. CASE AddRecipient(w)
  <2>1. PICK c \in Existing, r \in Recipients :
          Begin(w, "addRecipient",
             [NoTask EXCEPT !.op = "addRecipient", !.stage = "add", !.who = r,
                            !.edit = NewRecipient(campaign[c].launched),
                            !.camp = c, !.copy = campaign[c]])
    BY <1>2 DEF AddRecipient, Unborn, Of
  <2> DEFINE new == NewRecipient(campaign[c].launched)
             begun ==
        [NoTask EXCEPT !.op = "addRecipient", !.stage = "add", !.who = r,
                       !.edit = new, !.camp = c, !.copy = campaign[c]]
  <2>2. Claims(r, new)
    BY NewRecipientClaims
  <2> HIDE DEF new
  <2>3. begun.who = r /\ begun.edit = new
    BY DEF NoTask
  <2> HIDE DEF begun
  <2>4. Begin(w, "addRecipient", begun)
    BY <2>1 DEF begun, new
  <2>5. QED
    BY <2>2, <2>3, <2>4, BeginOrder
<1>3. CASE \E op, begun : Begin(w, op, begun) /\ begun.edit = NoRow
  BY <1>3, BeginOrder
<1>4. RecordUnsubscribe(w) =>
        \/ \E r \in Live :
             Edits(w, "recordUnsubscribe", r, Unsubscribed(recipient[r]))
        \/ \E op, begun : Begin(w, op, begun) /\ begun.edit = NoRow
  <2> SUFFICES ASSUME RecordUnsubscribe(w),
                      ~ \E r \in Live :
                          Edits(w, "recordUnsubscribe", r,
                                Unsubscribed(recipient[r]))
               PROVE  \E op, begun : Begin(w, op, begun) /\ begun.edit = NoRow
    OBVIOUS
  <2>1. PICK r \in Live :
          Begin(w, "recordUnsubscribe",
                [NoTask EXCEPT !.op = "recordUnsubscribe", !.who = r,
                               !.stage = "exclude"])
    BY DEF RecordUnsubscribe
  <2>2. [NoTask EXCEPT !.op = "recordUnsubscribe", !.who = r,
                       !.stage = "exclude"].edit = NoRow
    BY DEF NoTask
  <2>3. QED
    BY <2>1, <2>2
<1>5. RecordBounce(w) \/ RecordOpen(w) =>
        \E op, begun : Begin(w, op, begun) /\ begun.edit = NoRow
  <2> SUFFICES ASSUME RecordBounce(w) \/ RecordOpen(w)
               PROVE  \E op, begun : Begin(w, op, begun) /\ begun.edit = NoRow
    OBVIOUS
  <2>1. PICK op, m, note :
          Begin(w, op,
               [NoTask EXCEPT !.op = op, !.stage = "saveMessage",
                              !.who = messages[m].to, !.mail = m,
                              !.note = note])
    BY DEF RecordBounce, RecordOpen
  <2>2. [NoTask EXCEPT !.op = op, !.stage = "saveMessage",
                       !.who = messages[m].to, !.mail = m,
                       !.note = note].edit = NoRow
    BY DEF NoTask
  <2>3. QED
    BY <2>1, <2>2
<1>6. ExcludeRecipientGlobally(w) \/ ExcludeEmail(w) =>
        \E op, begun : Begin(w, op, begun) /\ begun.edit = NoRow
  <2> SUFFICES ASSUME ExcludeRecipientGlobally(w) \/ ExcludeEmail(w)
               PROVE  \E op, begun : Begin(w, op, begun) /\ begun.edit = NoRow
    OBVIOUS
  <2>1. PICK op \in ExclusionOperations, r \in Recipients :
          Begin(w, op, [NoTask EXCEPT !.op = op, !.who = r, !.stage = "exclude"])
    BY LiveClaims DEF ExcludeRecipientGlobally, ExcludeEmail, ExclusionOperations
  <2>2. [NoTask EXCEPT !.op = op, !.who = r, !.stage = "exclude"].edit = NoRow
    BY DEF NoTask
  <2>3. QED
    BY <2>1, <2>2
<1>7. DeleteCampaign(w) => \E op, begun : Begin(w, op, begun) /\ begun.edit = NoRow
  <2> SUFFICES ASSUME DeleteCampaign(w)
               PROVE  \E op, begun : Begin(w, op, begun) /\ begun.edit = NoRow
    OBVIOUS
  <2>1. PICK c \in Existing :
          Begin(w, "deleteCampaign",
            [NoTask EXCEPT !.op = "deleteCampaign", !.stage = "delete", !.camp = c])
    BY DEF DeleteCampaign
  <2>2. [NoTask EXCEPT !.op = "deleteCampaign", !.stage = "delete",
                       !.camp = c].edit = NoRow
    BY DEF NoTask
  <2>3. QED
    BY <2>1, <2>2
<1>8. CASE RecordReply(w)
  <2>1. PICK r \in Live, m \in MessageIds :
          Begin(w, "recordReply",
             [NoTask EXCEPT !.op = "recordReply", !.stage = "saveRecipient",
                            !.who = r, !.edit = Replied(recipient[r]),
                            !.mail = m, !.note = messages[m]])
    BY <1>8 DEF RecordReply
  <2> DEFINE edited == Replied(recipient[r])
             begun ==
        [NoTask EXCEPT !.op = "recordReply", !.stage = "saveRecipient",
                       !.who = r, !.edit = edited,
                       !.mail = m, !.note = messages[m]]
  <2>2. r \in Recipients /\ Claims(r, edited)
    BY LiveClaims, EditsClaimNothing
  <2> HIDE DEF edited
  <2>3. begun.who = r /\ begun.edit = edited
    BY DEF NoTask
  <2> HIDE DEF begun
  <2>4. Begin(w, "recordReply", begun)
    BY <2>1 DEF begun, edited
  <2>5. QED
    BY <2>2, <2>3, <2>4, BeginOrder
<1>9. QED
  BY <1>1, <1>2, <1>3, <1>4, <1>5, <1>6, <1>7, <1>8

LEMMA CampaignReadsOrder ==
  ASSUME TypeInv, OrderInv, NEW w \in Workers,
         \/ PauseCampaign(w) \/ StopSender(w) \/ StopCampaign(w)
         \/ ResumeCampaign(w) \/ UpdateStatus(w) \/ Update(w)
         \/ ResetToDraft(w) \/ Schedule(w)
  PROVE  OrderInv'
<1>1. \E op, stage, c, edited : EditsCampaign(w, op, stage, c, edited)
  BY DEF PauseCampaign, StopSender, StopCampaign, ResumeCampaign, UpdateStatus,
         Update, ResetToDraft, Schedule
<1>2. QED
  BY <1>1, EditsCampaignOrder

\* The calls that touch no recipient
LEMMA OtherCallsOrder ==
  ASSUME TypeInv, OrderInv, NEW w \in Workers,
         \/ SaveMessage(w) \/ ExcludeAddress(w) \/ SaveCampaign(w)
         \/ ReplaceChildren(w)
  PROVE  OrderInv'
<1>1. recipient' = recipient /\ tick' = tick /\ outbox' = outbox
  BY DEF SaveMessage, ExcludeAddress, SaveCampaign, ReplaceChildren, history
<1>2. Done(w) \/ \E stage : Then(w, stage)
  BY DEF SaveMessage, ExcludeAddress, SaveCampaign, ReplaceChildren
<1>3. EditsFollow
  BY <1>2, DoneFollows, ThenFollows
<1>4. QED
  BY <1>1, <1>3, RowsStay, HandlerQuiet

LEMMA ReadBouncedOrder ==
  ASSUME TypeInv, OrderInv, NEW w \in Workers, ReadBounced(w)
  PROVE  OrderInv'
<1>1. recipient' = recipient /\ tick' = tick /\ outbox' = outbox
  BY DEF ReadBounced, tables, history
<1>2. EditsFollow
  <2>1. CASE task[w].who \in Live
    <3> DEFINE edit == Failed(recipient[task[w].who])
               t == [task[w] EXCEPT !.stage = "saveRecipient", !.edit = edit]
    <3>1. Claims(task[w].who, edit) /\ task[w].who \in Recipients
      BY <2>1, LiveClaims, EditsClaimNothing
    <3>2. task' = [task EXCEPT ![w] = t]
      BY <2>1 DEF ReadBounced, TypeInv, TasksInv
    <3> HIDE DEF edit
    <3>3. t.edit = edit /\ t.who = task[w].who
      BY DEF TypeInv, TasksInv, TaskType
    <3>4. QED
      BY <3>1, <3>2, <3>3, TaskFollows
  <2>2. CASE task[w].who \notin Live
    BY <2>2, DoneFollows DEF ReadBounced
  <2>3. QED
    BY <2>1, <2>2
<1>3. QED
  BY <1>1, <1>2, RowsStay, HandlerQuiet

\* A stale copy is saved: its claims were true when it was read.
LEMMA SaveEditOrder ==
  ASSUME TypeInv, OrderInv, NEW w \in Workers, SaveEdit(w)
  PROVE  OrderInv'
<1> DEFINE rows == [NoRows EXCEPT ![task[w].who] = task[w].edit]
<1>1. tick' = tick /\ outbox' = outbox
  BY DEF SaveEdit, history
<1>2. task[w].edit # NoRow
  BY NoRowAssumption DEF SaveEdit, Stage, TypeInv, TasksInv, TaskInv, Ready
<1>3. \A r \in Recipients : rows[r] # NoRow => Claims(r, rows[r])
  BY <1>2 DEF NoRows, OrderInv, ClaimsOfTasks
<1>4. Save(rows) \/ recipient' = recipient
  BY DEF SaveEdit
<1> HIDE DEF rows
<1>5. RowsFollow
  BY <1>3, <1>4, SaveFollows, RowsStay
<1>6. Done(w) \/ Then(w, "exclude") \/ Then(w, "saveMessage")
  BY DEF SaveEdit
<1>7. EditsFollow
  BY <1>6, DoneFollows, ThenFollows
<1>8. QED
  BY <1>1, <1>5, <1>7, HandlerQuiet

\* The calls that delete, stop or create recipients
LEMMA RowCallsOrder ==
  ASSUME TypeInv, OrderInv, NEW w \in Workers,
         \/ StopAll(w) \/ SaveReset(w) \/ DeleteById(w) \/ SaveSchedule(w)
         \/ SaveAddition(w)
  PROVE  OrderInv'
<1>1. tick' = tick /\ outbox' = outbox /\ Done(w)
  BY DEF StopAll, SaveReset, DeleteById, SaveSchedule, SaveAddition, history
<1>2. RowsFollow
  <2>1. CASE StopAll(w)
    <3>1. \A r \in Live : Claims(r, Stopped(recipient[r]))
      BY LiveClaims, EditsClaimNothing
    <3>2. QED
      BY <2>1, <3>1 DEF StopAll, RowsFollow, OrderInv, ClaimsOfRows
  <2>2. CASE SaveReset(w) \/ DeleteById(w)
    <3>1. recipient' = recipient \/ \E S : Erase(S)
      BY <2>2 DEF SaveReset, DeleteById
    <3>2. QED
      BY <3>1, RowsStay DEF Erase, RowsFollow, OrderInv, ClaimsOfRows
  <2>3. CASE SaveSchedule(w)
    <3>1. \A r \in Recipients :
            recipient'[r] \in {recipient[r], NoRow, NewRecipient(TRUE)}
      <4> DEFINE c == task[w].camp
      <4>1. CASE c \in Existing /\ CampaignSavable(c, task[w].copy) /\ Unborn(c) # {}
        BY <2>3, <4>1 DEF SaveSchedule
      <4>2. CASE ~(c \in Existing /\ CampaignSavable(c, task[w].copy) /\ Unborn(c) # {})
        BY <2>3, <4>2 DEF SaveSchedule
      <4>3. QED
        BY <4>1, <4>2
    <3>2. \A r : Claims(r, NewRecipient(TRUE))
      BY NewRecipientClaims
    <3>3. QED
      BY <3>1, <3>2 DEF RowsFollow, OrderInv, ClaimsOfRows
  <2>4. CASE SaveAddition(w)
    <3>1. task[w].who \in Recipients /\ task[w].edit # NoRow
      BY <2>4, NoRowAssumption
         DEF SaveAddition, Stage, TypeInv, TasksInv, TaskInv, Ready
    <3>2. Claims(task[w].who, task[w].edit)
      BY <3>1 DEF OrderInv, ClaimsOfTasks
    <3>3. \/ recipient' = recipient
          \/ recipient' = [recipient EXCEPT ![task[w].who] = task[w].edit]
      BY <2>4 DEF SaveAddition
    <3>4. QED
      BY <3>1, <3>2, <3>3, RowsStay
         DEF RowsFollow, OrderInv, ClaimsOfRows, TypeInv, TablesInv, Rows
  <2>5. QED
    BY <2>1, <2>2, <2>3, <2>4
<1>3. QED
  BY <1>1, <1>2, DoneFollows, HandlerQuiet

LEMMA HandlerOrder ==
  ASSUME TypeInv, OrderInv, NEW w \in Workers, HandlerStep(w)
  PROVE  OrderInv'
<1>1. CASE \/ UpdateRecipient(w) \/ MarkReplyAsRead(w) \/ PauseRecipient(w)
           \/ StopRecipient(w) \/ ResumeRecipient(w)
  BY <1>1, RecipientReadsOrder
<1>2. CASE \/ RecordReply(w) \/ RecordOpen(w) \/ RecordUnsubscribe(w) \/ RecordBounce(w)
           \/ ExcludeRecipientGlobally(w) \/ ExcludeEmail(w)
           \/ DeleteCampaign(w) \/ AddRecipient(w)
  BY <1>2, OtherBeginsOrder
<1>3. CASE \/ PauseCampaign(w) \/ StopSender(w) \/ StopCampaign(w)
           \/ ResumeCampaign(w) \/ UpdateStatus(w) \/ Update(w)
           \/ ResetToDraft(w) \/ Schedule(w)
  BY <1>3, CampaignReadsOrder
<1>4. CASE \/ SaveMessage(w) \/ ExcludeAddress(w) \/ SaveCampaign(w)
           \/ ReplaceChildren(w)
  BY <1>4, OtherCallsOrder
<1>5. CASE ReadBounced(w) \/ SaveEdit(w)
  BY <1>5, ReadBouncedOrder, SaveEditOrder
<1>6. CASE \/ StopAll(w) \/ SaveReset(w) \/ DeleteById(w) \/ SaveSchedule(w)
           \/ SaveAddition(w)
  BY <1>6, RowCallsOrder
<1>7. CASE HandlerFails(w)
  <2>1. tick' = tick /\ recipient' = recipient /\ outbox' = outbox /\ Done(w)
    BY <1>7 DEF HandlerFails, tables, history
  <2>2. QED
    BY <2>1, RowsStay, DoneFollows, HandlerQuiet
<1>8. QED
  BY <1>1, <1>2, <1>3, <1>4, <1>5, <1>6, <1>7 DEF HandlerStep

-----------------------------------------------------------------------------

LEMMA InitOrder == Init => OrderInv
<1> SUFFICES ASSUME Init PROVE OrderInv
  OBVIOUS
<1>1. ClaimsOfRows
  <2>1. PICK S : recipient = [r \in Recipients |->
                               IF r \in S THEN NewRecipient(TRUE) ELSE NoRow]
    BY DEF Init
  <2>2. \A r : Claims(r, NewRecipient(TRUE))
    BY NewRecipientClaims
  <2>3. QED
    BY <2>1, <2>2 DEF ClaimsOfRows
<1>2. ClaimsOfTick
  BY DEF Init, Resting, NoRows, ClaimsOfTick, WithRecipient
<1>3. ClaimsOfTasks
  BY DEF Init, NoTask, ClaimsOfTasks
<1>4. StepsInOrder
  BY DEF Init, StepsInOrder
<1>5. QED
  BY <1>1, <1>2, <1>3, <1>4 DEF OrderInv

LEMMA NextOrder == TypeInv /\ OrderInv /\ [Next]_vars => OrderInv'
<1> SUFFICES ASSUME TypeInv, OrderInv, [Next]_vars PROVE OrderInv'
  OBVIOUS
<1>1. CASE SchedulerStep
  BY <1>1, SchedulerOrder
<1>2. CASE \E w \in Workers : HandlerStep(w)
  BY <1>2, HandlerOrder
<1>3. CASE RemoveExclusion
  BY <1>3, RowsStay, EditsStay, HandlerQuiet DEF RemoveExclusion
<1>4. CASE Crash
  <2>1. recipient' = recipient /\ outbox' = outbox /\ EmptyHanded
    BY <1>4, LetGo DEF Crash, tables, history
  <2>2. EditsFollow
    BY <1>4 DEF Crash, NoTask, EditsFollow
  <2>3. QED
    BY <2>1, <2>2, NothingHeld, RowsStay, QuietStep
<1>5. CASE UNCHANGED vars
  BY <1>5, RowsStay, EditsStay, HandlerQuiet DEF vars, tables, history
<1>6. QED
  BY <1>1, <1>2, <1>3, <1>4, <1>5 DEF Next

LEMMA OrderHolds == Spec => []OrderInv
<1>1. Init => OrderInv
  BY InitOrder
<1>2. TypeInv /\ OrderInv /\ [Next]_vars => OrderInv'
  BY NextOrder
<1>3. QED
  BY <1>1, <1>2, TypesHold, PTL DEF Spec

\* Nobody gets a step of a sequence before all the earlier ones: whatever stale
\* rows processCampaign, the monitors and the request handlers write over each
\* other, for any number of handlers, crashes and failed calls.
THEOREM StepsStayInOrder == Spec => []StepsInOrder
<1>1. OrderInv => StepsInOrder
  BY DEF OrderInv
<1>2. QED
  BY <1>1, OrderHolds, PTL

\* No row of email_campaign_recipients ever claims, by its currentStepOrder or
\* its disposition, a step that the mail provider did not accept.
THEOREM RowsAreHonest == Spec => []RowsClaimOnlyDelivered
<1>1. OrderInv => RowsClaimOnlyDelivered
  BY DEF OrderInv, ClaimsOfRows, Claims, RowsClaimOnlyDelivered, Live
<1>2. QED
  BY <1>1, OrderHolds, PTL
============================================================================
