---------------------- MODULE CampaignDispatchPromise ----------------------
(***************************************************************************)
(* Proof that an address on the exclusion list gets at most one more email *)
(* and that CampaignDispatch implements OutreachPromise.                   *)
(*                                                                         *)
(* The list is read once per email, before the handoff to the provider.    *)
(* Whoever passed that screen was not on the list when it was read, so its *)
(* count of late emails is still 0 when the email goes out; afterwards the *)
(* recipient in hand is let go, or the screen is passed anew.              *)
(***************************************************************************)
EXTENDS CampaignDispatchLedger

LateBound == LateInv /\ ExclusionTakesHold

\* What OutreachPromise can see of a step
Unseen == UNCHANGED <<outbox, excluded, late>>

\* Where the tick has the address in hand screened
Screened == tick.pc \in {"prepare", "handoff"}

-----------------------------------------------------------------------------
\* Which steps can be seen

LEMMA SchedulerUnseen ==
  ASSUME SchedulerStep, ~ \E lost \in BOOLEAN : HandoffAccepted(lost)
  PROVE  Unseen
<1>1. CASE \/ StartTick \/ ResumeRecipients \/ ReadPausedCampaigns
           \/ ResumeCampaigns \/ LoadCampaigns \/ EndTick
           \/ \E c \in Campaigns :
                SkipCampaign(c) \/ ExhaustedCampaign(c) \/ ProcessCampaign(c)
  BY <1>1 DEF Unseen, StartTick, ResumeRecipients, ReadPausedCampaigns,
              ResumeCampaigns, LoadCampaigns, EndTick, SkipCampaign,
              ExhaustedCampaign, ProcessCampaign, tables, history
<1>2. CASE \/ ReadUnscheduled \/ SaveUnscheduled \/ ReadFollowUps
           \/ SaveFollowUps \/ (\E r \in Recipients : PickRecipient(r))
           \/ PickNobody \/ ReadExclusionList \/ BarRecipient
           \/ FinishRecipient \/ NoSender \/ InsertMessage
  BY <1>2 DEF Unseen, ReadUnscheduled, SaveUnscheduled, ReadFollowUps,
              SaveFollowUps, PickRecipient, PickNobody, ReadExclusionList,
              BarRecipient, FinishRecipient, NoSender, InsertMessage, tables,
              history
<1>3. CASE \/ HandoffAtLimit \/ HandoffRefused \/ RecordSent \/ RecordSentThrows
           \/ RecordSendFailed \/ FailRecipient \/ AdvanceRecipient
           \/ ReadCohort \/ SaveCohort \/ CloseCampaign \/ CountIncomplete
           \/ MarkCampaignSent \/ TickFails
  BY <1>3 DEF Unseen, HandoffAtLimit, HandoffRefused, RecordSent,
              RecordSentThrows, RecordSendFailed, FailRecipient,
              AdvanceRecipient, ReadCohort, SaveCohort, CloseCampaign,
              CountIncomplete, MarkCampaignSent, TickFails, tables, history
<1>4. QED
  BY <1>1, <1>2, <1>3 DEF SchedulerStep

LEMMA HandlerUnseen ==
  ASSUME NEW w \in Workers, HandlerStep(w), ~ExcludeAddress(w)
  PROVE  Unseen
<1>1. CASE \E op, begun : Begin(w, op, begun)
  BY <1>1 DEF Begin, Unseen, tables, history
<1>2. CASE \/ SaveMessage(w) \/ ReadBounced(w) \/ SaveEdit(w) \/ StopAll(w)
           \/ SaveCampaign(w) \/ ReplaceChildren(w) \/ SaveReset(w)
           \/ SaveSchedule(w) \/ SaveAddition(w) \/ DeleteById(w)
           \/ HandlerFails(w)
  BY <1>2 DEF Unseen, SaveMessage, ReadBounced, SaveEdit, StopAll, SaveCampaign,
              ReplaceChildren, SaveReset, SaveSchedule, SaveAddition, DeleteById,
              HandlerFails,
              tables, history
<1>3. CASE \/ UpdateRecipient(w) \/ MarkReplyAsRead(w) \/ PauseRecipient(w)
           \/ StopRecipient(w) \/ ResumeRecipient(w) \/ RecordReply(w)
           \/ RecordOpen(w) \/ RecordUnsubscribe(w) \/ RecordBounce(w)
           \/ ExcludeRecipientGlobally(w) \/ ExcludeEmail(w)
           \/ DeleteCampaign(w) \/ AddRecipient(w)
  BY <1>1, <1>3 DEF UpdateRecipient, MarkReplyAsRead, PauseRecipient,
                    StopRecipient, ResumeRecipient, RecordReply,
                    RecordOpen, RecordUnsubscribe, RecordBounce,
                    ExcludeRecipientGlobally,
                    ExcludeEmail, DeleteCampaign, AddRecipient, Edits
<1>4. CASE \/ PauseCampaign(w) \/ StopSender(w) \/ StopCampaign(w)
           \/ ResumeCampaign(w) \/ UpdateStatus(w) \/ Update(w)
           \/ ResetToDraft(w) \/ Schedule(w)
  BY <1>1, <1>4 DEF PauseCampaign, StopSender, StopCampaign, ResumeCampaign,
                    UpdateStatus, Update, ResetToDraft, Schedule, EditsCampaign
<1>5. QED
  BY <1>2, <1>3, <1>4 DEF HandlerStep

-----------------------------------------------------------------------------
\* At most one late email

LEMMA UnseenKeepsBound ==
  ASSUME LateBound, Unseen,
         \/ ~Screened'
         \/ tick'.pc = tick.pc /\ tick'.who = tick.who /\ tick'.barred = tick.barred
  PROVE  LateBound'
BY DEF LateBound, LateInv, ExclusionTakesHold, Unseen, Screened

LEMMA ScreenBound ==
  ASSUME TypeInv, LateBound, ReadExclusionList
  PROVE  LateBound'
<1>1. tick.pc \in WithRecipient
  BY DEF ReadExclusionList, At, WithRecipient
<1>2. EmailOf[tick.who] \in Emails
  BY <1>1, InHandFacts, RowsAssumption
<1>3. /\ tick'.pc = "prepare"
      /\ tick'.who = tick.who
      /\ tick'.barred = (EmailOf[tick.who] \in excluded)
  BY DEF ReadExclusionList, TypeInv, TickInv, TickType
<1>4. Unseen
  BY DEF ReadExclusionList, Unseen, tables, history
<1>5. QED
  BY <1>2, <1>3, <1>4 DEF LateBound, LateInv, ExclusionTakesHold, Unseen

LEMMA InsertBound ==
  ASSUME TypeInv, LateBound, InsertMessage
  PROVE  LateBound'
<1>1. Unseen
  BY DEF InsertMessage, Unseen, history
<1>2. CASE tick' = Abandoned
  BY <1>1, <1>2, LetGo, UnseenKeepsBound DEF EmptyHanded, Screened, WithRecipient
<1>3. CASE tick' # Abandoned
  <2>1. /\ tick'.pc = "handoff"
        /\ tick'.who = tick.who
        /\ tick'.barred = tick.barred
    BY <1>3 DEF InsertMessage, TypeInv, TickInv, TickType
  <2>2. tick.pc = "prepare" /\ ~tick.barred
    BY DEF InsertMessage, At
  <2>3. QED
    BY <1>1, <2>1, <2>2 DEF LateBound, LateInv, ExclusionTakesHold, Unseen
<1>4. QED
  BY <1>2, <1>3

\* What the provider's acceptance does to the count of late emails
LEMMA HandoffFacts ==
  ASSUME TypeInv, LateBound, NEW lost \in BOOLEAN, HandoffAccepted(lost)
  PROVE  /\ tick.who \in Recipients
         /\ row.step \in Steps
         /\ EmailOf[tick.who] \in Emails
         /\ late[EmailOf[tick.who]] = 0
         /\ \A e \in Emails :
              late'[e] = IF e = EmailOf[tick.who] /\ e \in excluded
                         THEN 1 ELSE late[e]
         /\ excluded' = excluded
         /\ outbox' = outbox \cup
              {[id |-> tick.mail, to |-> tick.who, step |-> row.step]}
         /\ ~Screened'
<1>1. tick.pc = "handoff" /\ tick.pc \in WithRecipient
  BY DEF HandoffAccepted, At, WithRecipient
<1>2. /\ tick.who \in Recipients
      /\ row.step \in Steps
      /\ EmailOf[tick.who] \in Emails
  BY <1>1, InHandFacts, RowsAssumption DEF RecipientRow
<1>3. late[EmailOf[tick.who]] = 0
  BY <1>1 DEF LateBound, LateInv
<1>4. \A e \in Emails :
        late'[e] = IF e = EmailOf[tick.who] /\ e \in excluded THEN 1 ELSE late[e]
  BY <1>2, <1>3 DEF HandoffAccepted, TypeInv, TablesInv
<1>5. ~Screened'
  BY DEF HandoffAccepted, Goto, Screened, TypeInv, TickInv, TickType
<1>6. QED
  BY <1>2, <1>3, <1>4, <1>5 DEF HandoffAccepted, tables

LEMMA HandoffBound ==
  ASSUME TypeInv, LateBound, NEW lost \in BOOLEAN, HandoffAccepted(lost)
  PROVE  LateBound'
BY HandoffFacts DEF LateBound, LateInv, ExclusionTakesHold, Screened

\* The steps after which nobody is screened
LEMMA UnscreenedSteps ==
  ASSUME TypeInv, SchedulerStep, ~ReadExclusionList, ~InsertMessage
  PROVE  ~Screened'
<1> USE DEF Screened
<1>1. tick \in TickType
  BY DEF TypeInv, TickInv
<1>2. EmptyHanded => ~Screened'
  BY DEF EmptyHanded, WithRecipient
<1>4. CASE StartTick
  <2>1. PICK pc \in {"reread", "resume"} :
          \E rows : tick' = [Resting EXCEPT !.pc = pc, !.held = rows]
    BY <1>4 DEF StartTick
  <2>2. QED
    BY <2>1, RestingType DEF TickType
<1>5. CASE ResumeRecipients \/ SaveUnscheduled \/ SaveFollowUps
  <2>1. PICK pc \in {"reread", "spread", "pick"} :
          \/ tick' = [tick EXCEPT !.pc = pc, !.held = NoRows]
          \/ tick' = Abandoned
    BY <1>5 DEF ResumeRecipients, SaveUnscheduled, SaveFollowUps, SaveHeld
  <2>2. QED
    BY <1>1, <1>2, <2>1, LetGo DEF TickType
<1>6. CASE ReadPausedCampaigns
  <2>1. \/ tick' = Resting
        \/ \E pc \in {"load", "unpause"} :
             \E todo : tick' = [tick EXCEPT !.pc = pc, !.todo = todo]
    BY <1>6 DEF ReadPausedCampaigns
  <2>2. QED
    BY <1>1, <1>2, <2>1, LetGo DEF TickType
<1>7. CASE ResumeCampaigns \/ LoadCampaigns
           \/ \E c \in Campaigns :
                SkipCampaign(c) \/ ExhaustedCampaign(c) \/ ProcessCampaign(c)
  BY <1>1, <1>7, RestingType
     DEF ResumeCampaigns, LoadCampaigns, SkipCampaign, ExhaustedCampaign,
         ProcessCampaign, InHand, At, TickType
<1>8. CASE EndTick \/ PickNobody \/ NoSender \/ HandoffAtLimit \/ TickFails
  BY <1>2, <1>8, LetGo DEF EndTick, PickNobody, NoSender, HandoffAtLimit, TickFails
<1>9. CASE ReadUnscheduled
  <2>1. PICK pc \in {"spread", "saveSeed"} :
          \E rows : tick' = [tick EXCEPT !.pc = pc, !.held = rows]
    BY <1>9 DEF ReadUnscheduled
  <2>2. QED
    BY <1>1, <2>1 DEF TickType
<1>10. CASE ReadFollowUps
  <2>1. PICK pc \in {"pick", "saveSpread"} :
          \E rows : tick' = [tick EXCEPT !.pc = pc, !.held = rows]
    BY <1>10 DEF ReadFollowUps
  <2>2. QED
    BY <1>1, <2>1 DEF TickType
<1>11. CASE \E r \in Recipients : PickRecipient(r)
  BY <1>1, <1>11 DEF PickRecipient, TickType
<1>12. CASE BarRecipient \/ FinishRecipient \/ FailRecipient \/ SaveCohort
  <2>1. Close(FALSE) \/ Close(TRUE) \/ tick' = Abandoned
    BY <1>12 DEF BarRecipient, FinishRecipient, FailRecipient, SaveCohort, Settle
  <2>2. QED
    BY <1>2, <2>1, LetGo
<1>13. CASE \/ HandoffRefused \/ (\E lost \in BOOLEAN : HandoffAccepted(lost))
            \/ RecordSent \/ RecordSentThrows
  BY <1>1, <1>13 DEF HandoffRefused, HandoffAccepted, RecordSent,
                     RecordSentThrows, Goto, TickType
<1>14. CASE RecordSendFailed \/ CountIncomplete
  <2>1. Goto("fail") \/ Goto("mark") \/ tick' = Abandoned \/ tick' = Moved
    BY <1>14 DEF RecordSendFailed, CountIncomplete
  <2>2. QED
    BY <1>1, <1>2, <2>1, LetGo DEF Goto, TickType
<1>15. CASE AdvanceRecipient
  <2>1. \/ \E rows : tick' = [tick EXCEPT !.pc = "cohort", !.held = rows]
        \/ Close(TRUE)
        \/ tick' = Abandoned
    BY <1>15 DEF AdvanceRecipient
  <2>2. QED
    BY <1>1, <1>2, <2>1, LetGo DEF TickType
<1>16. CASE ReadCohort
  <2>1. \/ \E rows : tick' = [tick EXCEPT !.pc = "saveCohort", !.held = rows]
        \/ Close(TRUE)
    BY <1>16 DEF ReadCohort
  <2>2. QED
    BY <1>1, <1>2, <2>1, LetGo DEF TickType
<1>17. CASE CloseCampaign \/ MarkCampaignSent
  <2>1. \/ \E closed : tick' = [tick EXCEPT !.pc = "count", !.copy = closed]
        \/ tick' = Moved
        \/ tick' = Abandoned
    BY <1>17 DEF CloseCampaign, MarkCampaignSent, SaveCampaignAs
  <2>2. QED
    BY <1>1, <1>2, <2>1, LetGo DEF TickType
<1>18. QED
  BY <1>4, <1>5, <1>6, <1>7, <1>8, <1>9, <1>10, <1>11, <1>12, <1>13, <1>14,
     <1>15, <1>16, <1>17 DEF SchedulerStep

LEMMA ListChanges ==
  ASSUME TypeInv, LateBound, tick' = tick, outbox' = outbox,
         NEW e \in Emails, Exclude(e) \/ Readmit(e)
  PROVE  LateBound'
<1>1. /\ excluded' \in {excluded \cup {e}, excluded \ {e}}
      /\ late' = [late EXCEPT ![e] = 0] \/ late' = late
      /\ e \notin excluded' => late' = [late EXCEPT ![e] = 0]
  BY DEF Exclude, Readmit
<1>2. late \in [Emails -> Nat]
  BY DEF TypeInv, TablesInv
<1>3. \A f \in Emails : late'[f] = late[f] \/ late'[f] = 0
  BY <1>1, <1>2
<1>4. \A f \in Emails : f \notin excluded' => late'[f] = 0
  BY <1>1, <1>2, <1>3 DEF LateBound, LateInv
<1>5. tick.pc \in {"prepare", "handoff"} => EmailOf[tick.who] \in Emails
  BY InHandFacts, RowsAssumption DEF WithRecipient
<1>6. QED
  BY <1>3, <1>4, <1>5 DEF LateBound, LateInv, ExclusionTakesHold

LEMMA ExcludeAddressList ==
  ASSUME TypeInv, NEW w \in Workers, ExcludeAddress(w)
  PROVE  /\ tick' = tick /\ outbox' = outbox
         /\ Unseen \/ \E e \in Emails : Exclude(e)
<1>1. EmailOf[task[w].who] \in Emails
  BY RowsAssumption
     DEF ExcludeAddress, Stage, TypeInv, TasksInv, TaskInv, Ready
<1>2. QED
  BY <1>1 DEF ExcludeAddress, Unseen

LEMMA RemoveExclusionList ==
  ASSUME TypeInv, RemoveExclusion
  PROVE  /\ tick' = tick /\ outbox' = outbox
         /\ \E e \in excluded : e \in Emails /\ Readmit(e)
BY DEF RemoveExclusion, TypeInv, TablesInv

LEMMA HandlerTick ==
  ASSUME NEW w \in Workers, HandlerStep(w)
  PROVE  tick' = tick
<1>1. CASE \E op, begun : Begin(w, op, begun)
  BY <1>1 DEF Begin
<1>2. CASE \/ SaveMessage(w) \/ ReadBounced(w) \/ SaveEdit(w) \/ StopAll(w)
           \/ SaveCampaign(w) \/ ReplaceChildren(w) \/ SaveReset(w)
           \/ SaveSchedule(w) \/ SaveAddition(w) \/ DeleteById(w)
           \/ HandlerFails(w)
           \/ ExcludeAddress(w)
  BY <1>2 DEF SaveMessage, ReadBounced, SaveEdit, StopAll, SaveCampaign,
              ReplaceChildren, SaveReset, SaveSchedule, SaveAddition, DeleteById,
              HandlerFails,
              ExcludeAddress
<1>3. CASE \/ UpdateRecipient(w) \/ MarkReplyAsRead(w) \/ PauseRecipient(w)
           \/ StopRecipient(w) \/ ResumeRecipient(w) \/ RecordReply(w)
           \/ RecordOpen(w) \/ RecordUnsubscribe(w) \/ RecordBounce(w)
           \/ ExcludeRecipientGlobally(w) \/ ExcludeEmail(w)
           \/ DeleteCampaign(w) \/ AddRecipient(w)
  BY <1>1, <1>3 DEF UpdateRecipient, MarkReplyAsRead, PauseRecipient,
                    StopRecipient, ResumeRecipient, RecordReply,
                    RecordOpen, RecordUnsubscribe, RecordBounce,
                    ExcludeRecipientGlobally,
                    ExcludeEmail, DeleteCampaign, AddRecipient, Edits
<1>4. CASE \/ PauseCampaign(w) \/ StopSender(w) \/ StopCampaign(w)
           \/ ResumeCampaign(w) \/ UpdateStatus(w) \/ Update(w)
           \/ ResetToDraft(w) \/ Schedule(w)
  BY <1>1, <1>4 DEF PauseCampaign, StopSender, StopCampaign, ResumeCampaign,
                    UpdateStatus, Update, ResetToDraft, Schedule, EditsCampaign
<1>5. QED
  BY <1>2, <1>3, <1>4 DEF HandlerStep

LEMMA InitBound == Init => LateBound
BY DEF Init, Resting, LateBound, LateInv, ExclusionTakesHold

LEMMA NextBound == TypeInv /\ LateBound /\ [Next]_vars => LateBound'
<1> SUFFICES ASSUME TypeInv, LateBound, [Next]_vars PROVE LateBound'
  OBVIOUS
<1>1. CASE SchedulerStep
  <2>1. CASE ReadExclusionList \/ InsertMessage
    BY <2>1, ScreenBound, InsertBound
  <2>2. CASE \E lost \in BOOLEAN : HandoffAccepted(lost)
    BY <2>2, HandoffBound
  <2>3. CASE /\ ~ReadExclusionList
             /\ ~InsertMessage
             /\ ~ \E lost \in BOOLEAN : HandoffAccepted(lost)
    BY <1>1, <2>3, UnscreenedSteps, SchedulerUnseen, UnseenKeepsBound
  <2>4. QED
    BY <2>1, <2>2, <2>3
<1>2. ASSUME NEW w \in Workers, HandlerStep(w)
      PROVE  LateBound'
  <2>1. CASE ExcludeAddress(w)
    BY <2>1, ExcludeAddressList, ListChanges, UnseenKeepsBound
  <2>2. CASE ~ExcludeAddress(w)
    BY <1>2, <2>2, HandlerUnseen, HandlerTick, UnseenKeepsBound
  <2>3. QED
    BY <2>1, <2>2
<1>3. CASE RemoveExclusion
  BY <1>3, RemoveExclusionList, ListChanges
<1>4. CASE Crash
  <2>1. Unseen /\ ~Screened'
    BY <1>4 DEF Crash, Resting, Unseen, Screened, tables, history
  <2>2. QED
    BY <2>1, UnseenKeepsBound
<1>5. CASE UNCHANGED vars
  <2>1. Unseen /\ tick' = tick
    BY <1>5 DEF vars, tables, history, Unseen
  <2>2. QED
    BY <2>1, UnseenKeepsBound
<1>6. QED
  BY <1>1, <1>2, <1>3, <1>4, <1>5 DEF Next

LEMMA BoundHolds == Spec => []LateBound
<1>1. Init => LateBound
  BY InitBound
<1>2. TypeInv /\ LateBound /\ [Next]_vars => LateBound'
  BY NextBound
<1>3. QED
  BY <1>1, <1>2, TypesHold, PTL DEF Spec

\* Once an address is excluded at most one more email goes to it until it is
\* readmitted, however many campaigns, handlers and crashes there are: the one
\* whose exclusion list processCampaign had read before.
THEOREM AtMostOneLateEmail == Spec => []ExclusionTakesHold
<1>1. LateBound => ExclusionTakesHold
  BY DEF LateBound
<1>2. QED
  BY <1>1, BoundHolds, PTL

\* The whole invariant, as the runs check it: well-formed tables and copies,
\* honest rows, steps in order, at most one late email and a message for every
\* email.
THEOREM PipelineIsSound == Spec => []PipelineInv
<1>1. TypeInv /\ OrderInv /\ LateBound /\ LedgerInv => PipelineInv
  BY DEF TypeInv, TablesInv, TickInv, TasksInv, TypeOK, Rows, OrderInv,
         LateBound, PipelineInv
<1>2. QED
  BY <1>1, TypesHold, OrderHolds, BoundHolds, LedgerHolds, PTL

-----------------------------------------------------------------------------
\* The refinement

Pairs(box) == {<<x.to, x.step>> : x \in box}

Straggled(count) == {e \in Emails : count[e] > 0}

LEMMA UnseenStutters ==
  ASSUME Unseen
  PROVE  UNCHANGED Promise!promiseVars
BY DEF Unseen, Promise!promiseVars

LEMMA HandoffDelivers ==
  ASSUME TypeInv, OrderInv, LateBound, NEW lost \in BOOLEAN, HandoffAccepted(lost)
  PROVE  Promise!Next
<1>1. PICK r \in Recipients, k \in Steps, e \in Emails :
        r = tick.who /\ k = row.step /\ e = EmailOf[r]
  BY HandoffFacts
<1>2. /\ late[e] = 0
      /\ \A f \in Emails :
           late'[f] = IF f = e /\ f \in excluded THEN 1 ELSE late[f]
      /\ excluded' = excluded
      /\ outbox' = outbox \cup {[id |-> tick.mail, to |-> r, step |-> k]}
  BY <1>1, HandoffFacts
<1>3. tick.pc \in WithRecipient /\ row \in RecipientRow
  BY InHandFacts DEF HandoffAccepted, At, WithRecipient
<1>4. Claims(r, row)
  BY <1>1, <1>3, NoRowAssumption DEF OrderInv, ClaimsOfTick, row
<1>5. \A j \in Steps : j < k => <<r, j>> \in Pairs(outbox)
  BY <1>1, <1>4 DEF Claims, Delivered, Pairs
<1>6. e \notin Straggled(late)
  BY <1>2 DEF Straggled
<1>7. Pairs(outbox') = Pairs(outbox) \cup {<<r, k>>}
  <2> DEFINE email == [id |-> tick.mail, to |-> r, step |-> k]
  <2>1. email.to = r /\ email.step = k
    OBVIOUS
  <2>2. QED
    BY <1>2, <2>1 DEF Pairs
<1>8. Straggled(late') = Straggled(late) \cup ({e} \cap excluded)
  BY <1>2 DEF Straggled
<1>9. Promise!Deliver(r, k)
  BY <1>1, <1>2, <1>5, <1>6, <1>7, <1>8 DEF Promise!Deliver, Pairs, Straggled
<1>10. QED
  BY <1>9 DEF Promise!Next

LEMMA ListStep ==
  ASSUME TypeInv, LateBound, outbox' = outbox,
         NEW e \in Emails, Exclude(e) \/ (e \in excluded /\ Readmit(e))
  PROVE  [Promise!Next]_Promise!promiseVars
<1>1. late \in [Emails -> Nat]
  BY DEF TypeInv, TablesInv
<1>2. CASE e \notin excluded /\ Exclude(e)
  <2>1. late[e] = 0
    BY <1>2 DEF LateBound, LateInv
  <2>2. late' = late /\ excluded' = excluded \cup {e}
    BY <1>1, <1>2, <2>1 DEF Exclude
  <2>3. Promise!Exclude(e)
    BY <1>2, <2>2 DEF Promise!Exclude
  <2>4. QED
    BY <2>3 DEF Promise!Next
<1>3. CASE e \in excluded /\ Exclude(e)
  <2>1. Unseen
    BY <1>3 DEF Exclude, Unseen
  <2>2. QED
    BY <2>1, UnseenStutters
<1>4. CASE e \in excluded /\ Readmit(e)
  <2>1. Straggled(late') = Straggled(late) \ {e}
    BY <1>1, <1>4 DEF Readmit, Straggled
  <2>2. Promise!Readmit(e)
    BY <1>4, <2>1 DEF Promise!Readmit, Readmit, Straggled
  <2>3. QED
    BY <2>2 DEF Promise!Next
<1>5. QED
  BY <1>2, <1>3, <1>4

LEMMA InitPromised == Init => Promise!Init
<1> SUFFICES ASSUME Init PROVE Promise!Init
  OBVIOUS
<1>1. outbox = {} /\ excluded = {} /\ \A e \in Emails : late[e] = 0
  BY DEF Init
<1>2. Pairs(outbox) = {} /\ Straggled(late) = {}
  BY <1>1 DEF Pairs, Straggled
<1>3. QED
  BY <1>1, <1>2 DEF Promise!Init, Pairs, Straggled

LEMMA NextPromised ==
  TypeInv /\ OrderInv /\ LateBound /\ [Next]_vars
    => [Promise!Next]_Promise!promiseVars
<1> SUFFICES ASSUME TypeInv, OrderInv, LateBound, [Next]_vars
             PROVE  [Promise!Next]_Promise!promiseVars
  OBVIOUS
<1>1. CASE SchedulerStep
  <2>1. CASE \E lost \in BOOLEAN : HandoffAccepted(lost)
    BY <2>1, HandoffDelivers
  <2>2. CASE ~ \E lost \in BOOLEAN : HandoffAccepted(lost)
    BY <1>1, <2>2, SchedulerUnseen, UnseenStutters
  <2>3. QED
    BY <2>1, <2>2
<1>2. ASSUME NEW w \in Workers, HandlerStep(w)
      PROVE  [Promise!Next]_Promise!promiseVars
  <2>1. CASE ExcludeAddress(w)
    BY <2>1, ExcludeAddressList, ListStep, UnseenStutters
  <2>2. CASE ~ExcludeAddress(w)
    BY <1>2, <2>2, HandlerUnseen, UnseenStutters
  <2>3. QED
    BY <2>1, <2>2
<1>3. CASE RemoveExclusion
  BY <1>3, RemoveExclusionList, ListStep
<1>4. CASE Crash \/ UNCHANGED vars
  <2>1. Unseen
    BY <1>4 DEF Crash, vars, tables, history, Unseen
  <2>2. QED
    BY <2>1, UnseenStutters
<1>5. QED
  BY <1>1, <1>2, <1>3, <1>4 DEF Next

\* The pipeline, with all its tables, stale copies, crashes and failures,
\* implements OutreachPromise: what recipients get is a behaviour of that small
\* specification, for any number of campaigns, recipients and handlers.
THEOREM Refinement == Spec => PromiseKept
<1>1. Init => Promise!Init
  BY InitPromised
<1>2. TypeInv /\ OrderInv /\ LateBound /\ [Next]_vars
        => [Promise!Next]_Promise!promiseVars
  BY NextPromised
<1>3. QED
  BY <1>1, <1>2, TypesHold, OrderHolds, BoundHolds, PTL
     DEF Spec, PromiseKept, Promise!Spec
============================================================================
