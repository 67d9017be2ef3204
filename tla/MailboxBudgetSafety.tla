------------------------- MODULE MailboxBudgetSafety -------------------------
(***************************************************************************)
(* Theorems about MailboxBudget: the limit of a mailbox and the batch of a *)
(* campaign are exceeded on a day by no more emails than were counted      *)
(* behind somebody's back or lost, and no counter ever says too much.      *)
(*                                                                         *)
(* The argument: every copy of a counter, in the tables or in the memory   *)
(* of a process, is at most what was sent on its day, and short of what    *)
(* was sent by at most the emails that were counted while it was in use,   *)
(* the failures, and the email that is on its way.                         *)
(***************************************************************************)
EXTENDS MailboxBudget, TLAPS, SequenceTheorems, FiniteSetTheorems,
        WellFoundedInduction

SenderRows == [Senders -> SenderRow \cup {NoRow}]

Loaded == [row : CampaignRow, rows : SenderRows]

CampaignCalls ==
  {"campaign", "senders", "assignment", "quota", "launch", "replace"}

\* A handler that has read a campaign, and one that has read a mailbox
Editing ==
  [calls : Seq(CampaignCalls) \ {<<>>}, c : Campaigns, row : CampaignRow,
   rows : SenderRows, new : SenderRows, b : {None}, box : {NoRow}]

MailboxEditing ==
  [calls : {<<"mailbox">>}, c : {None}, row : {NoRow}, rows : {NoSenders},
   new : {NoSenders}, b : Mailboxes, box : MailboxRow]

Handlers == {Idle} \cup Editing \cup MailboxEditing

Places ==
  {"idle", "unpause", "load", "next", "mailboxes", "send", "handoff", "count",
   "close", "persist", "refresh"}

Ticks ==
  [pc : Places, todo : [Campaigns -> Loaded \cup {NoRow}],
   cur : Campaigns \cup {None}, row : CampaignRow \cup {NoRow}, rows : SenderRows,
   began : Nat, by : Senders \cup {None}, box : MailboxRow \cup {NoRow},
   sent : BOOLEAN]

Typed ==
  /\ TypeOK
  /\ tick \in Ticks
  /\ task \in [Workers -> Handlers]
  /\ failures \in Nat

-----------------------------------------------------------------------------
\* The copies.  sent: emails per day; lost: those a copy may not know of.

Used(row, d) == IF row.day = d THEN row.used ELSE 0

Fits(row, sent, lost, today) ==
  /\ row.day # None => row.used <= sent[row.day]
  /\ \A d \in Days : d >= today => sent[d] <= Used(row, d) + lost[d]

SendersFit(rows, sent) ==
  \A s \in Senders : (rows[s] # NoRow /\ rows[s].day # None) =>
    rows[s].used <= sent[s][rows[s].day]

\* The email that was accepted and is not in the counter yet
BoxFlight(b, d) ==
  IF At("count") /\ From = b /\ tick.box.day = d THEN 1 ELSE 0

RowFlight(c, d) ==
  IF (At("count") \/ (At("close") /\ tick.sent)) /\ tick.cur = c /\ tick.row.day = d
  THEN 1 ELSE 0

BoxLost(b) == [d \in Days |-> shaken[b][d] + failures + BoxFlight(b, d)]
RowLost(c) == [d \in Days |-> shaken[c][d] + failures + RowFlight(c, d)]

BoxFits(b, row) == Fits(row, accepted[b], BoxLost(b), UtcDay(now))

RowFits(c, row) ==
  /\ Fits(row, accepted[c], RowLost(c), CampaignDay(now))
  /\ row.status = "draft" => row.used = 0

TablesFit ==
  /\ \A b \in Mailboxes : BoxFits(b, mailbox[b])
  /\ \A c \in Campaigns : RowFits(c, campaign[c])
  /\ SendersFit(sender, accepted)

CopyFits(handler) ==
  /\ handler \in MailboxEditing =>
       \A b \in Mailboxes : handler.b = b => BoxFits(b, handler.box)
  /\ handler \in Editing =>
       /\ \A c \in Campaigns : handler.c = c => RowFits(c, handler.row)
       /\ SendersFit(handler.rows, accepted)
       /\ SendersFit(handler.new, accepted)

CopiesFit ==
  /\ \A m \in Monitors, b \in Mailboxes : poll[m][b] # NoRow => BoxFits(b, poll[m][b])
  /\ \A w \in Workers : CopyFits(task[w])

TodoFits ==
  \A c \in Campaigns : tick.todo[c] # NoRow =>
    /\ RowFits(c, tick.todo[c].row)
    /\ tick.todo[c].row.status # "draft"
    /\ SendersFit(tick.todo[c].rows, accepted)

Nothing(sent, day) == \A d \in Days : d > day => sent[d] = 0

Tomorrow ==
  /\ \A b \in Mailboxes : Nothing(accepted[b], UtcDay(now))
  /\ \A c \in Campaigns : Nothing(accepted[c], CampaignDay(now))

-----------------------------------------------------------------------------
\* What the scheduler run has in hand

InFlight == IF At("count") THEN 1 ELSE 0

Held(row, sent, lost, extra) ==
  /\ row.day \in Days
  /\ Nothing(sent, row.day)
  /\ row.used + extra <= sent[row.day]
  /\ sent[row.day] <= row.used + lost[row.day] + failures + extra

CampaignHeld ==
  tick.pc \notin {"idle", "unpause", "load", "next"} =>
    /\ tick.cur \in Campaigns
    /\ tick.todo[tick.cur] = NoRow
    /\ tick.row \in CampaignRow
    /\ tick.row.status # "draft"
    /\ tick.row.day <= CampaignDay(now)
    /\ Held(tick.row, accepted[tick.cur], shaken[tick.cur], InFlight)
    /\ SendersFit(tick.rows, accepted)

SendersHeld ==
  tick.pc \in {"mailboxes", "send", "handoff", "count"} =>
    /\ tick.row.used < Batch
    /\ \A s \in Active(tick.rows) : tick.rows[s].day = tick.row.day

SenderPicked ==
  tick.pc \in {"send", "handoff", "count"} => tick.by \in Active(tick.rows)

MailboxHeld ==
  tick.pc \in {"handoff", "count"} =>
    /\ tick.box \in MailboxRow
    /\ tick.box.day <= UtcDay(now)
    /\ tick.box.used < tick.box.limit
    /\ Held(tick.box, accepted[From], shaken[From], InFlight)

SenderCharged ==
  At("count") => tick.rows[tick.by].used + 1 <= accepted[tick.by][tick.row.day]

HandFits ==
  CampaignHeld /\ SendersHeld /\ SenderPicked /\ MailboxHeld /\ SenderCharged

LimitsKept == MailboxLimitKept /\ BatchKept

BudgetInv ==
  Typed /\ TablesFit /\ CopiesFit /\ TodoFits /\ Tomorrow /\ HandFits /\ LimitsKept

-----------------------------------------------------------------------------
\* Days and limits

LEMMA DaysAreNat ==
  /\ Days \subseteq Nat /\ None \notin Days
  /\ \A t \in 0..MaxNow : UtcDay(t) \in Days /\ CampaignDay(t) \in Days
  /\ \A t, u \in 0..MaxNow : t <= u =>
       UtcDay(t) <= UtcDay(u) /\ CampaignDay(t) <= CampaignDay(u)
<1>1. Days \subseteq Nat /\ None \notin Days
  BY BudgetAssumption, IdAssumption DEF Days, CampaignDay
<1>2. \A t \in 0..MaxNow : UtcDay(t) \in Days /\ CampaignDay(t) \in Days
  BY BudgetAssumption DEF Days, CampaignDay, UtcDay
<1>3. \A t, u \in 0..MaxNow : t <= u =>
        UtcDay(t) <= UtcDay(u) /\ CampaignDay(t) <= CampaignDay(u)
  BY BudgetAssumption DEF CampaignDay, UtcDay
<1> QED  BY <1>1, <1>2, <1>3

\* A finite set of numbers has a greatest one.
LEMMA LimitBound == Max(Limits) \in Nat /\ \A l \in Limits : l <= Max(Limits)
<1> DEFINE Least(x) == {y \in Limits : y >= x}
           Bounds == {Least(x) : x \in Limits}
<1>1. /\ FiniteSubsetsOf(Limits) = SUBSET Limits
      /\ IsWellFoundedOn(StrictSubsetOrdering(Limits), SUBSET Limits)
  BY FS_FiniteSubsetsOfFinite, FS_StrictSubsetOrderingWellFounded, BudgetAssumption
<1>2. Bounds \subseteq SUBSET Limits /\ Bounds # {}
  <2>1. PICK x : x \in Limits
    BY BudgetAssumption
  <2>2. Least(x) \in Bounds
    BY <2>1
  <2>3. \A B \in Bounds : B \subseteq Limits
    OBVIOUS
  <2> HIDE DEF Bounds
  <2> QED  BY <2>2, <2>3
<1>3. \E B \in Bounds : \A C \in Bounds : ~ (<<C, B>> \in StrictSubsetOrdering(Limits))
  <2> HIDE DEF Bounds
  <2> QED  BY <1>1, <1>2, WFMin
<1>4. PICK x \in Limits : \A y \in Limits : ~ (<<Least(y), Least(x)>> \in StrictSubsetOrdering(Limits))
  BY <1>3
<1>5. \A y \in Limits : x >= y
  <2> SUFFICES ASSUME NEW y \in Limits, ~(x >= y) PROVE FALSE
    OBVIOUS
  <2>1. y > x /\ x \in Nat /\ y \in Nat
    BY BudgetAssumption
  <2>2. x \in Least(x) /\ x \notin Least(y)
    BY <2>1
  <2>4. ASSUME NEW z \in Limits, z >= y PROVE z >= x
    <3>1. z \in Nat
      BY BudgetAssumption
    <3> QED  BY <3>1, <2>1, <2>4
  <2>5. Least(y) \subseteq Least(x)
    BY <2>4
  <2>3. <<Least(y), Least(x)>> \in StrictSubsetOrdering(Limits)
    <3>1. Least(y) \in SUBSET Limits /\ Least(x) \in SUBSET Limits
      OBVIOUS
    <3> HIDE DEF Least
    <3> QED  BY <3>1, <2>2, <2>5 DEF StrictSubsetOrdering
  <2> QED  BY <2>3, <1>4
<1>6. Max(Limits) \in Limits /\ \A y \in Limits : Max(Limits) >= y
  BY <1>5 DEF Max
<1> QED  BY <1>6, BudgetAssumption

-----------------------------------------------------------------------------
\* What a step may do to the counts that a copy is measured by

Grows(sent, lost, today, sent2, lost2, today2) ==
  /\ today \in Nat /\ today2 \in Nat /\ today <= today2
  /\ \A d \in Days :
       /\ sent[d] \in Nat /\ sent2[d] \in Nat /\ lost[d] \in Nat /\ lost2[d] \in Nat
       /\ sent[d] <= sent2[d]
       /\ sent2[d] + lost[d] <= sent[d] + lost2[d]

LEMMA FitsGrows ==
  ASSUME NEW row, row.used \in Nat, row.day \in Days \cup {None},
         NEW sent, NEW lost, NEW today, NEW sent2, NEW lost2, NEW today2,
         Fits(row, sent, lost, today), Grows(sent, lost, today, sent2, lost2, today2)
  PROVE  Fits(row, sent2, lost2, today2)
<1>1. ASSUME row.day # None PROVE row.used <= sent2[row.day]
  <2>1. row.day \in Days /\ row.used <= sent[row.day]
    BY <1>1 DEF Fits
  <2>2. sent[row.day] \in Nat /\ sent2[row.day] \in Nat /\ sent[row.day] <= sent2[row.day]
    BY <2>1 DEF Grows
  <2> QED  BY <2>1, <2>2
<1>2. ASSUME NEW d \in Days, d >= today2 PROVE sent2[d] <= Used(row, d) + lost2[d]
  <2>1. d \in Nat /\ today \in Nat /\ today2 \in Nat /\ today <= today2
    BY DaysAreNat DEF Grows
  <2>2. d >= today
    BY <2>1, <1>2
  <2>3. sent[d] <= Used(row, d) + lost[d]
    BY <2>2 DEF Fits
  <2>4. /\ sent[d] \in Nat /\ sent2[d] \in Nat /\ lost[d] \in Nat /\ lost2[d] \in Nat
        /\ sent2[d] + lost[d] <= sent[d] + lost2[d]
    BY DEF Grows
  <2>5. Used(row, d) \in Nat
    BY DEF Used
  <2> QED  BY <2>3, <2>4, <2>5
<1> QED  BY <1>1, <1>2 DEF Fits

LEMMA SendersGrow ==
  ASSUME NEW rows \in SenderRows, NEW sent, NEW sent2,
         \A s \in Senders, d \in Days :
           sent[s][d] \in Nat /\ sent2[s][d] \in Nat /\ sent[s][d] <= sent2[s][d],
         SendersFit(rows, sent)
  PROVE  SendersFit(rows, sent2)
<1> SUFFICES ASSUME NEW s \in Senders, rows[s] # NoRow, rows[s].day # None
             PROVE  rows[s].used <= sent2[s][rows[s].day]
  BY DEF SendersFit
<1>1. rows[s] \in SenderRow
  BY DEF SenderRows
<1>2. rows[s].day \in Days /\ rows[s].used \in Nat
  BY <1>1 DEF SenderRow
<1>3. rows[s].used <= sent[s][rows[s].day]
  BY DEF SendersFit
<1> QED  BY <1>2, <1>3

BoxStep(b) ==
  Grows(accepted[b], BoxLost(b), UtcDay(now), accepted'[b], BoxLost(b)', UtcDay(now)')

RowStep(c) ==
  Grows(accepted[c], RowLost(c), CampaignDay(now), accepted'[c], RowLost(c)',
        CampaignDay(now)')

SendersStep ==
  \A s \in Senders, d \in Days :
    accepted[s][d] \in Nat /\ accepted'[s][d] \in Nat /\ accepted[s][d] <= accepted'[s][d]

LEMMA BoxKept ==
  ASSUME NEW b \in Mailboxes, NEW row \in MailboxRow, BoxFits(b, row), BoxStep(b)
  PROVE  BoxFits(b, row)'
<1>1. row.used \in Nat /\ row.day \in Days \cup {None}
  BY DEF MailboxRow
<1> QED  BY <1>1, FitsGrows DEF BoxFits, BoxStep

LEMMA RowKept ==
  ASSUME NEW c \in Campaigns, NEW row \in CampaignRow, RowFits(c, row), RowStep(c)
  PROVE  RowFits(c, row)'
<1>1. row.used \in Nat /\ row.day \in Days \cup {None}
  BY DEF CampaignRow
<1> QED  BY <1>1, FitsGrows DEF RowFits, RowStep

\* Copies that nobody touches
LEMMA HandlerKept ==
  ASSUME NEW handler, CopyFits(handler), SendersStep,
         \A b \in Mailboxes : handler.b = b => BoxStep(b),
         \A c \in Campaigns : handler.c = c => RowStep(c)
  PROVE  CopyFits(handler)'
<1>1. ASSUME handler \in MailboxEditing, NEW b \in Mailboxes, handler.b = b
      PROVE  BoxFits(b, handler.box)'
  <2>1. handler.box \in MailboxRow
    BY <1>1 DEF MailboxEditing
  <2> QED  BY <2>1, <1>1, BoxKept DEF CopyFits
<1>2. ASSUME handler \in Editing, NEW c \in Campaigns, handler.c = c
      PROVE  RowFits(c, handler.row)'
  <2>1. handler.row \in CampaignRow
    BY <1>2 DEF Editing
  <2> QED  BY <2>1, <1>2, RowKept DEF CopyFits
<1>3. ASSUME handler \in Editing
      PROVE  SendersFit(handler.rows, accepted)' /\ SendersFit(handler.new, accepted)'
  <2>1. handler.rows \in SenderRows /\ handler.new \in SenderRows
    BY <1>3 DEF Editing
  <2>2. SendersFit(handler.rows, accepted') /\ SendersFit(handler.new, accepted')
    BY <2>1, <1>3, SendersGrow DEF CopyFits, SendersStep
  <2> QED  BY <2>2
<1> QED  BY <1>1, <1>2, <1>3 DEF CopyFits

LEMMA PollKept ==
  ASSUME Typed, CopiesFit, NEW m \in Monitors, NEW b \in Mailboxes,
         poll'[m][b] = poll[m][b], poll[m][b] # NoRow, BoxStep(b)
  PROVE  BoxFits(b, poll[m][b])'
<1>1. PICK row \in MailboxRow : row = poll[m][b]
  BY DEF Typed, TypeOK
<1>2. BoxFits(b, row)'
  BY <1>1, BoxKept DEF CopiesFit
<1> QED  BY <1>1, <1>2 DEF BoxFits

\* Copies that nobody touches
LEMMA CopiesKept ==
  ASSUME Typed, CopiesFit, SendersStep, task' = task, poll' = poll,
         \A b \in Mailboxes : MailboxInUse(b) => BoxStep(b),
         \A c \in Campaigns : CampaignInUse(c) => RowStep(c)
  PROVE  CopiesFit'
<1>1. ASSUME NEW m \in Monitors, NEW b \in Mailboxes, poll[m][b] # NoRow
      PROVE  BoxFits(b, poll[m][b])'
  BY <1>1, PollKept DEF MailboxInUse
<1>2. ASSUME NEW w \in Workers PROVE CopyFits(task[w])'
  <2>1. PICK handler : handler = task[w]
    OBVIOUS
  <2>2. CopyFits(handler)'
    BY <2>1, HandlerKept DEF CopiesFit, MailboxInUse, CampaignInUse
  <2> QED  BY <2>1, <2>2 DEF CopyFits
<1> QED  BY <1>1, <1>2 DEF CopiesFit

LEMMA Counts ==
  ASSUME Typed
  PROVE  /\ now \in 0..MaxNow /\ now \in Nat /\ failures \in Nat
         /\ UtcDay(now) \in Days /\ CampaignDay(now) \in Days
         /\ \A x \in Campaigns \cup Mailboxes \cup Senders, d \in Days : accepted[x][d] \in Nat
         /\ \A x \in Campaigns \cup Mailboxes, d \in Days : shaken[x][d] \in Nat
BY DaysAreNat, BudgetAssumption DEF Typed, TypeOK

LEMMA CountsNext ==
  ASSUME Typed'
  PROVE  /\ now' \in 0..MaxNow /\ now' \in Nat /\ failures' \in Nat
         /\ UtcDay(now)' \in Days /\ CampaignDay(now)' \in Days
         /\ \A x \in Campaigns \cup Mailboxes \cup Senders, d \in Days : accepted'[x][d] \in Nat
         /\ \A x \in Campaigns \cup Mailboxes, d \in Days : shaken'[x][d] \in Nat
<1>1. now' \in 0..MaxNow /\ failures' \in Nat
  BY DEF Typed, TypeOK
<1>2. UtcDay(now)' \in Days /\ CampaignDay(now)' \in Days
  BY <1>1, DaysAreNat DEF UtcDay, CampaignDay
<1> QED  BY <1>1, <1>2, BudgetAssumption DEF Typed, TypeOK

LEMMA BoxStepIf ==
  ASSUME Typed, Typed', now <= now', NEW b \in Mailboxes,
         \A d \in Days :
           /\ accepted[b][d] <= accepted'[b][d]
           /\ accepted'[b][d] + shaken[b][d] + failures + BoxFlight(b, d)
                <= accepted[b][d] + shaken'[b][d] + failures' + BoxFlight(b, d)'
  PROVE  BoxStep(b)
<1>1. UtcDay(now) \in Nat /\ UtcDay(now)' \in Nat /\ UtcDay(now) <= UtcDay(now)'
  BY Counts, CountsNext, DaysAreNat
<1>2. ASSUME NEW d \in Days
      PROVE  /\ accepted[b][d] \in Nat /\ accepted'[b][d] \in Nat
             /\ BoxLost(b)[d] \in Nat /\ BoxLost(b)'[d] \in Nat
             /\ accepted'[b][d] + BoxLost(b)[d] <= accepted[b][d] + BoxLost(b)'[d]
  <2>1. accepted[b][d] \in Nat /\ shaken[b][d] \in Nat /\ failures \in Nat
    BY Counts
  <2>2. accepted'[b][d] \in Nat /\ shaken'[b][d] \in Nat /\ failures' \in Nat
    BY CountsNext
  <2>3. BoxFlight(b, d) \in Nat /\ BoxFlight(b, d)' \in Nat
    BY DEF BoxFlight
  <2>4. /\ BoxLost(b)[d] = shaken[b][d] + failures + BoxFlight(b, d)
        /\ BoxLost(b)'[d] = shaken'[b][d] + failures' + BoxFlight(b, d)'
    BY DEF BoxLost
  <2>5. accepted'[b][d] + shaken[b][d] + failures + BoxFlight(b, d)
          <= accepted[b][d] + shaken'[b][d] + failures' + BoxFlight(b, d)'
    OBVIOUS
  <2> QED  BY <2>1, <2>2, <2>3, <2>4, <2>5
<1> QED  BY <1>1, <1>2 DEF BoxStep, Grows

LEMMA RowStepIf ==
  ASSUME Typed, Typed', now <= now', NEW c \in Campaigns,
         \A d \in Days :
           /\ accepted[c][d] <= accepted'[c][d]
           /\ accepted'[c][d] + shaken[c][d] + failures + RowFlight(c, d)
                <= accepted[c][d] + shaken'[c][d] + failures' + RowFlight(c, d)'
  PROVE  RowStep(c)
<1>1. CampaignDay(now) \in Nat /\ CampaignDay(now)' \in Nat /\ CampaignDay(now) <= CampaignDay(now)'
  BY Counts, CountsNext, DaysAreNat
<1>2. ASSUME NEW d \in Days
      PROVE  /\ accepted[c][d] \in Nat /\ accepted'[c][d] \in Nat
             /\ RowLost(c)[d] \in Nat /\ RowLost(c)'[d] \in Nat
             /\ accepted'[c][d] + RowLost(c)[d] <= accepted[c][d] + RowLost(c)'[d]
  <2>1. accepted[c][d] \in Nat /\ shaken[c][d] \in Nat /\ failures \in Nat
    BY Counts
  <2>2. accepted'[c][d] \in Nat /\ shaken'[c][d] \in Nat /\ failures' \in Nat
    BY CountsNext
  <2>3. RowFlight(c, d) \in Nat /\ RowFlight(c, d)' \in Nat
    BY DEF RowFlight
  <2>4. /\ RowLost(c)[d] = shaken[c][d] + failures + RowFlight(c, d)
        /\ RowLost(c)'[d] = shaken'[c][d] + failures' + RowFlight(c, d)'
    BY DEF RowLost
  <2>5. accepted'[c][d] + shaken[c][d] + failures + RowFlight(c, d)
          <= accepted[c][d] + shaken'[c][d] + failures' + RowFlight(c, d)'
    OBVIOUS
  <2> QED  BY <2>1, <2>2, <2>3, <2>4, <2>5
<1> QED  BY <1>1, <1>2 DEF RowStep, Grows

\* A step that accepts nothing and loses no email on its way
Still ==
  /\ accepted' = accepted /\ shaken' = shaken
  /\ failures <= failures' /\ now <= now'
  /\ \A b \in Mailboxes, d \in Days :
       failures + BoxFlight(b, d) <= failures' + BoxFlight(b, d)'
  /\ \A c \in Campaigns, d \in Days :
       failures + RowFlight(c, d) <= failures' + RowFlight(c, d)'

LEMMA StillSteps ==
  ASSUME Typed, Typed', Still
  PROVE  /\ \A b \in Mailboxes : BoxStep(b)
         /\ \A c \in Campaigns : RowStep(c)
         /\ SendersStep
<1>1. ASSUME NEW b \in Mailboxes PROVE BoxStep(b)
  <2>1. ASSUME NEW d \in Days
        PROVE  /\ accepted[b][d] <= accepted'[b][d]
               /\ accepted'[b][d] + shaken[b][d] + failures + BoxFlight(b, d)
                    <= accepted[b][d] + shaken'[b][d] + failures' + BoxFlight(b, d)'
    <3>1. /\ accepted[b][d] \in Nat /\ shaken[b][d] \in Nat /\ failures \in Nat
          /\ failures' \in Nat
      BY Counts, CountsNext
    <3>2. BoxFlight(b, d) \in Nat /\ BoxFlight(b, d)' \in Nat
      BY DEF BoxFlight
    <3> QED  BY <3>1, <3>2 DEF Still
  <2> QED  BY <2>1, BoxStepIf DEF Still
<1>2. ASSUME NEW c \in Campaigns PROVE RowStep(c)
  <2>1. ASSUME NEW d \in Days
        PROVE  /\ accepted[c][d] <= accepted'[c][d]
               /\ accepted'[c][d] + shaken[c][d] + failures + RowFlight(c, d)
                    <= accepted[c][d] + shaken'[c][d] + failures' + RowFlight(c, d)'
    <3>1. /\ accepted[c][d] \in Nat /\ shaken[c][d] \in Nat /\ failures \in Nat
          /\ failures' \in Nat
      BY Counts, CountsNext
    <3>2. RowFlight(c, d) \in Nat /\ RowFlight(c, d)' \in Nat
      BY DEF RowFlight
    <3> QED  BY <3>1, <3>2 DEF Still
  <2> QED  BY <2>1, RowStepIf DEF Still
<1>3. SendersStep
  BY Counts DEF SendersStep, Still
<1> QED  BY <1>1, <1>2, <1>3

LEMMA SameBox ==
  ASSUME Typed, TablesFit, NEW b \in Mailboxes, mailbox'[b] = mailbox[b], BoxStep(b)
  PROVE  BoxFits(b, mailbox[b])'
<1>1. PICK row \in MailboxRow : row = mailbox[b]
  BY DEF Typed, TypeOK
<1>2. BoxFits(b, row)'
  BY <1>1, BoxKept DEF TablesFit
<1> QED  BY <1>1, <1>2 DEF BoxFits

LEMMA SameRow ==
  ASSUME Typed, TablesFit, NEW c \in Campaigns, campaign'[c] = campaign[c], RowStep(c)
  PROVE  RowFits(c, campaign[c])'
<1>1. PICK row \in CampaignRow : row = campaign[c]
  BY DEF Typed, TypeOK
<1>2. RowFits(c, row)'
  BY <1>1, RowKept DEF TablesFit
<1> QED  BY <1>1, <1>2 DEF RowFits

LEMMA SameSenders ==
  ASSUME Typed, TablesFit, sender' = sender, SendersStep
  PROVE  SendersFit(sender, accepted)'
<1>1. sender \in SenderRows
  BY DEF Typed, TypeOK, SenderRows
<1>2. SendersFit(sender, accepted')
  BY <1>1, SendersGrow DEF TablesFit, SendersStep
<1> QED  BY <1>2

LEMMA SameTables ==
  ASSUME Typed, TablesFit, tables' = tables, SendersStep,
         \A b \in Mailboxes : BoxStep(b), \A c \in Campaigns : RowStep(c)
  PROVE  TablesFit'
<1>1. /\ \A b \in Mailboxes : BoxFits(b, mailbox[b])'
      /\ \A c \in Campaigns : RowFits(c, campaign[c])'
      /\ SendersFit(sender, accepted)'
  BY SameBox, SameRow, SameSenders DEF tables
<1> QED  BY <1>1 DEF TablesFit

LEMMA SameTodo ==
  ASSUME Typed, TodoFits, NEW c \in Campaigns, tick'.todo[c] = tick.todo[c],
         tick.todo[c] # NoRow, RowStep(c), SendersStep
  PROVE  /\ RowFits(c, tick.todo[c].row)'
         /\ tick'.todo[c].row.status # "draft"
         /\ SendersFit(tick'.todo[c].rows, accepted')
<1>1. PICK row \in CampaignRow : row = tick.todo[c].row
  BY DEF Typed, Ticks, Loaded
<1>2. RowFits(c, row)'
  BY <1>1, RowKept DEF TodoFits
<1>3. tick.todo[c].rows \in SenderRows
  BY DEF Typed, Ticks, Loaded
<1>4. SendersFit(tick.todo[c].rows, accepted')
  BY <1>3, SendersGrow DEF TodoFits, SendersStep
<1>5. tick'.todo[c].row.status # "draft"
  BY DEF TodoFits
<1> QED  BY <1>1, <1>2, <1>4, <1>5 DEF RowFits

\* The scheduler rests while others act.
LEMMA SameTick ==
  ASSUME Typed, Typed', TodoFits, Tomorrow, HandFits, LimitsKept,
         tick' = tick, history' = history, failures <= failures', now <= now'
  PROVE  TodoFits' /\ Tomorrow' /\ HandFits' /\ LimitsKept' /\ Still
<1>1. Still
  BY Counts, CountsNext DEF Still, history, BoxFlight, RowFlight, At, From
<1>2. TodoFits'
  <2> SUFFICES ASSUME NEW c \in Campaigns, tick'.todo[c] # NoRow
               PROVE  /\ RowFits(c, tick.todo[c].row)'
                      /\ tick'.todo[c].row.status # "draft"
                      /\ SendersFit(tick'.todo[c].rows, accepted')
    BY DEF TodoFits
  <2> QED  BY <1>1, StillSteps, SameTodo
<1>3. Tomorrow'
  <2>1. UtcDay(now) <= UtcDay(now)' /\ CampaignDay(now) <= CampaignDay(now)'
    BY DaysAreNat, Counts, CountsNext
  <2>2. UtcDay(now) \in Nat /\ UtcDay(now)' \in Nat /\ CampaignDay(now) \in Nat /\ CampaignDay(now)' \in Nat
    BY DaysAreNat, Counts, CountsNext
  <2>3. ASSUME NEW b \in Mailboxes, NEW d \in Days, d > UtcDay(now)' PROVE accepted'[b][d] = 0
    <3>1. d > UtcDay(now)
      BY <2>1, <2>2, <2>3, DaysAreNat
    <3> QED  BY <3>1 DEF Tomorrow, Nothing, history
  <2>4. ASSUME NEW c \in Campaigns, NEW d \in Days, d > CampaignDay(now)' PROVE accepted'[c][d] = 0
    <3>1. d > CampaignDay(now)
      BY <2>1, <2>2, <2>4, DaysAreNat
    <3> QED  BY <3>1 DEF Tomorrow, Nothing, history
  <2> QED  BY <2>3, <2>4 DEF Tomorrow, Nothing
<1>4. HandFits'
  <2>1. UtcDay(now) <= UtcDay(now)' /\ CampaignDay(now) <= CampaignDay(now)'
    BY DaysAreNat, Counts, CountsNext
  <2>2. UtcDay(now) \in Nat /\ UtcDay(now)' \in Nat /\ CampaignDay(now) \in Nat /\ CampaignDay(now)' \in Nat
    BY DaysAreNat, Counts, CountsNext
  <2>3. ASSUME NEW row, NEW x \in Campaigns \cup Mailboxes, row.used \in Nat,
               Held(row, accepted[x], shaken[x], InFlight)
        PROVE  Held(row, accepted[x], shaken[x], InFlight)'
    <3>1. InFlight' = InFlight /\ InFlight \in Nat
      BY DEF InFlight, At
    <3>2. row.day \in Days /\ accepted[x][row.day] \in Nat /\ shaken[x][row.day] \in Nat
      BY <2>3, Counts DEF Held
    <3>3. failures \in Nat /\ failures' \in Nat
      BY Counts, CountsNext
    <3> QED  BY <3>1, <3>2, <3>3, <2>3 DEF Held, history
  <2>4. CampaignHeld'
    <3> SUFFICES ASSUME tick.pc \notin {"idle", "unpause", "load", "next"}
                 PROVE  /\ tick.row.day <= CampaignDay(now)'
                        /\ Held(tick.row, accepted[tick.cur], shaken[tick.cur], InFlight)'
      BY DEF CampaignHeld, HandFits, history
    <3>1. \E row \in CampaignRow, c \in Campaigns : row = tick.row /\ c = tick.cur
      BY DEF HandFits, CampaignHeld
    <3>4. PICK row \in CampaignRow, c \in Campaigns : row = tick.row /\ c = tick.cur
      BY <3>1
    <3>2. row.used \in Nat /\ row.day <= CampaignDay(now) /\ Held(row, accepted[c], shaken[c], InFlight)
      BY <3>4 DEF HandFits, CampaignHeld, CampaignRow
    <3>3. Held(row, accepted[c], shaken[c], InFlight)' /\ row.day \in Nat
      BY <3>2, <2>3, DaysAreNat DEF Held
    <3>5. tick.row.day <= CampaignDay(now)'
      BY <3>2, <3>3, <3>4, <2>1, <2>2
    <3> QED  BY <3>3, <3>4, <3>5 DEF Held
  <2>5. SendersHeld' /\ SenderPicked' /\ SenderCharged'
    BY DEF HandFits, SendersHeld, SenderPicked, SenderCharged, At, history
  <2>6. MailboxHeld'
    <3> SUFFICES ASSUME tick.pc \in {"handoff", "count"}
                 PROVE  /\ tick.box.day <= UtcDay(now)'
                        /\ Held(tick.box, accepted[From], shaken[From], InFlight)'
      BY DEF MailboxHeld, HandFits
    <3>1. PICK row \in MailboxRow : row = tick.box
      BY DEF HandFits, MailboxHeld
    <3>2. PICK b \in Mailboxes : b = From
      BY DEF HandFits, SenderPicked, Active, Present, From, Typed, Ticks, SenderRows, SenderRow
    <3>3. row.used \in Nat /\ row.day <= UtcDay(now) /\ Held(row, accepted[b], shaken[b], InFlight)
      BY <3>1, <3>2 DEF HandFits, MailboxHeld, MailboxRow
    <3>4. Held(row, accepted[b], shaken[b], InFlight)' /\ row.day \in Nat
      BY <3>3, <2>3, DaysAreNat DEF Held
    <3>5. tick.box.day <= UtcDay(now)'
      BY <3>1, <3>3, <3>4, <2>1, <2>2
    <3>6. b = From'
      BY <3>2 DEF From
    <3> QED  BY <3>1, <3>4, <3>5, <3>6 DEF Held
  <2> QED  BY <2>4, <2>5, <2>6 DEF HandFits
<1>5. LimitsKept'
  <2>1. ASSUME NEW b \in Mailboxes, NEW d \in Days
        PROVE  accepted'[b][d] <= Max(Limits) + shaken'[b][d] + failures'
    <3>1. accepted[b][d] <= Max(Limits) + shaken[b][d] + failures
      BY DEF LimitsKept, MailboxLimitKept
    <3> QED  BY <3>1, LimitBound, Counts, CountsNext DEF history
  <2>2. ASSUME NEW c \in Campaigns, NEW d \in Days
        PROVE  accepted'[c][d] <= Batch + shaken'[c][d] + failures'
    <3>1. accepted[c][d] <= Batch + shaken[c][d] + failures
      BY DEF LimitsKept, BatchKept
    <3> QED  BY <3>1, BudgetAssumption, Counts, CountsNext DEF history
  <2> QED  BY <2>1, <2>2 DEF LimitsKept, MailboxLimitKept, BatchKept
<1> QED  BY <1>1, <1>2, <1>3, <1>4, <1>5

\* A step of a monitor, a handler or the clock, which may save copies that fit
LEMMA OthersAct ==
  ASSUME BudgetInv, Typed', tick' = tick, history' = history,
         failures <= failures', now <= now',
         \A b \in Mailboxes : \E row \in MailboxRow : row = mailbox'[b] /\ BoxFits(b, row),
         \A c \in Campaigns : \E row \in CampaignRow : row = campaign'[c] /\ RowFits(c, row),
         SendersFit(sender', accepted),
         \A m \in Monitors, b \in Mailboxes : poll'[m][b] # NoRow =>
           \E row \in MailboxRow : row = poll'[m][b] /\ BoxFits(b, row),
         \A w \in Workers : \E handler : handler = task'[w] /\ CopyFits(handler)
  PROVE  BudgetInv'
<1>1. TodoFits' /\ Tomorrow' /\ HandFits' /\ LimitsKept' /\ Still
  BY SameTick DEF BudgetInv
<1>2. /\ \A b \in Mailboxes : BoxStep(b)
      /\ \A c \in Campaigns : RowStep(c)
      /\ SendersStep
  BY <1>1, StillSteps DEF BudgetInv
<1>3. TablesFit'
  <2>1. ASSUME NEW b \in Mailboxes PROVE BoxFits(b, mailbox[b])'
    <3>1. PICK row \in MailboxRow : row = mailbox'[b] /\ BoxFits(b, row)
      OBVIOUS
    <3>2. BoxFits(b, row)'
      BY <3>1, <1>2, BoxKept
    <3> QED  BY <3>1, <3>2 DEF BoxFits
  <2>2. ASSUME NEW c \in Campaigns PROVE RowFits(c, campaign[c])'
    <3>1. PICK row \in CampaignRow : row = campaign'[c] /\ RowFits(c, row)
      OBVIOUS
    <3>2. RowFits(c, row)'
      BY <3>1, <1>2, RowKept
    <3> QED  BY <3>1, <3>2 DEF RowFits
  <2>3. SendersFit(sender', accepted')
    BY DEF history
  <2> QED  BY <2>1, <2>2, <2>3 DEF TablesFit
<1>4. CopiesFit'
  <2>1. ASSUME NEW m \in Monitors, NEW b \in Mailboxes, poll'[m][b] # NoRow
        PROVE  BoxFits(b, poll[m][b])'
    <3>1. PICK row \in MailboxRow : row = poll'[m][b] /\ BoxFits(b, row)
      BY <2>1
    <3>2. BoxFits(b, row)'
      BY <3>1, <1>2, BoxKept
    <3> QED  BY <3>1, <3>2 DEF BoxFits
  <2>2. ASSUME NEW w \in Workers PROVE CopyFits(task[w])'
    <3>1. PICK handler : handler = task'[w] /\ CopyFits(handler)
      OBVIOUS
    <3>2. CopyFits(handler)'
      BY <3>1, <1>2, HandlerKept
    <3> QED  BY <3>1, <3>2 DEF CopyFits
  <2> QED  BY <2>1, <2>2 DEF CopiesFit
<1> QED  BY <1>1, <1>3, <1>4 DEF BudgetInv

\* What the rows are now
LEMMA RowsNow ==
  ASSUME BudgetInv
  PROVE  /\ \A b \in Mailboxes : \E row \in MailboxRow : row = mailbox[b] /\ BoxFits(b, row)
         /\ \A c \in Campaigns : \E row \in CampaignRow : row = campaign[c] /\ RowFits(c, row)
         /\ SendersFit(sender, accepted) /\ sender \in SenderRows
         /\ \A m \in Monitors, b \in Mailboxes : poll[m][b] # NoRow =>
              \E row \in MailboxRow : row = poll[m][b] /\ BoxFits(b, row)
         /\ \A w \in Workers : \E handler : handler = task[w] /\ CopyFits(handler)
BY DEF BudgetInv, Typed, TypeOK, TablesFit, CopiesFit, SenderRows

-----------------------------------------------------------------------------
\* The monitors

LEMMA PollSteps ==
  ASSUME BudgetInv, NEW m \in Monitors, PollStep(m)
  PROVE  BudgetInv'
<1> USE DEF history, tables, counters
<1>1. CASE StartPoll(m)
  <2>1. /\ tick' = tick /\ history' = history /\ failures' = failures /\ now' = now
        /\ tables' = tables /\ task' = task
        /\ poll' = [poll EXCEPT ![m] = [b \in Mailboxes |-> IF mailbox[b].active
                                                            THEN mailbox[b] ELSE NoRow]]
    BY <1>1 DEF StartPoll
  <2>2. Typed'
    BY <2>1 DEF BudgetInv, Typed, TypeOK
  <2>3. ASSUME NEW n \in Monitors, NEW b \in Mailboxes, poll'[n][b] # NoRow
        PROVE  \E row \in MailboxRow : row = poll'[n][b] /\ BoxFits(b, row)
    <3>1. poll'[n][b] = poll[n][b] \/ poll'[n][b] = mailbox[b]
      BY <2>1, <2>3 DEF BudgetInv, Typed, TypeOK
    <3> QED  BY <3>1, <2>3, RowsNow
  <2> QED  BY <2>1, <2>2, <2>3, RowsNow, OthersAct, Counts DEF BudgetInv
<1>2. CASE PollFails(m)
  <2>1. /\ tick' = tick /\ history' = history /\ failures' = failures + 1 /\ now' = now
        /\ tables' = tables /\ task' = task
        /\ poll' = [poll EXCEPT ![m] = NoMailboxes]
    BY <1>2 DEF PollFails, Failing, Happens
  <2>2. Typed'
    BY <2>1 DEF BudgetInv, Typed, TypeOK, NoMailboxes
  <2>3. ASSUME NEW n \in Monitors, NEW b \in Mailboxes, poll'[n][b] # NoRow
        PROVE  \E row \in MailboxRow : row = poll'[n][b] /\ BoxFits(b, row)
    <3>1. poll'[n][b] = poll[n][b]
      BY <2>1, <2>3 DEF BudgetInv, Typed, TypeOK, NoMailboxes
    <3> QED  BY <3>1, <2>3, RowsNow
  <2>4. failures <= failures' /\ now <= now'
    BY <2>1, Counts DEF BudgetInv
  <2> QED  BY <2>1, <2>2, <2>3, <2>4, RowsNow, OthersAct
<1>3. ASSUME NEW b \in Mailboxes, RefreshPollToken(m, b) \/ SavePolled(m, b)
      PROVE  BudgetInv'
  <2>1. /\ tick' = tick /\ history' = history /\ failures' = failures /\ now' = now
        /\ campaign' = campaign /\ sender' = sender /\ task' = task
        /\ poll[m][b] # NoRow
        /\ mailbox' = [mailbox EXCEPT ![b] = poll[m][b]]
        /\ poll' = poll \/ poll' = [poll EXCEPT ![m][b] = NoRow]
    BY <1>3 DEF RefreshPollToken, SavePolled
  <2>5. /\ poll' \in [Monitors -> [Mailboxes -> MailboxRow \cup {NoRow}]]
        /\ \A n \in Monitors, a \in Mailboxes : poll'[n][a] \in {poll[n][a], NoRow}
    <3>1. CASE poll' = poll
      BY <3>1 DEF BudgetInv, Typed, TypeOK
    <3>2. CASE poll' = [poll EXCEPT ![m][b] = NoRow]
      BY <3>2 DEF BudgetInv, Typed, TypeOK
    <3> QED  BY <3>1, <3>2, <2>1
  <2>2. Typed'
    BY <2>1, <2>5 DEF BudgetInv, Typed, TypeOK
  <2>3. ASSUME NEW n \in Monitors, NEW a \in Mailboxes, poll'[n][a] # NoRow
        PROVE  \E row \in MailboxRow : row = poll'[n][a] /\ BoxFits(a, row)
    <3>1. poll'[n][a] = poll[n][a]
      BY <2>5, <2>3
    <3> QED  BY <3>1, <2>3, RowsNow
  <2>4. ASSUME NEW a \in Mailboxes
        PROVE  \E row \in MailboxRow : row = mailbox'[a] /\ BoxFits(a, row)
    <3>1. CASE a = b
      <4>1. mailbox'[a] = poll[m][b]
        BY <2>1, <3>1 DEF BudgetInv, Typed, TypeOK
      <4> QED  BY <4>1, <2>1, <3>1, RowsNow
    <3>2. CASE a # b
      <4>1. mailbox'[a] = mailbox[a]
        BY <2>1, <3>2 DEF BudgetInv, Typed, TypeOK
      <4> QED  BY <4>1, RowsNow
    <3> QED  BY <3>1, <3>2
  <2> QED  BY <2>1, <2>2, <2>3, <2>4, RowsNow, OthersAct, Counts DEF BudgetInv
<1>4. ASSUME NEW b \in Mailboxes, SkipPolled(m, b)
      PROVE  BudgetInv'
  <2>1. /\ tick' = tick /\ history' = history /\ failures' = failures /\ now' = now
        /\ tables' = tables /\ task' = task
        /\ poll' = [poll EXCEPT ![m][b] = NoRow]
    BY <1>4 DEF SkipPolled
  <2>2. Typed'
    BY <2>1 DEF BudgetInv, Typed, TypeOK
  <2>3. ASSUME NEW n \in Monitors, NEW a \in Mailboxes, poll'[n][a] # NoRow
        PROVE  \E row \in MailboxRow : row = poll'[n][a] /\ BoxFits(a, row)
    <3>1. poll'[n][a] = poll[n][a]
      BY <2>1, <2>3 DEF BudgetInv, Typed, TypeOK
    <3> QED  BY <3>1, <2>3, RowsNow
  <2> QED  BY <2>1, <2>2, <2>3, RowsNow, OthersAct, Counts DEF BudgetInv
<1> QED  BY <1>1, <1>2, <1>3, <1>4 DEF PollStep

-----------------------------------------------------------------------------
\* The handlers: what they read

LEMMA Starts ==
  ASSUME BudgetInv, NEW w \in Workers, NEW op, NEW handler, Begin(w, op, handler),
         handler \in Handlers, CopyFits(handler)
  PROVE  BudgetInv'
<1>1. /\ tick' = tick /\ history' = history /\ failures' = failures /\ now' = now
      /\ tables' = tables /\ poll' = poll
      /\ task' = [task EXCEPT ![w] = handler]
  BY DEF Begin
<1>6. ASSUME NEW v \in Workers PROVE task'[v] \in {task[v], handler}
  BY <1>1 DEF BudgetInv, Typed
<1>2. Typed'
  <2>1. task' \in [Workers -> Handlers]
    BY <1>1 DEF BudgetInv, Typed
  <2>2. TypeOK' /\ tick' \in Ticks /\ failures' \in Nat
    BY <1>1 DEF BudgetInv, Typed, TypeOK, tables, history
  <2> QED  BY <2>1, <2>2 DEF Typed
<1>3. ASSUME NEW v \in Workers
      PROVE  \E h : h = task'[v] /\ CopyFits(h)
  BY <1>3, <1>6, RowsNow
<1>4. failures <= failures' /\ now <= now'
  BY <1>1, Counts DEF BudgetInv
<1>5. campaign' = campaign /\ sender' = sender /\ mailbox' = mailbox
  BY <1>1 DEF tables
<1> QED  BY <1>1, <1>2, <1>3, <1>4, <1>5, RowsNow, OthersAct

LEMMA LoadedFit ==
  ASSUME BudgetInv, NEW c
  PROVE  LoadedSenders(c) \in SenderRows /\ SendersFit(LoadedSenders(c), accepted)
BY RowsNow DEF LoadedSenders, SenderRows, SendersFit

LEMMA NoneFit ==
  NoSenders \in SenderRows /\ SendersFit(NoSenders, accepted)
BY DEF NoSenders, SenderRows, SendersFit

LEMMA NotOfCampaign == <<"mailbox">> \notin Seq(CampaignCalls)
<1> SUFFICES ASSUME NEW calls \in Seq(CampaignCalls), calls = <<"mailbox">> PROVE FALSE
  OBVIOUS
<1>1. calls[1] = "mailbox" /\ Len(calls) = 1
  OBVIOUS
<1>2. calls[1] \in CampaignCalls
  BY <1>1, ElementOfSeq
<1> QED  BY <1>1, <1>2 DEF CampaignCalls

LEMMA EditFits ==
  ASSUME BudgetInv, NEW calls \in Seq(CampaignCalls), calls # <<>>, NEW c \in Campaigns,
         NEW row \in CampaignRow, RowFits(c, row),
         NEW new \in SenderRows, SendersFit(new, accepted)
  PROVE  Edit(calls, c, row, new) \in Handlers
         /\ CopyFits(Edit(calls, c, row, new))
<1>1. PICK rows \in SenderRows : rows = LoadedSenders(c) /\ SendersFit(rows, accepted)
  BY LoadedFit
<1>2. PICK handler : handler = Edit(calls, c, row, new)
  OBVIOUS
<1>3. /\ handler \in Editing
      /\ handler.calls = calls /\ handler.c = c /\ handler.row = row
      /\ handler.rows = rows /\ handler.new = new
  BY <1>1, <1>2 DEF Edit, Idle, Editing
<1>4. handler \notin MailboxEditing
  BY <1>3, NotOfCampaign DEF MailboxEditing
<1>5. CopyFits(handler)
  BY <1>1, <1>3, <1>4 DEF CopyFits
<1> QED  BY <1>2, <1>3, <1>5 DEF Handlers

\* Editing a campaign leaves its counter alone, or starts a draft with none.
LEMMA SameCounter ==
  ASSUME NEW c, NEW row, NEW edited, RowFits(c, row),
         edited.used = row.used, edited.day = row.day,
         edited.status = "draft" => row.status = "draft"
  PROVE  RowFits(c, edited)
BY DEF RowFits, Fits, Used

LEMMA NewCounter ==
  ASSUME BudgetInv, NEW c \in Campaigns, NEW row \in CampaignRow, NEW edited,
         RowFits(c, row), row.status = "draft",
         edited.used = 0, edited.day = None
  PROVE  RowFits(c, edited)
<1>1. row.used = 0
  BY DEF RowFits
<1>2. ASSUME NEW d \in Days, d >= CampaignDay(now)
      PROVE  accepted[c][d] <= Used(edited, d) + RowLost(c)[d]
  <2>1. accepted[c][d] <= Used(row, d) + RowLost(c)[d]
    BY <1>2 DEF RowFits, Fits
  <2>2. Used(row, d) = 0 /\ Used(edited, d) = 0
    BY <1>1, DaysAreNat DEF Used
  <2> QED  BY <2>1, <2>2
<1> QED  BY <1>2 DEF RowFits, Fits

LEMMA EditedRows ==
  ASSUME BudgetInv, NEW c \in Campaigns
  PROVE  /\ campaign[c] \in CampaignRow /\ RowFits(c, campaign[c])
         /\ \A timed \in BOOLEAN : MayPauseCampaign(campaign[c]) =>
              /\ CampaignPaused(campaign[c], timed) \in CampaignRow
              /\ RowFits(c, CampaignPaused(campaign[c], timed))
         /\ MayStopCampaign(campaign[c]) =>
              /\ CampaignStopped(campaign[c]) \in CampaignRow
              /\ RowFits(c, CampaignStopped(campaign[c]))
         /\ MayResumeCampaign(campaign[c]) =>
              /\ CampaignResumed(campaign[c]) \in CampaignRow
              /\ RowFits(c, CampaignResumed(campaign[c]))
              /\ CampaignResumed(campaign[c]).status # "draft"
         /\ campaign[c].status = "draft" =>
              LET scheduled == [campaign[c] EXCEPT !.status = "scheduled"]
                  launched == [CampaignScheduled(campaign[c]) EXCEPT !.used = 0, !.day = None]
              IN scheduled \in CampaignRow /\ RowFits(c, scheduled)
                 /\ launched \in CampaignRow /\ RowFits(c, launched)
<1>1. PICK row \in CampaignRow : row = campaign[c] /\ RowFits(c, row)
  BY RowsNow
<1>2. /\ row.status \in CampaignStatuses /\ row.before \in RunningStatuses \cup {None}
      /\ row.until \in BOOLEAN /\ row.launched \in BOOLEAN
      /\ row.used \in Nat /\ row.day \in Days \cup {None}
  BY DEF CampaignRow
<1>3. ASSUME NEW timed \in BOOLEAN, MayPauseCampaign(row)
      PROVE  CampaignPaused(row, timed) \in CampaignRow /\ RowFits(c, CampaignPaused(row, timed))
  <2>1. PICK edited : edited = CampaignPaused(row, timed)
    OBVIOUS
  <2>2. /\ edited \in CampaignRow /\ edited.used = row.used /\ edited.day = row.day
        /\ edited.status # "draft"
    BY <2>1, <1>2, <1>3 DEF CampaignPaused, CampaignRow, MayPauseCampaign, CampaignStatuses
  <2> QED  BY <2>1, <2>2, <1>1, SameCounter
<1>4. ASSUME MayStopCampaign(row)
      PROVE  CampaignStopped(row) \in CampaignRow /\ RowFits(c, CampaignStopped(row))
  <2>1. PICK edited : edited = CampaignStopped(row)
    OBVIOUS
  <2>2. /\ edited \in CampaignRow /\ edited.used = row.used /\ edited.day = row.day
        /\ edited.status # "draft"
    BY <2>1, <1>2 DEF CampaignStopped, CampaignRow, CampaignStatuses
  <2> QED  BY <2>1, <2>2, <1>1, SameCounter
<1>5. ASSUME MayResumeCampaign(row)
      PROVE  /\ CampaignResumed(row) \in CampaignRow /\ RowFits(c, CampaignResumed(row))
             /\ CampaignResumed(row).status # "draft"
  <2>1. PICK edited : edited = CampaignResumed(row)
    OBVIOUS
  <2>2. /\ edited \in CampaignRow /\ edited.used = row.used /\ edited.day = row.day
        /\ edited.status # "draft"
    BY <2>1, <1>2, <1>5
    DEF CampaignResumed, CampaignRow, CampaignStatuses, RunningStatuses, MayResumeCampaign
  <2> QED  BY <2>1, <2>2, <1>1, SameCounter
<1>6. ASSUME row.status = "draft"
      PROVE  /\ [row EXCEPT !.status = "scheduled"] \in CampaignRow
             /\ RowFits(c, [row EXCEPT !.status = "scheduled"])
  <2>1. PICK edited : edited = [row EXCEPT !.status = "scheduled"]
    OBVIOUS
  <2>2. /\ edited \in CampaignRow /\ edited.used = row.used /\ edited.day = row.day
        /\ edited.status # "draft"
    BY <2>1, <1>2 DEF CampaignRow, CampaignStatuses
  <2> QED  BY <2>1, <2>2, <1>1, SameCounter
<1>7. ASSUME row.status = "draft"
      PROVE  /\ [CampaignScheduled(row) EXCEPT !.used = 0, !.day = None] \in CampaignRow
             /\ RowFits(c, [CampaignScheduled(row) EXCEPT !.used = 0, !.day = None])
  <2>1. PICK edited : edited = [CampaignScheduled(row) EXCEPT !.used = 0, !.day = None]
    OBVIOUS
  <2>2. edited \in CampaignRow /\ edited.used = 0 /\ edited.day = None
    BY <2>1, <1>2 DEF CampaignScheduled, CampaignRow, CampaignStatuses
  <2> QED  BY <2>1, <2>2, <1>1, <1>7, NewCounter
<1> QED  BY <1>1, <1>3, <1>4, <1>5, <1>6, <1>7

\* Saving one sender
LEMMA OnlyFits ==
  ASSUME BudgetInv, NEW s, NEW row \in SenderRow,
         (s \in Senders /\ row.day # None) => row.used <= accepted[s][row.day]
  PROVE  Only(s, row) \in SenderRows /\ SendersFit(Only(s, row), accepted)
BY DEF Only, NoSenders, SenderRows, SendersFit

LEMMA SenderFacts ==
  ASSUME BudgetInv, NEW s \in Present(sender)
  PROVE  /\ s \in Senders /\ sender[s] \in SenderRow /\ sender[s].of \in Campaigns
         /\ sender[s].day # None => sender[s].used <= accepted[s][sender[s].day]
BY RowsNow DEF Present, SenderRows, SenderRow, SendersFit

\* Each handler has read what it will save.
LEMMA CampaignRequests ==
  ASSUME BudgetInv, NEW w \in Workers, NEW c \in Campaigns,
         \/ PauseCampaign(w, c) \/ StopCampaign(w, c) \/ UpdateSteps(w, c)
         \/ UpdateStatusToScheduled(w, c) \/ Schedule(w, c)
         \/ \E too \in BOOLEAN : ResumeCampaign(w, c, too)
         \/ \E b \in Mailboxes, quota \in Quotas \cup {None} : AddSender(w, c, b, quota)
  PROVE  BudgetInv'
<1>1. /\ <<"campaign">> \in Seq(CampaignCalls) /\ <<"campaign">> # <<>>
      /\ <<"launch", "campaign">> \in Seq(CampaignCalls) /\ <<"launch", "campaign">> # <<>>
      /\ <<"campaign", "replace">> \in Seq(CampaignCalls) /\ <<"campaign", "replace">> # <<>>
      /\ <<"assignment", "senders">> \in Seq(CampaignCalls) /\ <<"assignment", "senders">> # <<>>
      /\ <<>> \in Seq(CampaignCalls)
  BY DEF CampaignCalls
<1>2. NoSenders \in SenderRows /\ SendersFit(NoSenders, accepted)
  BY NoneFit
<1>3. CASE PauseCampaign(w, c)
  <2>1. /\ CampaignPaused(campaign[c], TRUE) \in CampaignRow
        /\ RowFits(c, CampaignPaused(campaign[c], TRUE))
    BY <1>3, EditedRows DEF PauseCampaign
  <2> QED  BY <2>1, <1>1, <1>2, <1>3, EditFits, Starts DEF PauseCampaign
<1>4. CASE StopCampaign(w, c)
  <2>1. /\ CampaignStopped(campaign[c]) \in CampaignRow
        /\ RowFits(c, CampaignStopped(campaign[c]))
    BY <1>4, EditedRows DEF StopCampaign
  <2> QED  BY <2>1, <1>1, <1>2, <1>4, EditFits, Starts DEF StopCampaign
<1>5. CASE UpdateSteps(w, c)
  <2>1. campaign[c] \in CampaignRow /\ RowFits(c, campaign[c])
    BY EditedRows
  <2> QED  BY <2>1, <1>1, <1>2, <1>5, EditFits, Starts DEF UpdateSteps
<1>6. CASE UpdateStatusToScheduled(w, c)
  <2> DEFINE row == [campaign[c] EXCEPT !.status = "scheduled"]
  <2>1. row \in CampaignRow /\ RowFits(c, row)
    BY <1>6, EditedRows DEF UpdateStatusToScheduled
  <2>2. Begin(w, "updateStatus", Edit(<<"campaign">>, c, row, NoSenders))
    BY <1>6 DEF UpdateStatusToScheduled
  <2> HIDE DEF row
  <2> QED  BY <2>1, <2>2, <1>1, <1>2, EditFits, Starts
<1>7. CASE Schedule(w, c)
  <2> DEFINE row == [CampaignScheduled(campaign[c]) EXCEPT !.used = 0, !.day = None]
  <2>1. row \in CampaignRow /\ RowFits(c, row)
    BY <1>7, EditedRows DEF Schedule
  <2>2. Begin(w, "schedule", Edit(<<"launch", "campaign">>, c, row, NoSenders))
    BY <1>7 DEF Schedule
  <2> HIDE DEF row
  <2> QED  BY <2>1, <2>2, <1>1, <1>2, EditFits, Starts
<1>8. ASSUME NEW too \in BOOLEAN, ResumeCampaign(w, c, too)
      PROVE  BudgetInv'
  <2> DEFINE rows == LoadedSenders(c)
             paused == {s \in Present(rows) : rows[s].status = "paused"}
             resumed == [s \in Senders |-> IF s \in paused
                                           THEN [rows[s] EXCEPT !.status = "active"]
                                           ELSE NoRow]
             senders == IF too /\ paused # {} THEN <<"assignment", "senders">> ELSE <<>>
             status == IF MayResumeCampaign(campaign[c]) THEN <<"campaign">> ELSE <<>>
             row == IF status = <<>> THEN campaign[c] ELSE CampaignResumed(campaign[c])
             new == IF senders = <<>> THEN NoSenders ELSE resumed
  <2>1. rows \in SenderRows /\ SendersFit(rows, accepted)
    BY LoadedFit
  <2>2. senders \o status # <<>> /\ Begin(w, "resumeCampaign", Edit(senders \o status, c, row, new))
    BY <1>8 DEF ResumeCampaign
  <2>3. senders \in Seq(CampaignCalls) /\ status \in Seq(CampaignCalls)
    BY <1>1
  <2>4. row \in CampaignRow /\ RowFits(c, row)
    <3>1. CASE MayResumeCampaign(campaign[c])
      <4>1. row = CampaignResumed(campaign[c])
        BY <3>1, <1>1
      <4> QED  BY <4>1, <3>1, EditedRows
    <3>2. CASE ~MayResumeCampaign(campaign[c])
      <4>1. row = campaign[c]
        BY <3>2
      <4> QED  BY <4>1, EditedRows
    <3> QED  BY <3>1, <3>2
  <2>5. resumed \in SenderRows /\ SendersFit(resumed, accepted)
    <3>1. ASSUME NEW s \in paused
          PROVE  /\ resumed[s] \in SenderRow
                 /\ resumed[s].used = rows[s].used /\ resumed[s].day = rows[s].day
                 /\ rows[s] # NoRow
      <4>1. s \in Senders /\ rows[s] \in SenderRow /\ rows[s] # NoRow
        BY <2>1 DEF Present, SenderRows
      <4>2. resumed[s] = [rows[s] EXCEPT !.status = "active"]
        BY <4>1
      <4> HIDE DEF rows, resumed, paused
      <4> QED  BY <4>1, <4>2 DEF SenderRow
    <3>2. ASSUME NEW s \in Senders, s \notin paused PROVE resumed[s] = NoRow
      BY <3>2
    <3>3. resumed = [s \in Senders |-> resumed[s]]
      OBVIOUS
    <3> HIDE DEF resumed, paused, rows
    <3>4. resumed \in SenderRows
      BY <3>1, <3>2, <3>3 DEF SenderRows
    <3>5. SendersFit(resumed, accepted)
      BY <3>1, <3>2, <2>1 DEF SendersFit
    <3> QED  BY <3>4, <3>5
  <2>6. new \in SenderRows /\ SendersFit(new, accepted)
    <3> HIDE DEF resumed, senders
    <3> QED  BY <2>5, <1>2
  <2> DEFINE calls == senders \o status
  <2>7. calls \in Seq(CampaignCalls) /\ calls # <<>>
    <3> HIDE DEF senders, status
    <3> QED  BY <2>2, <2>3
  <2>8. Begin(w, "resumeCampaign", Edit(calls, c, row, new))
    BY <2>2
  <2> HIDE DEF calls, row, new
  <2> QED  BY <2>4, <2>6, <2>7, <2>8, EditFits, Starts
<1>9. ASSUME NEW b \in Mailboxes, NEW quota \in Quotas \cup {None}, AddSender(w, c, b, quota)
      PROVE  BudgetInv'
  <2> DEFINE row == NewSender(c, b, quota)
             new == Only(FreshSender, row)
  <2>1. row \in SenderRow /\ row.day = None
    BY DEF NewSender, SenderRow
  <2>2. new \in SenderRows /\ SendersFit(new, accepted)
    <3> HIDE DEF row
    <3> QED  BY <2>1, OnlyFits
  <2>3. Begin(w, "addSender", Edit(<<"assignment", "senders">>, c, campaign[c], new))
    BY <1>9 DEF AddSender
  <2>4. campaign[c] \in CampaignRow /\ RowFits(c, campaign[c])
    BY EditedRows
  <2> HIDE DEF new
  <2> QED  BY <2>2, <2>3, <2>4, <1>1, EditFits, Starts
<1> QED  BY <1>3, <1>4, <1>5, <1>6, <1>7, <1>8, <1>9

LEMMA SenderRequests ==
  ASSUME BudgetInv, NEW w \in Workers, NEW s \in Present(sender),
         \/ PauseSender(w, s) \/ StopSender(w, s) \/ ResumeSender(w, s)
         \/ \E b \in Mailboxes, quota \in Quotas \cup {None} : UpdateSender(w, s, b, quota)
  PROVE  BudgetInv'
<1> DEFINE c == sender[s].of
<1>1. /\ <<"assignment", "senders">> \in Seq(CampaignCalls) /\ <<"assignment", "senders">> # <<>>
      /\ <<"quota", "senders">> \in Seq(CampaignCalls) /\ <<"quota", "senders">> # <<>>
      /\ <<"campaign", "senders">> \in Seq(CampaignCalls) /\ <<"campaign", "senders">> # <<>>
      /\ <<"senders">> \in Seq(CampaignCalls) /\ <<"senders">> # <<>>
  BY DEF CampaignCalls
<1>2. /\ s \in Senders /\ sender[s] \in SenderRow /\ c \in Campaigns
      /\ sender[s].day # None => sender[s].used <= accepted[s][sender[s].day]
  BY SenderFacts
<1>3. campaign[c] \in CampaignRow /\ RowFits(c, campaign[c])
  BY <1>2, EditedRows
<1>4. ASSUME NEW op, NEW status \in {"active", "paused", "stopped"}, NEW timed \in BOOLEAN,
             LiveSender(s), EndSender(w, op, s, status, timed)
      PROVE  BudgetInv'
  <2> DEFINE row == [sender[s] EXCEPT !.status = status]
             new == Only(s, row)
  <2>1. row \in SenderRow /\ row.day = sender[s].day /\ row.used = sender[s].used
    BY <1>2 DEF SenderRow
  <2>2. new \in SenderRows /\ SendersFit(new, accepted)
    <3> HIDE DEF row
    <3> QED  BY <2>1, <1>2, OnlyFits
  <2>3. Begin(w, op, IF LastActive(s)
                     THEN Edit(<<"campaign", "senders">>, c, CampaignPaused(campaign[c], timed), new)
                     ELSE Edit(<<"senders">>, c, campaign[c], new))
    BY <1>4 DEF EndSender
  <2>4. CASE LastActive(s)
    <3>1. MayPauseCampaign(campaign[c])
      BY <1>4, <2>4 DEF LastActive, LiveSender, LiveCampaign, MayPauseCampaign
    <3>2. /\ CampaignPaused(campaign[c], timed) \in CampaignRow
          /\ RowFits(c, CampaignPaused(campaign[c], timed))
      BY <3>1, <1>2, EditedRows
    <3>3. Begin(w, op, Edit(<<"campaign", "senders">>, c, CampaignPaused(campaign[c], timed), new))
      BY <2>3, <2>4
    <3> HIDE DEF new, c
    <3> QED  BY <3>2, <3>3, <2>2, <1>1, <1>2, EditFits, Starts
  <2>5. CASE ~LastActive(s)
    <3>1. Begin(w, op, Edit(<<"senders">>, c, campaign[c], new))
      BY <2>3, <2>5
    <3> HIDE DEF new, c
    <3> QED  BY <3>1, <2>2, <1>1, <1>2, <1>3, EditFits, Starts
  <2> QED  BY <2>4, <2>5
<1>5. CASE PauseSender(w, s)
  BY <1>4, <1>5 DEF PauseSender
<1>6. CASE StopSender(w, s)
  BY <1>4, <1>6 DEF StopSender
<1>7. CASE ResumeSender(w, s)
  <2> DEFINE row == [sender[s] EXCEPT !.status = "active"]
             new == Only(s, row)
  <2>1. row \in SenderRow /\ row.day = sender[s].day /\ row.used = sender[s].used
    BY <1>2 DEF SenderRow
  <2>2. new \in SenderRows /\ SendersFit(new, accepted)
    <3> HIDE DEF row
    <3> QED  BY <2>1, <1>2, OnlyFits
  <2>3. Begin(w, "resumeSender", Edit(<<"assignment", "senders">>, c, campaign[c], new))
    BY <1>7 DEF ResumeSender
  <2> HIDE DEF new, c
  <2> QED  BY <2>3, <2>2, <1>1, <1>2, <1>3, EditFits, Starts
<1>8. ASSUME NEW b \in Mailboxes, NEW quota \in Quotas \cup {None}, UpdateSender(w, s, b, quota)
      PROVE  BudgetInv'
  <2> DEFINE moved == b # sender[s].mailbox
             row == [sender[s] EXCEPT !.mailbox = b, !.quota = quota,
                                      !.used = IF moved THEN 0 ELSE @,
                                      !.day = IF moved THEN None ELSE @]
             new == Only(s, row)
             calls == <<IF moved THEN "assignment" ELSE "quota", "senders">>
  <2>1. row \in SenderRow /\ (row.day = None \/ (row.day = sender[s].day /\ row.used = sender[s].used))
    <3>1. CASE moved
      BY <1>2, <3>1 DEF SenderRow
    <3>2. CASE ~moved
      BY <1>2, <3>2 DEF SenderRow
    <3> QED  BY <3>1, <3>2
  <2>2. new \in SenderRows /\ SendersFit(new, accepted)
    <3> HIDE DEF row
    <3> QED  BY <2>1, <1>2, OnlyFits
  <2>3. Begin(w, "updateSender", Edit(calls, c, campaign[c], new))
    BY <1>8 DEF UpdateSender
  <2>4. calls \in Seq(CampaignCalls) /\ calls # <<>>
    BY <1>1
  <2> HIDE DEF new, c, calls
  <2> QED  BY <2>3, <2>2, <2>4, <1>2, <1>3, EditFits, Starts
<1> QED  BY <1>5, <1>6, <1>7, <1>8

LEMMA MailboxRequests ==
  ASSUME BudgetInv, NEW w \in Workers, NEW b \in Mailboxes, NEW limit \in Limits,
         NEW active \in BOOLEAN, UpdateMailbox(w, b, limit, active)
  PROVE  BudgetInv'
<1>1. PICK row \in MailboxRow : row = mailbox[b] /\ BoxFits(b, row)
  BY RowsNow
<1> DEFINE box == [mailbox[b] EXCEPT !.limit = limit, !.active = active]
           handler == [Idle EXCEPT !.calls = <<"mailbox">>, !.b = b, !.box = box]
<1>2. box \in MailboxRow /\ box.used = row.used /\ box.day = row.day
  BY <1>1 DEF MailboxRow
<1>3. BoxFits(b, box)
  <2> HIDE DEF box
  <2> QED  BY <1>1, <1>2 DEF BoxFits, Fits, Used
<1>4. /\ handler \in MailboxEditing /\ handler.b = b /\ handler.box = box
      /\ handler.calls = <<"mailbox">>
  <2> HIDE DEF box
  <2> QED  BY <1>2 DEF Idle, MailboxEditing
<1>5. Begin(w, "updateMailbox", handler)
  BY DEF UpdateMailbox
<1> HIDE DEF handler, box
<1>6. handler \notin Editing
  BY <1>4, NotOfCampaign DEF Editing
<1>7. CopyFits(handler)
  BY <1>3, <1>4, <1>6 DEF CopyFits
<1> QED  BY <1>4, <1>5, <1>7, Starts DEF Handlers

LEMMA Requests ==
  ASSUME BudgetInv, NEW w \in Workers, Request(w)
  PROVE  BudgetInv'
BY CampaignRequests, SenderRequests, MailboxRequests DEF Request

-----------------------------------------------------------------------------
\* The handlers: what they save

LEMMA IdleFits == Idle \in Handlers /\ Idle \notin Editing /\ Idle \notin MailboxEditing /\ CopyFits(Idle)
<1>1. Idle.calls = <<>>
  BY DEF Idle
<1>2. Idle \notin Editing
  BY <1>1 DEF Editing
<1>3. Idle \notin MailboxEditing
  BY <1>1 DEF MailboxEditing
<1> QED  BY <1>2, <1>3 DEF CopyFits, Handlers

LEMMA Continues ==
  ASSUME BudgetInv, NEW w \in Workers, NEW handler, task' = [task EXCEPT ![w] = handler],
         handler \in Handlers, CopyFits(handler),
         tick' = tick, history' = history, failures' \in Nat, failures <= failures',
         now' = now, poll' = poll,
         mailbox' \in [Mailboxes -> MailboxRow], campaign' \in [Campaigns -> CampaignRow],
         \A b \in Mailboxes : BoxFits(b, mailbox'[b]),
         \A c \in Campaigns : RowFits(c, campaign'[c]),
         sender' \in SenderRows, SendersFit(sender', accepted)
  PROVE  BudgetInv'
<1>1. ASSUME NEW v \in Workers PROVE task'[v] \in {task[v], handler}
  BY DEF BudgetInv, Typed
<1>2. Typed'
  <2>1. task' \in [Workers -> Handlers]
    BY DEF BudgetInv, Typed
  <2>2. TypeOK' /\ tick' \in Ticks
    BY DEF BudgetInv, Typed, TypeOK, history, SenderRows
  <2> QED  BY <2>1, <2>2 DEF Typed
<1>3. ASSUME NEW v \in Workers PROVE \E h : h = task'[v] /\ CopyFits(h)
  BY <1>1, RowsNow
<1>4. now <= now'
  BY Counts DEF BudgetInv
<1>5. /\ \A b \in Mailboxes : \E row \in MailboxRow : row = mailbox'[b] /\ BoxFits(b, row)
      /\ \A c \in Campaigns : \E row \in CampaignRow : row = campaign'[c] /\ RowFits(c, row)
      /\ \A m \in Monitors, b \in Mailboxes : poll'[m][b] # NoRow =>
           \E row \in MailboxRow : row = poll'[m][b] /\ BoxFits(b, row)
  BY RowsNow
<1> QED  BY <1>2, <1>3, <1>4, <1>5, OthersAct

LEMMA TablesNow ==
  ASSUME BudgetInv
  PROVE  /\ mailbox \in [Mailboxes -> MailboxRow] /\ campaign \in [Campaigns -> CampaignRow]
         /\ \A b \in Mailboxes : BoxFits(b, mailbox[b])
         /\ \A c \in Campaigns : RowFits(c, campaign[c])
         /\ sender \in SenderRows /\ SendersFit(sender, accepted)
BY DEF BudgetInv, Typed, TypeOK, TablesFit, SenderRows

LEMMA PoppedFits ==
  ASSUME BudgetInv, NEW w \in Workers, task[w].calls # <<>>
  PROVE  Popped(w) \in Handlers /\ CopyFits(Popped(w))
<1>1. task[w] \in Editing \cup MailboxEditing /\ CopyFits(task[w])
  BY DEF BudgetInv, Typed, CopiesFit, Idle, Handlers
<1>2. CASE Len(task[w].calls) = 1
  BY <1>2, IdleFits DEF Popped
<1>3. CASE Len(task[w].calls) # 1
  <2>1. task[w] \in Editing
    BY <1>1, <1>3 DEF MailboxEditing
  <2>2. PICK calls \in Seq(CampaignCalls) : calls = task[w].calls /\ calls # <<>>
    BY <2>1 DEF Editing
  <2>3. Tail(calls) \in Seq(CampaignCalls) /\ Tail(calls) # <<>>
    <3>1. Len(calls) \in Nat /\ Len(calls) # 0 /\ Len(calls) # 1
      BY <2>2, <1>3
    <3>2. Tail(calls) \in Seq(CampaignCalls) /\ Len(Tail(calls)) = Len(calls) - 1
      BY <2>2
    <3>3. PICK tail : tail = Tail(calls)
      OBVIOUS
    <3>4. tail \in Seq(CampaignCalls) /\ Len(tail) # 0
      BY <3>1, <3>2, <3>3
    <3>5. tail # <<>>
      BY <3>4
    <3> QED  BY <3>3, <3>4, <3>5
  <2>4. Popped(w) = [task[w] EXCEPT !.calls = Tail(calls)]
    BY <1>3, <2>2 DEF Popped
  <2>5. PICK handler : handler = Popped(w)
    OBVIOUS
  <2>6. /\ handler \in Editing /\ handler.c = task[w].c /\ handler.row = task[w].row
        /\ handler.rows = task[w].rows /\ handler.new = task[w].new
    BY <2>1, <2>3, <2>4, <2>5 DEF Editing
  <2>7. handler \notin MailboxEditing
    BY <2>6, NotOfCampaign DEF MailboxEditing, Editing
  <2> QED  BY <2>1, <2>5, <2>6, <2>7, <1>1 DEF CopyFits, Handlers
<1> QED  BY <1>2, <1>3

LEMMA OverFits ==
  ASSUME NEW rows \in SenderRows, NEW table \in SenderRows, NEW sent,
         SendersFit(rows, sent), SendersFit(table, sent)
  PROVE  Over(rows, table) \in SenderRows /\ SendersFit(Over(rows, table), sent)
BY DEF Over, SenderRows, SendersFit

LEMMA HandlerSteps ==
  ASSUME BudgetInv, NEW w \in Workers, HandlerStep(w) \/ HandlerFails(w)
  PROVE  BudgetInv'
<1> USE DEF tables, counters
<1>0. failures \in Nat /\ failures <= failures
  BY Counts DEF BudgetInv
<1>1. CASE Validate(w)
  <2>1. /\ tick' = tick /\ history' = history /\ failures' = failures /\ now' = now
        /\ tables' = tables /\ poll' = poll
        /\ task[w].calls # <<>>
        /\ \E handler \in {Idle, Popped(w)} : task' = [task EXCEPT ![w] = handler]
    BY <1>1 DEF Validate, Calls, Done
  <2>2. PICK handler \in {Idle, Popped(w)} : task' = [task EXCEPT ![w] = handler]
    BY <2>1
  <2>3. handler \in Handlers /\ CopyFits(handler)
    BY <2>1, <2>2, PoppedFits, IdleFits
  <2> QED  BY <2>1, <2>2, <2>3, <1>0, TablesNow, Continues
<1>2. CASE SaveSender(w)
  <2>1. /\ tick' = tick /\ history' = history /\ failures' = failures /\ now' = now
        /\ campaign' = campaign /\ mailbox' = mailbox /\ poll' = poll
        /\ Calls(w, "senders")
    BY <1>2 DEF SaveSender
  <2>2. task[w].calls # <<>> /\ task[w] \in Editing /\ CopyFits(task[w])
    BY <2>1 DEF Calls, BudgetInv, Typed, CopiesFit, Idle, MailboxEditing, Handlers
  <2>3. PICK s \in Present(task[w].new) :
          /\ sender' = [sender EXCEPT ![s] = task[w].new[s]]
          /\ task' = [task EXCEPT ![w] =
               IF Present(task[w].new) # {s}
               THEN [Written(task[w], s) EXCEPT !.new[s] = NoRow]
               ELSE IF Popped(w) = Idle THEN Idle ELSE Written(Popped(w), s)]
    BY <1>2 DEF SaveSender
  <2>4. PICK new \in SenderRows, rows \in SenderRows :
          /\ new = task[w].new /\ rows = task[w].rows
          /\ SendersFit(new, accepted) /\ SendersFit(rows, accepted)
    BY <2>2 DEF Editing, CopyFits
  <2>5. s \in Senders /\ new[s] \in SenderRow /\ new[s] # NoRow
    BY <2>3, <2>4 DEF Present, SenderRows
  <2>6. sender' \in SenderRows /\ SendersFit(sender', accepted)
    BY <2>3, <2>4, <2>5, TablesNow DEF SenderRows, SendersFit
  <2>9. SenderRows # {} /\ [rows EXCEPT ![s] = new[s]] \in SenderRows
        /\ SendersFit([rows EXCEPT ![s] = new[s]], accepted)
    BY <2>4, <2>5 DEF SenderRows, SendersFit
  <2>10. ASSUME NEW h \in Editing, CopyFits(h), h.c = task[w].c, h.row = task[w].row,
                h.rows = rows, h.new = new
         PROVE  /\ Written(h, s) \in Editing /\ CopyFits(Written(h, s))
                /\ Written(h, s).new = new
    <3>1. Written(h, s) = [h EXCEPT !.rows = [rows EXCEPT ![s] = new[s]]]
      BY <2>10 DEF Written, Editing
    <3>2. PICK k : k = Written(h, s)
      OBVIOUS
    <3>3. /\ k \in Editing /\ k.c = h.c /\ k.row = h.row /\ k.new = h.new
          /\ k.rows = [rows EXCEPT ![s] = new[s]]
      BY <3>1, <3>2, <2>9, <2>10 DEF Editing
    <3>4. k \notin MailboxEditing
      BY <3>3, NotOfCampaign DEF MailboxEditing, Editing
    <3> QED  BY <3>2, <3>3, <3>4, <2>9, <2>10 DEF CopyFits
  <2>7. CASE Present(task[w].new) = {s}
    <3>1. CASE Popped(w) = Idle
      <4>1. task' = [task EXCEPT ![w] = Popped(w)]
        BY <2>3, <2>7, <3>1
      <4> QED  BY <4>1, <2>1, <2>2, <2>6, <1>0, PoppedFits, TablesNow, Continues
    <3>2. CASE Popped(w) # Idle
      <4>1. /\ Popped(w) \in Editing /\ CopyFits(Popped(w))
            /\ Popped(w).c = task[w].c /\ Popped(w).row = task[w].row
            /\ Popped(w).rows = rows /\ Popped(w).new = new
        <5>1. Popped(w) \in Handlers /\ CopyFits(Popped(w))
          BY <2>2, PoppedFits
        <5>2. Popped(w) = [task[w] EXCEPT !.calls = Tail(task[w].calls)]
          BY <3>2 DEF Popped
        <5>3. PICK h : h = Popped(w)
          OBVIOUS
        <5>4. /\ h.c = task[w].c /\ h.row = task[w].row
              /\ h.rows = rows /\ h.new = new
          BY <5>2, <5>3, <2>2, <2>4 DEF Editing
        <5>5. h \notin MailboxEditing
          <6>1. new # NoSenders
            BY <2>5 DEF NoSenders
          <6> QED  BY <5>4, <6>1 DEF MailboxEditing
        <5> QED  BY <5>1, <5>3, <5>4, <5>5, <3>2 DEF Handlers
      <4>2. task' = [task EXCEPT ![w] = Written(Popped(w), s)]
        BY <2>3, <2>7, <3>2
      <4>3. Written(Popped(w), s) \in Handlers /\ CopyFits(Written(Popped(w), s))
        BY <4>1, <2>10 DEF Handlers
      <4> QED  BY <4>2, <4>3, <2>1, <2>6, <1>0, TablesNow, Continues
    <3> QED  BY <3>1, <3>2
  <2>8. CASE Present(task[w].new) # {s}
    <3>1. PICK h : h = Written(task[w], s)
      OBVIOUS
    <3>2. h \in Editing /\ CopyFits(h) /\ h.new = new
      BY <3>1, <2>2, <2>4, <2>10
    <3>3. PICK handler : handler = [h EXCEPT !.new[s] = NoRow]
      OBVIOUS
    <3>4. task' = [task EXCEPT ![w] = handler]
      BY <2>3, <2>8, <3>1, <3>3
    <3>5. [new EXCEPT ![s] = NoRow] \in SenderRows /\ SendersFit([new EXCEPT ![s] = NoRow], accepted)
      BY <2>4, <2>5 DEF SenderRows, SendersFit
    <3>6. /\ handler \in Editing
          /\ handler.c = h.c /\ handler.row = h.row /\ handler.rows = h.rows
          /\ handler.new = [new EXCEPT ![s] = NoRow]
      BY <3>2, <3>3, <3>5 DEF Editing
    <3>7. handler \notin MailboxEditing
      BY <3>6, NotOfCampaign DEF MailboxEditing, Editing
    <3>8. CopyFits(handler)
      BY <3>2, <3>5, <3>6, <3>7 DEF CopyFits
    <3> QED  BY <3>4, <3>6, <3>8, <2>1, <2>6, <1>0, TablesNow, Continues DEF Handlers
  <2> QED  BY <2>7, <2>8
<1>3. CASE SaveEdited(w)
  <2>1. /\ tick' = tick /\ history' = history /\ failures' = failures /\ now' = now
        /\ mailbox' = mailbox /\ poll' = poll
        /\ Calls(w, "campaign")
    BY <1>3 DEF SaveEdited
  <2>2. task[w].calls # <<>> /\ task[w] \in Editing /\ CopyFits(task[w])
    BY <2>1 DEF Calls, BudgetInv, Typed, CopiesFit, Idle, MailboxEditing, Handlers
  <2>3. CASE CampaignSavable(task[w].c, task[w].rows)
    <3>1. /\ task' = [task EXCEPT ![w] = Popped(w)]
          /\ campaign' = [campaign EXCEPT ![task[w].c] = task[w].row]
          /\ sender' = Over(task[w].rows, sender)
      BY <1>3, <2>3 DEF SaveEdited, SaveCampaignRow, Done
    <3>2. /\ task[w].c \in Campaigns /\ task[w].row \in CampaignRow
          /\ task[w].rows \in SenderRows /\ SendersFit(task[w].rows, accepted)
          /\ \A c \in Campaigns : task[w].c = c => RowFits(c, task[w].row)
      BY <2>2 DEF Editing, CopyFits
    <3>3. sender' \in SenderRows /\ SendersFit(sender', accepted)
      BY <3>1, <3>2, OverFits, TablesNow
    <3>4. campaign' \in [Campaigns -> CampaignRow]
      BY <3>1, <3>2, TablesNow
    <3>5. ASSUME NEW c \in Campaigns PROVE RowFits(c, campaign'[c])
      <4>1. CASE task[w].c = c
        <5>1. campaign'[c] = task[w].row
          BY <4>1, <3>1, TablesNow
        <5> QED  BY <5>1, <4>1, <3>2
      <4>2. CASE task[w].c # c
        <5>1. campaign'[c] = campaign[c]
          BY <4>2, <3>1, TablesNow
        <5> QED  BY <5>1, TablesNow
      <4> QED  BY <4>1, <4>2
    <3> QED  BY <3>1, <3>3, <3>4, <3>5, <2>1, <2>2, <1>0, PoppedFits, TablesNow, Continues
  <2>4. CASE ~CampaignSavable(task[w].c, task[w].rows)
    <3>1. task' = [task EXCEPT ![w] = Idle] /\ campaign' = campaign /\ sender' = sender
      BY <1>3, <2>4 DEF SaveEdited
    <3> QED  BY <3>1, <2>1, <1>0, IdleFits, TablesNow, Continues
  <2> QED  BY <2>3, <2>4
<1>4. CASE ReplaceSenders(w)
  <2>1. /\ tick' = tick /\ history' = history /\ failures' = failures /\ now' = now
        /\ campaign' = campaign /\ mailbox' = mailbox /\ poll' = poll
        /\ Calls(w, "replace") /\ task' = [task EXCEPT ![w] = Popped(w)]
    BY <1>4 DEF ReplaceSenders, Done
  <2>2. task[w].calls # <<>> /\ task[w] \in Editing
    BY <2>1 DEF Calls, BudgetInv, Typed, CopiesFit, Idle, MailboxEditing, Handlers
  <2>3. task[w].rows \in SenderRows /\ task[w].c \in Campaigns
    BY <2>2 DEF Editing
  <2>4. PICK id \in [Present(task[w].rows) -> Senders \ born] :
          /\ \A s, q \in Present(task[w].rows) : id[s] = id[q] => s = q
          /\ born' = born \cup {id[s] : s \in Present(task[w].rows)}
          /\ sender' = [s \in Senders |->
                IF \E q \in Present(task[w].rows) : id[q] = s
                THEN LET row == task[w].rows[CHOOSE q \in Present(task[w].rows) : id[q] = s]
                     IN NewSender(task[w].c, row.mailbox, row.quota)
                ELSE IF sender[s] # NoRow /\ sender[s].of = task[w].c THEN NoRow
                ELSE sender[s]]
    BY <1>4, Zenon DEF ReplaceSenders
  <2>5. ASSUME NEW s \in Senders
        PROVE  sender'[s] \in SenderRow \cup {NoRow}
               /\ (sender'[s] \in {NoRow, sender[s]} \/ sender'[s].day = None)
    <3>1. CASE \E q \in Present(task[w].rows) : id[q] = s
      <4>1. PICK q \in Present(task[w].rows) :
              sender'[s] = NewSender(task[w].c, task[w].rows[q].mailbox, task[w].rows[q].quota)
        BY <3>1, <2>4
      <4>2. task[w].rows[q] \in SenderRow
        BY <2>3 DEF Present, SenderRows
      <4> QED  BY <4>1, <4>2, <2>3 DEF NewSender, SenderRow
    <3>2. CASE ~ \E q \in Present(task[w].rows) : id[q] = s
      BY <3>2, <2>4, TablesNow DEF SenderRows
    <3> QED  BY <3>1, <3>2
  <2>6. sender' = [s \in Senders |-> sender'[s]]
    BY <2>4
  <2>7. sender' \in SenderRows
    BY <2>5, <2>6 DEF SenderRows
  <2>8. SendersFit(sender', accepted)
    BY <2>5, TablesNow DEF SendersFit
  <2> QED  BY <2>1, <2>2, <2>7, <2>8, <1>0, PoppedFits, TablesNow, Continues
<1>5. CASE SaveMailbox(w)
  <2>1. /\ tick' = tick /\ history' = history /\ failures' = failures /\ now' = now
        /\ campaign' = campaign /\ sender' = sender /\ poll' = poll
        /\ Calls(w, "mailbox") /\ task' = [task EXCEPT ![w] = Popped(w)]
        /\ mailbox' = [mailbox EXCEPT ![task[w].b] = task[w].box]
    BY <1>5 DEF SaveMailbox, Done
  <2>2. task[w].calls # <<>> /\ task[w] \notin Editing
    <3>1. task[w].calls # <<>> /\ Head(task[w].calls) = "mailbox"
      BY <2>1 DEF Calls
    <3>2. ASSUME NEW calls \in Seq(CampaignCalls), calls # <<>> PROVE Head(calls) # "mailbox"
      <4>1. Head(calls) \in CampaignCalls
        BY <3>2
      <4> QED  BY <4>1 DEF CampaignCalls
    <3> QED  BY <3>1, <3>2 DEF Editing
  <2>3. task[w] \in MailboxEditing /\ CopyFits(task[w])
    BY <2>2 DEF BudgetInv, Typed, CopiesFit, Idle, Handlers
  <2>4. PICK b \in Mailboxes, box \in MailboxRow :
          b = task[w].b /\ box = task[w].box /\ BoxFits(b, box)
    BY <2>3 DEF MailboxEditing, CopyFits
  <2>5. mailbox' \in [Mailboxes -> MailboxRow]
    BY <2>1, <2>4, TablesNow
  <2>6. ASSUME NEW a \in Mailboxes PROVE BoxFits(a, mailbox'[a])
    <3>1. CASE a = b
      <4>1. mailbox'[a] = box
        BY <3>1, <2>1, <2>4, TablesNow
      <4> QED  BY <4>1, <3>1, <2>4
    <3>2. CASE a # b
      <4>1. mailbox'[a] = mailbox[a]
        BY <3>2, <2>1, <2>4, TablesNow
      <4> QED  BY <4>1, TablesNow
    <3> QED  BY <3>1, <3>2
  <2> QED  BY <2>1, <2>2, <2>5, <2>6, <1>0, PoppedFits, TablesNow, Continues
<1>6. CASE HandlerFails(w)
  <2>1. /\ tick' = tick /\ history' = history /\ failures' = failures + 1 /\ now' = now
        /\ tables' = tables /\ poll' = poll
        /\ task' = [task EXCEPT ![w] = Idle]
    BY <1>6 DEF HandlerFails, Failing
  <2>2. failures' \in Nat /\ failures <= failures'
    BY <2>1, <1>0
  <2> QED  BY <2>1, <2>2, IdleFits, TablesNow, Continues
<1> QED  BY <1>1, <1>2, <1>3, <1>4, <1>5, <1>6 DEF HandlerStep

-----------------------------------------------------------------------------
\* The scheduler, when no email leaves

\* What the run has loaded, and what it finds in the tables
LoadFits(c, loaded) ==
  /\ loaded \in Loaded
  /\ RowFits(c, loaded.row)
  /\ loaded.row.status # "draft"
  /\ SendersFit(loaded.rows, accepted)

LEMMA TickActs ==
  ASSUME BudgetInv, Typed', Still, HandFits', now' = now, task' = task, poll' = poll,
         \A b \in Mailboxes : BoxFits(b, mailbox'[b]),
         \A c \in Campaigns : RowFits(c, campaign'[c]),
         SendersFit(sender', accepted),
         \A c \in Campaigns : tick'.todo[c] # NoRow => LoadFits(c, tick'.todo[c])
  PROVE  BudgetInv'
<1>1. /\ \A b \in Mailboxes : BoxStep(b)
      /\ \A c \in Campaigns : RowStep(c)
      /\ SendersStep
  BY StillSteps DEF BudgetInv
<1>2. CopiesFit'
  BY <1>1, CopiesKept DEF BudgetInv
<1>3. TablesFit'
  <2>1. ASSUME NEW b \in Mailboxes PROVE BoxFits(b, mailbox[b])'
    <3>1. PICK row \in MailboxRow : row = mailbox'[b]
      BY DEF Typed, TypeOK
    <3>2. BoxFits(b, row)
      BY <3>1
    <3>3. BoxFits(b, row)'
      BY <3>2, <1>1, BoxKept
    <3> QED  BY <3>1, <3>3 DEF BoxFits
  <2>2. ASSUME NEW c \in Campaigns PROVE RowFits(c, campaign[c])'
    <3>1. PICK row \in CampaignRow : row = campaign'[c]
      BY DEF Typed, TypeOK
    <3>2. RowFits(c, row)
      BY <3>1
    <3>3. RowFits(c, row)'
      BY <3>2, <1>1, RowKept
    <3> QED  BY <3>1, <3>3 DEF RowFits
  <2>3. SendersFit(sender', accepted')
    BY DEF Still
  <2> QED  BY <2>1, <2>2, <2>3 DEF TablesFit
<1>4. TodoFits'
  <2> SUFFICES ASSUME NEW c \in Campaigns, tick'.todo[c] # NoRow
               PROVE  /\ RowFits(c, tick.todo[c].row)'
                      /\ tick'.todo[c].row.status # "draft"
                      /\ SendersFit(tick'.todo[c].rows, accepted')
    BY DEF TodoFits
  <2>1. LoadFits(c, tick'.todo[c])
    OBVIOUS
  <2>2. PICK row \in CampaignRow : row = tick'.todo[c].row /\ RowFits(c, row)
    BY <2>1 DEF LoadFits, Loaded
  <2>3. RowFits(c, row)'
    BY <2>2, <1>1, RowKept
  <2> QED  BY <2>1, <2>2, <2>3 DEF LoadFits, RowFits, Still
<1>5. Tomorrow'
  BY DEF BudgetInv, Tomorrow, Nothing, Still, UtcDay, CampaignDay
<1>6. LimitsKept'
  <2>1. ASSUME NEW b \in Mailboxes, NEW d \in Days
        PROVE  accepted'[b][d] <= Max(Limits) + shaken'[b][d] + failures'
    <3>1. accepted[b][d] <= Max(Limits) + shaken[b][d] + failures
      BY DEF BudgetInv, LimitsKept, MailboxLimitKept
    <3> QED  BY <3>1, LimitBound, Counts, CountsNext DEF BudgetInv, Still
  <2>2. ASSUME NEW c \in Campaigns, NEW d \in Days
        PROVE  accepted'[c][d] <= Batch + shaken'[c][d] + failures'
    <3>1. accepted[c][d] <= Batch + shaken[c][d] + failures
      BY DEF BudgetInv, LimitsKept, BatchKept
    <3> QED  BY <3>1, BudgetAssumption, Counts, CountsNext DEF BudgetInv, Still
  <2> QED  BY <2>1, <2>2 DEF LimitsKept, MailboxLimitKept, BatchKept
<1> QED  BY <1>2, <1>3, <1>4, <1>5, <1>6 DEF BudgetInv

LEMMA StillIf ==
  ASSUME Typed, history' = history, now' = now,
         \/ failures' = failures /\ tick.pc \notin {"count", "close"}
         \/ failures' = failures /\ tick.pc = "close" /\ ~tick.sent
         \/ failures' = failures + 1
  PROVE  Still
<1>1. failures \in Nat /\ now \in Nat
  BY Counts
<1>2. ASSUME NEW b \in Mailboxes, NEW d \in Days
      PROVE  failures + BoxFlight(b, d) <= failures' + BoxFlight(b, d)'
  <2>1. BoxFlight(b, d) \in {0, 1} /\ BoxFlight(b, d)' \in {0, 1}
    BY DEF BoxFlight
  <2>2. failures' = failures => BoxFlight(b, d) = 0
    BY <1>1 DEF BoxFlight, At
  <2> QED  BY <1>1, <2>1, <2>2
<1>3. ASSUME NEW c \in Campaigns, NEW d \in Days
      PROVE  failures + RowFlight(c, d) <= failures' + RowFlight(c, d)'
  <2>1. RowFlight(c, d) \in {0, 1} /\ RowFlight(c, d)' \in {0, 1}
    BY DEF RowFlight
  <2>2. failures' = failures => RowFlight(c, d) = 0
    BY <1>1 DEF RowFlight, At
  <2> QED  BY <1>1, <2>1, <2>2
<1> QED  BY <1>1, <1>2, <1>3 DEF Still, history

LEMMA EmptyHand ==
  ASSUME tick'.pc \in {"idle", "unpause", "load", "next"}
  PROVE  HandFits'
BY DEF HandFits, CampaignHeld, SendersHeld, SenderPicked, MailboxHeld, SenderCharged, At

LEMMA TodoNow ==
  ASSUME BudgetInv, NEW c \in Campaigns, tick.todo[c] # NoRow
  PROVE  LoadFits(c, tick.todo[c])
BY DEF BudgetInv, Typed, Ticks, TodoFits, LoadFits

LEMMA RestingTyped == Resting \in Ticks /\ \A c \in Campaigns : Resting.todo[c] = NoRow
<1>1. NoSenders \in SenderRows /\ [c \in Campaigns |-> NoRow] \in [Campaigns -> Loaded \cup {NoRow}]
  BY NoneFit
<1> QED  BY <1>1 DEF Resting, Ticks, Places, NoRow

LEMMA TickTyped ==
  ASSUME BudgetInv, tick' \in Ticks, mailbox' \in [Mailboxes -> MailboxRow],
         campaign' \in [Campaigns -> CampaignRow], sender' \in SenderRows,
         now' = now, task' = task, poll' = poll, failures' \in Nat,
         accepted' \in [Campaigns \cup Mailboxes \cup Senders -> [Days -> Nat]],
         shaken' \in [Campaigns \cup Mailboxes -> [Days -> Nat]]
  PROVE  Typed'
BY DEF BudgetInv, Typed, TypeOK, SenderRows

LEMMA TickReads ==
  ASSUME BudgetInv, tables' = tables, history' = history, now' = now, task' = task,
         poll' = poll, failures' \in {failures, failures + 1}, tick' \in Ticks, Still, HandFits',
         \A c \in Campaigns : tick'.todo[c] # NoRow => LoadFits(c, tick'.todo[c])
  PROVE  BudgetInv'
<1>1. /\ mailbox' = mailbox /\ campaign' = campaign /\ sender' = sender
      /\ accepted' = accepted /\ shaken' = shaken
  BY DEF tables, history
<1>2. failures' \in Nat
  BY Counts DEF BudgetInv
<1>3. /\ accepted \in [Campaigns \cup Mailboxes \cup Senders -> [Days -> Nat]]
      /\ shaken \in [Campaigns \cup Mailboxes -> [Days -> Nat]]
  BY DEF BudgetInv, Typed, TypeOK
<1>4. Typed'
  BY <1>1, <1>2, <1>3, TablesNow, TickTyped
<1> QED  BY <1>1, <1>4, TablesNow, TickActs

\* The steps between two campaigns
LEMMA OpenSteps ==
  ASSUME BudgetInv,
         \/ ReadExpiredPauses \/ ResumeExpiredPauses \/ LoadCampaigns \/ EndTick
         \/ \E c \in Campaigns : SkipCampaign(c)
         \/ TickFails
  PROVE  BudgetInv'
<1> USE DEF counters
<1>0. Resting \in Ticks /\ \A c \in Campaigns : Resting.todo[c] = NoRow
  BY RestingTyped
<1>1. CASE ReadExpiredPauses
  <2>1. PICK S \in SUBSET {c \in Campaigns : MayResumeCampaign(campaign[c]) /\ campaign[c].until} :
          tick' = [Resting EXCEPT !.pc = IF S = {} THEN "load" ELSE "unpause",
                                  !.todo = [c \in Campaigns |->
                                              IF c \in S
                                              THEN [row |-> CampaignResumed(campaign[c]),
                                                    rows |-> NoSenders]
                                              ELSE NoRow]]
    BY <1>1 DEF ReadExpiredPauses
  <2> DEFINE todo == [c \in Campaigns |-> IF c \in S
                                          THEN [row |-> CampaignResumed(campaign[c]),
                                                rows |-> NoSenders]
                                          ELSE NoRow]
  <2>2. ASSUME NEW c \in S
        PROVE  /\ LoadFits(c, [row |-> CampaignResumed(campaign[c]), rows |-> NoSenders])
               /\ [row |-> CampaignResumed(campaign[c]), rows |-> NoSenders] \in Loaded
    <3>1. c \in Campaigns /\ MayResumeCampaign(campaign[c])
      OBVIOUS
    <3>2. PICK row \in CampaignRow : /\ row = CampaignResumed(campaign[c])
                                     /\ RowFits(c, row) /\ row.status # "draft"
      BY <3>1, EditedRows
    <3>3. PICK load : load = [row |-> row, rows |-> NoSenders]
      OBVIOUS
    <3>4. load \in Loaded /\ load.row = row /\ load.rows = NoSenders
      BY <3>3, NoneFit DEF Loaded
    <3> QED  BY <3>2, <3>3, <3>4, NoneFit DEF LoadFits
  <2>3. todo \in [Campaigns -> Loaded \cup {NoRow}]
    BY <2>2
  <2>4. \A c \in Campaigns : todo[c] # NoRow => LoadFits(c, todo[c])
    BY <2>2
  <2> HIDE DEF todo
  <2>5. /\ tick' = [Resting EXCEPT !.pc = IF S = {} THEN "load" ELSE "unpause", !.todo = todo]
    BY <2>1 DEF todo
  <2>6. tick' \in Ticks /\ tick'.todo = todo /\ tick'.pc \in {"load", "unpause"}
    BY <2>3, <2>5, <1>0 DEF Ticks, Places
  <2>7. /\ tables' = tables /\ history' = history /\ now' = now /\ task' = task
        /\ poll' = poll /\ failures' = failures /\ tick.pc = "idle"
    BY <1>1 DEF ReadExpiredPauses, At
  <2> QED  BY <2>4, <2>6, <2>7, EmptyHand, StillIf, TickReads DEF BudgetInv
<1>2. CASE ResumeExpiredPauses
  <2>1. /\ sender' = sender /\ mailbox' = mailbox /\ history' = history /\ now' = now
        /\ task' = task /\ poll' = poll /\ failures' = failures /\ tick.pc = "unpause"
        /\ tick' = [Resting EXCEPT !.pc = "load"]
        /\ campaign' = [c \in Campaigns |-> IF tick.todo[c] = NoRow THEN campaign[c]
                                            ELSE tick.todo[c].row]
    BY <1>2 DEF ResumeExpiredPauses, At
  <2>2. ASSUME NEW c \in Campaigns
        PROVE  campaign'[c] \in CampaignRow /\ RowFits(c, campaign'[c])
    <3>1. CASE tick.todo[c] = NoRow
      <4>1. campaign'[c] = campaign[c]
        BY <3>1, <2>1
      <4> QED  BY <4>1, TablesNow
    <3>2. CASE tick.todo[c] # NoRow
      <4>1. campaign'[c] = tick.todo[c].row
        BY <3>2, <2>1
      <4> QED  BY <4>1, <3>2, TodoNow DEF LoadFits, Loaded
    <3> QED  BY <3>1, <3>2
  <2>3. campaign' \in [Campaigns -> CampaignRow]
    <3>1. campaign' = [c \in Campaigns |-> campaign'[c]]
      BY <2>1
    <3> QED  BY <3>1, <2>2
  <2>4. tick' \in Ticks /\ tick'.pc = "load" /\ \A c \in Campaigns : tick'.todo[c] = NoRow
    BY <2>1, <1>0 DEF Ticks, Places
  <2>5. Typed'
    BY <2>1, <2>3, <2>4, TablesNow, TickTyped, Counts DEF BudgetInv, Typed, TypeOK, history
  <2> QED  BY <2>1, <2>2, <2>4, <2>5, TablesNow, EmptyHand, StillIf, TickActs DEF BudgetInv
<1>3. CASE LoadCampaigns
  <2> DEFINE todo == [c \in Campaigns |->
                       IF campaign[c].status \in RunningStatuses
                       THEN [row |-> campaign[c], rows |-> LoadedSenders(c)]
                       ELSE NoRow]
  <2>1. tick' = [Resting EXCEPT !.pc = "next", !.todo = todo]
    BY <1>3 DEF LoadCampaigns
  <2>2. ASSUME NEW c \in Campaigns, campaign[c].status \in RunningStatuses
        PROVE  /\ LoadFits(c, [row |-> campaign[c], rows |-> LoadedSenders(c)])
               /\ [row |-> campaign[c], rows |-> LoadedSenders(c)] \in Loaded
    <3>1. PICK row \in CampaignRow : row = campaign[c] /\ RowFits(c, row) /\ row.status # "draft"
      BY <2>2, TablesNow DEF RunningStatuses
    <3>2. PICK rows \in SenderRows : rows = LoadedSenders(c) /\ SendersFit(rows, accepted)
      BY LoadedFit
    <3>3. PICK load : load = [row |-> row, rows |-> rows]
      OBVIOUS
    <3>4. load \in Loaded /\ load.row = row /\ load.rows = rows
      BY <3>3 DEF Loaded
    <3> QED  BY <3>1, <3>2, <3>3, <3>4 DEF LoadFits
  <2>3. todo \in [Campaigns -> Loaded \cup {NoRow}]
    BY <2>2
  <2>4. \A c \in Campaigns : todo[c] # NoRow => LoadFits(c, todo[c])
    BY <2>2
  <2> HIDE DEF todo
  <2>6. tick' \in Ticks /\ tick'.todo = todo /\ tick'.pc = "next"
    BY <2>3, <2>1, <1>0 DEF Ticks, Places
  <2>7. /\ tables' = tables /\ history' = history /\ now' = now /\ task' = task
        /\ poll' = poll /\ failures' = failures /\ tick.pc = "load"
    BY <1>3 DEF LoadCampaigns, At
  <2> QED  BY <2>4, <2>6, <2>7, EmptyHand, StillIf, TickReads DEF BudgetInv
<1>4. CASE EndTick
  <2>1. /\ tables' = tables /\ history' = history /\ now' = now /\ task' = task
        /\ poll' = poll /\ failures' = failures /\ tick.pc = "next" /\ tick' = Resting
    BY <1>4 DEF EndTick, At
  <2>2. tick'.pc = "idle"
    BY <2>1 DEF Resting
  <2> QED  BY <2>1, <2>2, <1>0, EmptyHand, StillIf, TickReads DEF BudgetInv
<1>5. ASSUME NEW c \in Campaigns, SkipCampaign(c)
      PROVE  BudgetInv'
  <2>1. /\ tables' = tables /\ history' = history /\ now' = now /\ task' = task
        /\ poll' = poll /\ failures' = failures /\ tick.pc = "next"
        /\ tick' = [tick EXCEPT !.todo[c] = NoRow]
    BY <1>5 DEF SkipCampaign, At
  <2>2. /\ tick' \in Ticks /\ tick'.pc = "next"
        /\ \A a \in Campaigns : tick'.todo[a] \in {tick.todo[a], NoRow}
    BY <2>1 DEF BudgetInv, Typed, Ticks
  <2>3. \A a \in Campaigns : tick'.todo[a] # NoRow => LoadFits(a, tick'.todo[a])
    BY <2>2, TodoNow
  <2> QED  BY <2>1, <2>2, <2>3, EmptyHand, StillIf, TickReads DEF BudgetInv
<1>6. CASE TickFails
  <2>1. /\ tables' = tables /\ history' = history /\ now' = now /\ task' = task
        /\ poll' = poll /\ failures' = failures + 1 /\ tick' \in {Resting, Moved}
    BY <1>6 DEF TickFails, Failing
  <2>2. Moved \in Ticks /\ Moved.pc = "next" /\ Moved.todo = tick.todo
    BY <1>0 DEF Moved, BudgetInv, Typed, Ticks, Places
  <2>3. Resting.pc = "idle"
    BY DEF Resting
  <2>4. tick' \in Ticks /\ tick'.pc \in {"idle", "next"}
    BY <2>1, <2>2, <2>3, <1>0
  <2>5. \A a \in Campaigns : tick'.todo[a] # NoRow => LoadFits(a, tick'.todo[a])
    BY <2>1, <2>2, <1>0, TodoNow
  <2> QED  BY <2>1, <2>4, <2>5, EmptyHand, StillIf, TickReads DEF BudgetInv
<1> QED  BY <1>1, <1>2, <1>3, <1>4, <1>5, <1>6

-----------------------------------------------------------------------------
\* The scheduler with a campaign in hand

InHand == tick.pc \notin {"idle", "unpause", "load", "next"}

LEMMA TickNow ==
  ASSUME BudgetInv
  PROVE  /\ tick \in Ticks /\ tick.rows \in SenderRows /\ tick.pc \in Places
         /\ InHand =>
              /\ tick.cur \in Campaigns /\ tick.todo[tick.cur] = NoRow
              /\ tick.row \in CampaignRow /\ tick.row.status # "draft"
              /\ tick.row.used \in Nat /\ tick.row.day \in Days
              /\ tick.row.day <= CampaignDay(now)
              /\ Held(tick.row, accepted[tick.cur], shaken[tick.cur], InFlight)
              /\ SendersFit(tick.rows, accepted)
<1>1. tick \in Ticks /\ tick.rows \in SenderRows /\ tick.pc \in Places
  BY DEF BudgetInv, Typed, Ticks
<1>2. CampaignHeld
  BY DEF BudgetInv, HandFits
<1> QED  BY <1>1, <1>2 DEF InHand, CampaignHeld, CampaignRow, Held

LEMMA PickedNow ==
  ASSUME BudgetInv, tick.pc \in {"send", "handoff", "count"}
  PROVE  /\ tick.by \in Senders /\ tick.rows[tick.by] \in SenderRow
         /\ tick.rows[tick.by] # NoRow /\ tick.rows[tick.by].used \in Nat
         /\ From \in Mailboxes
         /\ tick.row.used < Batch
         /\ tick.rows[tick.by].day = tick.row.day
         /\ tick.by \in Active(tick.rows)
         /\ \A s \in Active(tick.rows) : tick.rows[s].day = tick.row.day
<1>1. /\ tick.by \in Active(tick.rows) /\ tick.row.used < Batch
      /\ \A s \in Active(tick.rows) : tick.rows[s].day = tick.row.day
  BY DEF BudgetInv, HandFits, SenderPicked, SendersHeld
<1>2. tick.by \in Senders /\ tick.rows[tick.by] # NoRow
  BY <1>1, TickNow DEF Active, Present, SenderRows
<1>3. tick.rows[tick.by] \in SenderRow
  BY <1>2, TickNow DEF SenderRows
<1> QED  BY <1>1, <1>2, <1>3 DEF SenderRow, From

LEMMA BoxNow ==
  ASSUME BudgetInv, tick.pc \in {"handoff", "count"}
  PROVE  /\ tick.box \in MailboxRow /\ tick.box.used \in Nat /\ tick.box.day \in Days
         /\ tick.box.limit \in Limits
         /\ tick.box.day <= UtcDay(now) /\ tick.box.used < tick.box.limit
         /\ Held(tick.box, accepted[From], shaken[From], InFlight)
BY DEF BudgetInv, HandFits, MailboxHeld, MailboxRow, Held

\* What is in hand fits when it has counted what was sent.
LEMMA HeldFits ==
  ASSUME Typed, NEW row, row.used \in Nat, NEW sent \in [Days -> Nat], NEW lost \in [Days -> Nat],
         NEW lost2, NEW today \in Nat, row.day <= today, Held(row, sent, lost, 0),
         \A d \in Days : lost2[d] \in Nat /\ lost[d] + failures <= lost2[d]
  PROVE  Fits(row, sent, lost2, today)
<1>1. row.day \in Days /\ row.day \in Nat
  BY DaysAreNat DEF Held
<1>2. row.used <= sent[row.day]
  BY <1>1 DEF Held
<1>3. ASSUME NEW d \in Days, d >= today PROVE sent[d] <= Used(row, d) + lost2[d]
  <2>1. CASE d = row.day
    <3>1. sent[d] <= row.used + lost[d] + failures + 0
      BY <2>1 DEF Held
    <3>2. sent[d] \in Nat /\ lost[d] \in Nat /\ failures \in Nat /\ lost2[d] \in Nat
      BY Counts
    <3>3. lost[d] + failures <= lost2[d]
      OBVIOUS
    <3> QED  BY <3>1, <3>2, <3>3, <2>1 DEF Used
  <2>2. CASE d # row.day
    <3>1. d > row.day
      BY <2>2, <1>1, <1>3, DaysAreNat
    <3>2. sent[d] = 0
      BY <3>1 DEF Held, Nothing
    <3>3. lost2[d] \in Nat
      OBVIOUS
    <3> QED  BY <3>2, <3>3, <2>2 DEF Used
  <2> QED  BY <2>1, <2>2
<1> QED  BY <1>2, <1>3 DEF Fits

LEMMA CountsOf ==
  ASSUME Typed
  PROVE  /\ \A x \in Campaigns \cup Mailboxes : accepted[x] \in [Days -> Nat] /\ shaken[x] \in [Days -> Nat]
         /\ UtcDay(now) \in Nat /\ CampaignDay(now) \in Nat
BY Counts, DaysAreNat DEF Typed, TypeOK

LEMMA LostNow ==
  ASSUME Typed
  PROVE  /\ \A b \in Mailboxes, d \in Days :
              BoxLost(b)[d] \in Nat /\ shaken[b][d] + failures <= BoxLost(b)[d]
         /\ \A c \in Campaigns, d \in Days :
              RowLost(c)[d] \in Nat /\ shaken[c][d] + failures <= RowLost(c)[d]
<1>1. ASSUME NEW b \in Mailboxes, NEW d \in Days
      PROVE  BoxLost(b)[d] \in Nat /\ shaken[b][d] + failures <= BoxLost(b)[d]
  <2>1. BoxLost(b)[d] = shaken[b][d] + failures + BoxFlight(b, d) /\ BoxFlight(b, d) \in {0, 1}
    BY DEF BoxLost, BoxFlight
  <2>2. shaken[b][d] \in Nat /\ failures \in Nat
    BY Counts
  <2> QED  BY <2>1, <2>2
<1>2. ASSUME NEW c \in Campaigns, NEW d \in Days
      PROVE  RowLost(c)[d] \in Nat /\ shaken[c][d] + failures <= RowLost(c)[d]
  <2>1. RowLost(c)[d] = shaken[c][d] + failures + RowFlight(c, d) /\ RowFlight(c, d) \in {0, 1}
    BY DEF RowLost, RowFlight
  <2>2. shaken[c][d] \in Nat /\ failures \in Nat
    BY Counts
  <2> QED  BY <2>1, <2>2
<1> QED  BY <1>1, <1>2

LEMMA RowInHand ==
  ASSUME BudgetInv, InHand, tick.pc # "count", NEW c \in Campaigns, tick.cur = c
  PROVE  RowFits(c, tick.row)
<1>1. InFlight = 0
  BY DEF InFlight, At
<1>2. Held(tick.row, accepted[c], shaken[c], 0) /\ tick.row.day <= CampaignDay(now) /\ tick.row.used \in Nat
  BY <1>1, TickNow
<1>3. Fits(tick.row, accepted[c], RowLost(c), CampaignDay(now))
  BY <1>2, HeldFits, LostNow, CountsOf DEF BudgetInv
<1> QED  BY <1>3, TickNow DEF RowFits

LEMMA BoxInHand ==
  ASSUME BudgetInv, tick.pc = "handoff", NEW b \in Mailboxes, From = b
  PROVE  BoxFits(b, tick.box)
<1>1. InFlight = 0
  BY DEF InFlight, At
<1>2. Held(tick.box, accepted[b], shaken[b], 0) /\ tick.box.day <= UtcDay(now) /\ tick.box.used \in Nat
  BY <1>1, BoxNow
<1> QED  BY <1>2, HeldFits, LostNow, CountsOf DEF BudgetInv, BoxFits

\* The run gives the campaign up for this time; nothing was recorded.
LEMMA ClosesEmpty ==
  ASSUME BudgetInv, Close(FALSE), tables' = tables, history' = history, now' = now,
         task' = task, poll' = poll,
         \/ tick.pc \in {"mailboxes", "send", "handoff"} /\ failures' = failures
         \/ tick.pc = "count" /\ failures' = failures + 1
  PROVE  BudgetInv'
<1>1. tick' = [tick EXCEPT !.pc = "close", !.box = NoRow, !.sent = FALSE]
  BY DEF Close
<1>2. /\ tick' \in Ticks /\ tick'.pc = "close" /\ ~tick'.sent /\ tick'.todo = tick.todo
      /\ tick'.cur = tick.cur /\ tick'.row = tick.row /\ tick'.rows = tick.rows
  BY <1>1, TickNow DEF Ticks, Places
<1>3. Still
  BY StillIf DEF BudgetInv
<1>4. InHand
  BY DEF InHand
<1>5. Held(tick.row, accepted[tick.cur], shaken[tick.cur], 0)'
  <2>1. Held(tick.row, accepted[tick.cur], shaken[tick.cur], InFlight) /\ tick.cur \in Campaigns
    BY <1>4, TickNow
  <2>2. /\ tick.row.day \in Days /\ tick.row.used \in Nat
        /\ accepted[tick.cur][tick.row.day] \in Nat /\ shaken[tick.cur][tick.row.day] \in Nat
        /\ failures \in Nat
    BY <1>4, TickNow, Counts DEF BudgetInv
  <2>3. \/ InFlight = 0 /\ failures' = failures
        \/ InFlight = 1 /\ failures' = failures + 1
    BY DEF InFlight, At
  <2> QED  BY <2>1, <2>2, <2>3, <1>2 DEF Held, history
<1>6. HandFits'
  <2>1. CampaignHeld'
    <3>1. InFlight' = 0
      BY <1>2 DEF InFlight, At
    <3> QED  BY <3>1, <1>2, <1>4, <1>5, TickNow DEF CampaignHeld, history, CampaignDay
  <2> QED  BY <2>1, <1>2 DEF HandFits, SendersHeld, SenderPicked, MailboxHeld, SenderCharged, At
<1> QED  BY <1>2, <1>3, <1>6, TodoNow, TickReads

\* The turn of a campaign: its counter is the one of today, whatever was loaded.
LEMMA Processes ==
  ASSUME BudgetInv, NEW c \in Campaigns, ProcessCampaign(c)
  PROVE  BudgetInv'
<1>1. PICK load : load = tick.todo[c] /\ LoadFits(c, load)
  BY TodoNow DEF ProcessCampaign
<1>2. PICK today : today = CampaignDay(now) /\ today \in Days /\ today # None
  BY Counts, DaysAreNat DEF BudgetInv
<1>3. PICK row : row = Fresh(load.row, today)
  OBVIOUS
<1>4. /\ load.row \in CampaignRow /\ load.rows \in SenderRows /\ SendersFit(load.rows, accepted)
      /\ RowFits(c, load.row) /\ load.row.status # "draft"
  BY <1>1 DEF LoadFits, Loaded
<1>5. row \in CampaignRow /\ row.day = today /\ row.status # "draft"
      /\ row.used = Used(load.row, today) /\ row.used \in Nat
  <2>1. CASE load.row.day = today
    BY <2>1, <1>3, <1>4 DEF Fresh, Used, CampaignRow
  <2>2. CASE load.row.day # today
    BY <2>2, <1>2, <1>3, <1>4 DEF Fresh, Used, CampaignRow
  <2> QED  BY <2>1, <2>2
<1>6. PICK rows : rows = [s \in Senders |->
                            IF BatchLeft(row) /\ s \in Active(load.rows)
                            THEN Fresh(load.rows[s], today) ELSE load.rows[s]]
  OBVIOUS
<1>7. /\ tick.pc = "next"
      /\ tick' = [tick EXCEPT !.pc = IF BatchLeft(row) THEN "mailboxes" ELSE "close",
                              !.todo[c] = NoRow, !.cur = c, !.began = now, !.row = row,
                              !.rows = rows]
      /\ tables' = tables /\ history' = history /\ now' = now /\ task' = task
      /\ poll' = poll /\ failures' = failures
  BY <1>1, <1>2, <1>3, <1>6 DEF ProcessCampaign, At, counters
<1>8. ASSUME NEW s \in Senders
      PROVE  /\ rows[s] \in SenderRow \cup {NoRow}
             /\ rows[s] # NoRow => load.rows[s] # NoRow
             /\ (rows[s] # NoRow /\ rows[s].day # None) => rows[s].used <= accepted[s][rows[s].day]
             /\ (BatchLeft(row) /\ s \in Active(rows)) => rows[s].day = today
  <2>1. load.rows[s] \in SenderRow \cup {NoRow}
    BY <1>4 DEF SenderRows
  <2>2. (load.rows[s] # NoRow /\ load.rows[s].day # None) => load.rows[s].used <= accepted[s][load.rows[s].day]
    BY <1>4 DEF SendersFit
  <2>3. accepted[s][today] \in Nat
    BY <1>2, Counts DEF BudgetInv
  <2>4. CASE BatchLeft(row) /\ s \in Active(load.rows)
    <3>1. load.rows[s] # NoRow /\ load.rows[s] \in SenderRow
      BY <2>1, <2>4 DEF Active, Present
    <3>2. rows[s] = Fresh(load.rows[s], today)
      BY <2>4, <1>6
    <3>3. CASE load.rows[s].day = today
      BY <3>1, <3>2, <3>3, <2>2 DEF Fresh
    <3>4. CASE load.rows[s].day # today
      <4>1. /\ rows[s] = [load.rows[s] EXCEPT !.used = 0, !.day = today]
        BY <3>2, <3>4 DEF Fresh
      <4>2. rows[s] \in SenderRow /\ rows[s].used = 0 /\ rows[s].day = today
        <5>1. PICK old \in SenderRow : old = load.rows[s]
          BY <3>1
        <5>2. rows[s] = [old EXCEPT !.used = 0, !.day = today]
          BY <4>1, <5>1
        <5>3. PICK new : new = [old EXCEPT !.used = 0, !.day = today]
          OBVIOUS
        <5>4. new \in SenderRow /\ new.used = 0 /\ new.day = today
          BY <5>3, <1>2 DEF SenderRow
        <5> QED  BY <5>2, <5>3, <5>4
      <4> QED  BY <4>2, <3>1, <2>3
    <3> QED  BY <3>3, <3>4
  <2>5. CASE ~ (BatchLeft(row) /\ s \in Active(load.rows))
    <3>1. rows[s] = load.rows[s]
      BY <2>5, <1>6
    <3>2. s \in Active(rows) => s \in Active(load.rows)
      BY <3>1, <1>4, <1>6 DEF Active, Present, SenderRows
    <3> QED  BY <3>1, <3>2, <2>1, <2>2, <2>5
  <2> QED  BY <2>4, <2>5
<1>9. rows \in SenderRows /\ SendersFit(rows, accepted)
  <2>1. rows = [s \in Senders |-> rows[s]]
    BY <1>6
  <2> QED  BY <2>1, <1>8 DEF SenderRows, SendersFit
<1>10. /\ tick' \in Ticks /\ tick'.cur = c /\ tick'.row = row /\ tick'.rows = rows
       /\ tick'.todo[c] = NoRow
       /\ \A a \in Campaigns : tick'.todo[a] \in {tick.todo[a], NoRow}
       /\ tick'.pc = (IF BatchLeft(row) THEN "mailboxes" ELSE "close")
  <2>1. tick \in Ticks /\ now \in Nat
    BY TickNow, Counts DEF BudgetInv
  <2> QED  BY <2>1, <1>5, <1>7, <1>9 DEF Ticks, Places
<1>11. Still
  BY <1>7, StillIf DEF BudgetInv
<1>12. Held(row, accepted[c], shaken[c], 0)
  <2>1. row.used <= accepted[c][today]
    <3>1. load.row.day = today => load.row.used <= accepted[c][today]
      BY <1>2, <1>4 DEF RowFits, Fits
    <3>2. accepted[c][today] \in Nat
      BY <1>2, Counts DEF BudgetInv
    <3> QED  BY <3>1, <3>2, <1>5 DEF Used
  <2>2. accepted[c][today] <= row.used + shaken[c][today] + failures
    <3>1. today \in Nat /\ today >= CampaignDay(now)
      BY <1>2, DaysAreNat
    <3>2. accepted[c][today] <= Used(load.row, today) + RowLost(c)[today]
      BY <3>1, <1>2, <1>4 DEF RowFits, Fits
    <3>3. RowLost(c)[today] = shaken[c][today] + failures
      <4>1. RowFlight(c, today) = 0
        BY <1>7 DEF RowFlight, At
      <4>2. shaken[c][today] \in Nat /\ failures \in Nat
        BY <1>2, Counts DEF BudgetInv
      <4> QED  BY <4>1, <4>2, <1>2 DEF RowLost
    <3>4. shaken[c][today] \in Nat /\ failures \in Nat
      BY <1>2, Counts DEF BudgetInv
    <3> QED  BY <3>2, <3>3, <3>4, <1>5
  <2>3. Nothing(accepted[c], today)
    BY <1>2 DEF BudgetInv, Tomorrow
  <2>4. shaken[c][today] \in Nat /\ failures \in Nat /\ accepted[c][today] \in Nat
    BY <1>2, Counts DEF BudgetInv
  <2> QED  BY <2>1, <2>2, <2>3, <2>4, <1>2, <1>5 DEF Held
<1>13. HandFits'
  <2>1. CampaignHeld'
    <3>1. InFlight' = 0
      BY <1>10 DEF InFlight, At
    <3>2. Held(tick.row, accepted[tick.cur], shaken[tick.cur], 0)'
      BY <1>7, <1>10, <1>12 DEF Held, history
    <3>3. tick'.row.day <= CampaignDay(now)'
      BY <1>2, <1>5, <1>7, <1>10, DaysAreNat DEF CampaignDay
    <3> QED  BY <3>1, <3>2, <3>3, <1>5, <1>7, <1>9, <1>10 DEF CampaignHeld, history
  <2>2. SendersHeld'
    <3>1. ASSUME BatchLeft(row), NEW s \in Active(rows) PROVE rows[s].day = row.day
      <4>1. s \in Senders
        BY <1>6 DEF Active, Present
      <4> QED  BY <4>1, <3>1, <1>5, <1>8
    <3>2. BatchLeft(row) => row.used < Batch
      BY DEF BatchLeft
    <3>3. Active(tick.rows)' = Active(rows)
      BY <1>10 DEF Active, Present
    <3> QED  BY <3>1, <3>2, <3>3, <1>10 DEF SendersHeld
  <2> QED  BY <2>1, <2>2, <1>10 DEF HandFits, SenderPicked, MailboxHeld, SenderCharged, At
<1> QED  BY <1>7, <1>10, <1>11, <1>13, TodoNow, TickReads

LEMMA LoadsMailboxes ==
  ASSUME BudgetInv, LoadMailboxes
  PROVE  BudgetInv'
<1>1. /\ tick.pc = "mailboxes"
      /\ tables' = tables /\ history' = history /\ now' = now /\ task' = task
      /\ poll' = poll /\ failures' = failures
  BY DEF LoadMailboxes, At, counters
<1>2. CASE Close(FALSE)
  BY <1>1, <1>2, ClosesEmpty
<1>3. ASSUME NEW s \in Active(tick.rows), tick' = [tick EXCEPT !.pc = "send", !.by = s]
      PROVE  BudgetInv'
  <2>1. s \in Senders
    BY TickNow DEF Active, Present, SenderRows
  <2>2. /\ tick' \in Ticks /\ tick'.pc = "send" /\ tick'.by = s /\ tick'.todo = tick.todo
        /\ tick'.cur = tick.cur /\ tick'.row = tick.row /\ tick'.rows = tick.rows
    BY <1>3, <2>1, TickNow DEF Ticks, Places
  <2>3. InHand /\ InFlight = 0 /\ InFlight' = 0
    BY <1>1, <2>2 DEF InHand, InFlight, At
  <2>4. SendersHeld
    BY DEF BudgetInv, HandFits
  <2>5. CampaignHeld'
    BY <1>1, <2>2, <2>3, TickNow DEF CampaignHeld, Held, history, CampaignDay
  <2>6. Active(tick.rows)' = Active(tick.rows)
    BY <2>2
  <2>7. HandFits'
    BY <1>1, <1>3, <2>2, <2>4, <2>5, <2>6
    DEF HandFits, SendersHeld, SenderPicked, MailboxHeld, SenderCharged, At
  <2> QED  BY <1>1, <2>2, <2>7, StillIf, TodoNow, TickReads DEF BudgetInv
<1> QED  BY <1>2, <1>3 DEF LoadMailboxes

\* The mailbox is looked at again: its counter is the one of today.
LEMMA ReadsMailbox ==
  ASSUME BudgetInv, ReadMailbox
  PROVE  BudgetInv'
<1>1. /\ tick.pc = "send"
      /\ tables' = tables /\ history' = history /\ now' = now /\ task' = task
      /\ poll' = poll /\ failures' = failures
  BY DEF ReadMailbox, At, counters
<1>2. PICK today : today = UtcDay(now) /\ today \in Days /\ today # None
  BY Counts, DaysAreNat DEF BudgetInv
<1>3. PICK b \in Mailboxes : b = From
  BY <1>1, PickedNow
<1>4. PICK old \in MailboxRow : old = mailbox[b] /\ BoxFits(b, old)
  BY TablesNow
<1>5. PICK box : box = Fresh(old, today)
  OBVIOUS
<1>6. IF box.active /\ RoomIn(box)
      THEN tick' = [tick EXCEPT !.pc = "handoff", !.box = box]
      ELSE Close(FALSE)
  BY <1>2, <1>3, <1>4, <1>5 DEF ReadMailbox
<1>7. CASE ~ (box.active /\ RoomIn(box))
  BY <1>1, <1>6, <1>7, ClosesEmpty
<1>8. CASE box.active /\ RoomIn(box)
  <2>1. box \in MailboxRow /\ box.day = today /\ box.used = Used(old, today) /\ box.used \in Nat
    <3>1. CASE old.day = today
      BY <3>1, <1>5 DEF Fresh, Used, MailboxRow
    <3>2. CASE old.day # today
      <4>1. PICK new : new = [old EXCEPT !.used = 0, !.day = today]
        OBVIOUS
      <4>2. new \in MailboxRow /\ new.used = 0 /\ new.day = today
        BY <4>1, <1>2 DEF MailboxRow
      <4> QED  BY <4>1, <4>2, <3>2, <1>5 DEF Fresh, Used
    <3> QED  BY <3>1, <3>2
  <2>2. tick' = [tick EXCEPT !.pc = "handoff", !.box = box]
    BY <1>6, <1>8
  <2>3. /\ tick' \in Ticks /\ tick'.pc = "handoff" /\ tick'.box = box /\ tick'.todo = tick.todo
        /\ tick'.cur = tick.cur /\ tick'.row = tick.row /\ tick'.rows = tick.rows
        /\ tick'.by = tick.by
    BY <2>1, <2>2, TickNow DEF Ticks, Places
  <2>4. InHand /\ InFlight = 0 /\ InFlight' = 0
    BY <1>1, <2>3 DEF InHand, InFlight, At
  <2>5. CampaignHeld'
    BY <1>1, <2>3, <2>4, TickNow DEF CampaignHeld, Held, history, CampaignDay
  <2>6. SendersHeld' /\ SenderPicked' /\ SenderCharged'
    <3>1. Active(tick.rows)' = Active(tick.rows)
      BY <2>3
    <3> QED  BY <3>1, <1>1, <2>3, PickedNow DEF SendersHeld, SenderPicked, SenderCharged, At
  <2>7. Held(box, accepted[b], shaken[b], 0)
    <3>1. box.used <= accepted[b][today]
      <4>1. old.day = today => old.used <= accepted[b][today]
        BY <1>2, <1>4 DEF BoxFits, Fits
      <4>2. accepted[b][today] \in Nat
        BY <1>2, Counts DEF BudgetInv
      <4> QED  BY <4>1, <4>2, <2>1 DEF Used
    <3>2. accepted[b][today] <= box.used + shaken[b][today] + failures
      <4>1. today \in Nat /\ today >= UtcDay(now)
        BY <1>2, DaysAreNat
      <4>2. accepted[b][today] <= Used(old, today) + BoxLost(b)[today]
        BY <4>1, <1>2, <1>4 DEF BoxFits, Fits
      <4>3. shaken[b][today] \in Nat /\ failures \in Nat
        BY <1>2, Counts DEF BudgetInv
      <4>4. BoxFlight(b, today) = 0
        BY <1>1 DEF BoxFlight, At
      <4>5. BoxLost(b)[today] = shaken[b][today] + failures
        BY <4>3, <4>4, <1>2 DEF BoxLost
      <4> QED  BY <4>2, <4>3, <4>5, <2>1
    <3>3. Nothing(accepted[b], today)
      BY <1>2 DEF BudgetInv, Tomorrow
    <3>4. shaken[b][today] \in Nat /\ failures \in Nat /\ accepted[b][today] \in Nat
      BY <1>2, Counts DEF BudgetInv
    <3> QED  BY <3>1, <3>2, <3>3, <3>4, <1>2, <2>1 DEF Held
  <2>8. MailboxHeld'
    <3>1. From' = b
      BY <1>3, <2>3 DEF From
    <3>2. Held(tick.box, accepted[From], shaken[From], 0)'
      BY <3>1, <1>1, <2>3, <2>7 DEF Held, history
    <3>3. tick'.box.day <= UtcDay(now)'
      BY <1>1, <1>2, <2>1, <2>3, DaysAreNat DEF UtcDay
    <3>4. tick'.box.used < tick'.box.limit
      BY <1>8, <2>3 DEF RoomIn
    <3> QED  BY <3>2, <3>3, <3>4, <2>1, <2>3, <2>4 DEF MailboxHeld
  <2>9. HandFits'
    BY <2>5, <2>6, <2>8 DEF HandFits
  <2> QED  BY <1>1, <2>3, <2>9, StillIf, TodoNow, TickReads DEF BudgetInv
<1> QED  BY <1>7, <1>8

LEMMA RefreshesToken ==
  ASSUME BudgetInv, RefreshSendToken
  PROVE  BudgetInv'
<1>1. /\ tick.pc = "handoff" /\ tick' = tick
      /\ campaign' = campaign /\ sender' = sender /\ history' = history /\ now' = now
      /\ task' = task /\ poll' = poll /\ failures' = failures
      /\ mailbox' = [mailbox EXCEPT ![From] = tick.box]
  BY DEF RefreshSendToken, At, counters
<1>2. PICK b \in Mailboxes, box \in MailboxRow : b = From /\ box = tick.box
  BY <1>1, PickedNow, BoxNow
<1>3. BoxFits(b, box)
  BY <1>1, <1>2, BoxInHand
<1>4. mailbox' \in [Mailboxes -> MailboxRow]
  BY <1>1, <1>2, TablesNow
<1>5. ASSUME NEW a \in Mailboxes PROVE BoxFits(a, mailbox'[a])
  <2>1. CASE a = b
    <3>1. mailbox'[a] = box
      BY <2>1, <1>1, <1>2, TablesNow
    <3> QED  BY <3>1, <2>1, <1>3
  <2>2. CASE a # b
    <3>1. mailbox'[a] = mailbox[a]
      BY <2>2, <1>1, <1>2, TablesNow
    <3> QED  BY <3>1, TablesNow
  <2> QED  BY <2>1, <2>2
<1>6. Typed'
  BY <1>1, <1>4, TickNow, TablesNow, TickTyped, Counts DEF BudgetInv, Typed, TypeOK, history
<1>7. HandFits'
  BY <1>1 DEF BudgetInv, HandFits, CampaignHeld, SendersHeld, SenderPicked, MailboxHeld,
       SenderCharged, Held, history, From, At, InFlight, CampaignDay, UtcDay
<1>8. Still
  BY <1>1, StillIf DEF BudgetInv
<1> QED  BY <1>1, <1>5, <1>6, <1>7, <1>8, TablesNow, TodoNow, TickActs

LEMMA HandStays ==
  ASSUME BudgetInv, InHand, tick.pc # "count", tick'.pc \in {"close", "persist", "refresh"},
         tick'.cur = tick.cur, tick'.row = tick.row, tick'.rows = tick.rows,
         tick'.todo = tick.todo, accepted' = accepted, failures' = failures, now' = now,
         \A d \in Days : shaken[tick.cur][d] <= shaken'[tick.cur][d],
         shaken' \in [Campaigns \cup Mailboxes -> [Days -> Nat]]
  PROVE  HandFits'
<1>1. InFlight = 0 /\ InFlight' = 0
  BY DEF InFlight, At
<1>2. Held(tick.row, accepted[tick.cur], shaken[tick.cur], 0)'
  <2>1. Held(tick.row, accepted[tick.cur], shaken[tick.cur], 0) /\ tick.cur \in Campaigns
    BY <1>1, TickNow
  <2>2. /\ tick.row.day \in Days /\ tick.row.used \in Nat
        /\ accepted[tick.cur][tick.row.day] \in Nat /\ shaken[tick.cur][tick.row.day] \in Nat
        /\ failures \in Nat
    BY TickNow, Counts DEF BudgetInv
  <2>3. shaken'[tick.cur][tick.row.day] \in Nat
    BY <2>1, <2>2
  <2>4. shaken[tick.cur][tick.row.day] <= shaken'[tick.cur][tick.row.day]
    BY <2>2
  <2> QED  BY <2>1, <2>2, <2>3, <2>4 DEF Held
<1>3. CampaignHeld'
  BY <1>1, <1>2, TickNow DEF CampaignHeld, CampaignDay
<1> QED  BY <1>3 DEF HandFits, SendersHeld, SenderPicked, MailboxHeld, SenderCharged, At

LEMMA PersistsSender ==
  ASSUME BudgetInv, PersistSender
  PROVE  BudgetInv'
<1>1. /\ tick.pc = "persist" /\ tick' = [tick EXCEPT !.pc = "refresh"]
      /\ sender' = [sender EXCEPT ![tick.by] = tick.rows[tick.by]]
      /\ campaign' = campaign /\ mailbox' = mailbox /\ history' = history /\ now' = now
      /\ task' = task /\ poll' = poll /\ failures' = failures
  BY DEF PersistSender, At, counters
<1>2. InHand
  BY <1>1 DEF InHand
<1>3. sender' \in SenderRows /\ SendersFit(sender', accepted)
  BY <1>1, <1>2, TickNow, TablesNow DEF SenderRows, SendersFit
<1>4. /\ tick' \in Ticks /\ tick'.pc = "refresh" /\ tick'.todo = tick.todo
      /\ tick'.cur = tick.cur /\ tick'.row = tick.row /\ tick'.rows = tick.rows
  BY <1>1, TickNow DEF Ticks, Places
<1>5. Typed'
  BY <1>1, <1>3, <1>4, TablesNow, TickTyped, Counts DEF BudgetInv, Typed, TypeOK, history
<1>6. HandFits'
  <2>1. /\ shaken' = shaken /\ accepted' = accepted
        /\ shaken \in [Campaigns \cup Mailboxes -> [Days -> Nat]]
    BY <1>1 DEF history, BudgetInv, Typed, TypeOK
  <2>2. \A d \in Days : shaken[tick.cur][d] \in Nat
    BY <2>1, <1>2, TickNow
  <2> QED  BY <1>1, <1>2, <1>4, <2>1, <2>2, HandStays
<1>7. Still
  BY <1>1, StillIf DEF BudgetInv
<1> QED  BY <1>1, <1>3, <1>4, <1>5, <1>6, <1>7, TablesNow, TodoNow, TickActs

\* A campaign and its senders saved by the run
LEMMA SavesRow ==
  ASSUME BudgetInv, InHand, tick.pc # "count", NEW row \in CampaignRow,
         row.used = tick.row.used, row.day = tick.row.day, row.status # "draft",
         SaveCampaignRow(tick.cur, row, tick.rows)
  PROVE  /\ campaign' \in [Campaigns -> CampaignRow] /\ sender' \in SenderRows
         /\ SendersFit(sender', accepted)
         /\ \A c \in Campaigns : RowFits(c, campaign'[c])
         /\ \A c \in Campaigns : c # tick.cur => campaign'[c] = campaign[c]
         /\ campaign'[tick.cur] = row
<1>1. /\ campaign' = [campaign EXCEPT ![tick.cur] = row]
      /\ sender' = Over(tick.rows, sender)
  BY DEF SaveCampaignRow
<1>2. sender' \in SenderRows /\ SendersFit(sender', accepted)
  BY <1>1, TickNow, TablesNow, OverFits
<1>3. campaign' \in [Campaigns -> CampaignRow]
  BY <1>1, TablesNow
<1>4. PICK cur \in Campaigns : cur = tick.cur
  BY TickNow
<1>5. campaign'[cur] = row /\ \A c \in Campaigns : c # cur => campaign'[c] = campaign[c]
  BY <1>1, <1>4, TablesNow
<1>6. RowFits(cur, row)
  <2>1. RowFits(cur, tick.row)
    BY <1>4, RowInHand
  <2> QED  BY <2>1, SameCounter
<1>7. ASSUME NEW c \in Campaigns PROVE RowFits(c, campaign'[c])
  <2>1. CASE c = cur
    BY <2>1, <1>5, <1>6
  <2>2. CASE c # cur
    BY <2>2, <1>5, TablesNow
  <2> QED  BY <2>1, <2>2
<1> QED  BY <1>2, <1>3, <1>4, <1>5, <1>7

LEMMA RefreshesStatus ==
  ASSUME BudgetInv, RefreshStatus
  PROVE  BudgetInv'
<1>1. /\ tick.pc = "refresh" /\ tick' = Moved
      /\ mailbox' = mailbox /\ history' = history /\ now' = now
      /\ task' = task /\ poll' = poll /\ failures' = failures
      /\ \/ campaign' = campaign /\ sender' = sender
         \/ SaveCampaignRow(tick.cur, [tick.row EXCEPT !.status = "sent"], tick.rows)
  BY DEF RefreshStatus, At, counters
<1>2. InHand
  BY <1>1 DEF InHand
<1>3. Moved \in Ticks /\ Moved.pc = "next" /\ Moved.todo = tick.todo
  BY RestingTyped, TickNow DEF Moved, Ticks, Places
<1>4. /\ campaign' \in [Campaigns -> CampaignRow] /\ sender' \in SenderRows
      /\ SendersFit(sender', accepted)
      /\ \A c \in Campaigns : RowFits(c, campaign'[c])
  <2>1. CASE campaign' = campaign /\ sender' = sender
    BY <2>1, TablesNow
  <2>2. CASE SaveCampaignRow(tick.cur, [tick.row EXCEPT !.status = "sent"], tick.rows)
    <3>1. PICK row : row = [tick.row EXCEPT !.status = "sent"]
      OBVIOUS
    <3>2. PICK old \in CampaignRow : old = tick.row
      BY <1>2, TickNow
    <3>3. row \in CampaignRow /\ row.used = old.used /\ row.day = old.day /\ row.status # "draft"
      BY <3>1, <3>2 DEF CampaignRow, CampaignStatuses
    <3>4. SaveCampaignRow(tick.cur, row, tick.rows)
      BY <3>1, <2>2
    <3> QED  BY <1>1, <1>2, <3>2, <3>3, <3>4, SavesRow
  <2> QED  BY <2>1, <2>2, <1>1
<1>5. Typed'
  BY <1>1, <1>3, <1>4, TablesNow, TickTyped, Counts DEF BudgetInv, Typed, TypeOK, history
<1>6. HandFits'
  BY <1>1, <1>3, EmptyHand
<1>7. Still
  BY <1>1, StillIf DEF BudgetInv
<1> QED  BY <1>1, <1>3, <1>4, <1>5, <1>6, <1>7, TablesNow, TodoNow, TickActs

-----------------------------------------------------------------------------
\* The scheduler when it counts an email

LEMMA Shakes ==
  ASSUME Typed, NEW x \in Campaigns \cup Mailboxes, NEW day \in Days, NEW if \in BOOLEAN,
         Shake(x, day, if)
  PROVE  /\ shaken' \in [Campaigns \cup Mailboxes -> [Days -> Nat]]
         /\ \A y \in Campaigns \cup Mailboxes, d \in Days :
              shaken[y][d] \in Nat /\ shaken'[y][d] \in Nat /\ shaken[y][d] <= shaken'[y][d]
         /\ if => shaken'[x][day] = shaken[x][day] + 1
         /\ \A y \in Campaigns \cup Mailboxes : y # x => shaken'[y] = shaken[y]
<1>1. shaken \in [Campaigns \cup Mailboxes -> [Days -> Nat]]
  BY DEF Typed, TypeOK
<1>2. CASE if
  BY <1>1, <1>2 DEF Shake
<1>3. CASE ~if
  BY <1>1, <1>3 DEF Shake
<1> QED  BY <1>2, <1>3

LEMMA LostNext ==
  ASSUME Typed'
  PROVE  /\ \A b \in Mailboxes, d \in Days :
              BoxLost(b)'[d] \in Nat /\ shaken'[b][d] + failures' <= BoxLost(b)'[d]
         /\ \A c \in Campaigns, d \in Days :
              RowLost(c)'[d] \in Nat /\ shaken'[c][d] + failures' <= RowLost(c)'[d]
<1>1. ASSUME NEW b \in Mailboxes, NEW d \in Days
      PROVE  BoxLost(b)'[d] \in Nat /\ shaken'[b][d] + failures' <= BoxLost(b)'[d]
  <2>1. BoxLost(b)'[d] = shaken'[b][d] + failures' + BoxFlight(b, d)' /\ BoxFlight(b, d)' \in {0, 1}
    BY DEF BoxLost, BoxFlight
  <2>2. shaken'[b][d] \in Nat /\ failures' \in Nat
    BY CountsNext
  <2> QED  BY <2>1, <2>2
<1>2. ASSUME NEW c \in Campaigns, NEW d \in Days
      PROVE  RowLost(c)'[d] \in Nat /\ shaken'[c][d] + failures' <= RowLost(c)'[d]
  <2>1. RowLost(c)'[d] = shaken'[c][d] + failures' + RowFlight(c, d)' /\ RowFlight(c, d)' \in {0, 1}
    BY DEF RowLost, RowFlight
  <2>2. shaken'[c][d] \in Nat /\ failures' \in Nat
    BY CountsNext
  <2> QED  BY <2>1, <2>2
<1> QED  BY <1>1, <1>2

\* The limits stay where the counts may only become looser.
LEMMA LimitsStay ==
  ASSUME BudgetInv, Typed', accepted' = accepted, failures <= failures',
         \A y \in Campaigns \cup Mailboxes, d \in Days : shaken[y][d] <= shaken'[y][d]
  PROVE  LimitsKept'
<1>1. ASSUME NEW b \in Mailboxes, NEW d \in Days
      PROVE  accepted'[b][d] <= Max(Limits) + shaken'[b][d] + failures'
  <2>1. accepted[b][d] <= Max(Limits) + shaken[b][d] + failures
    BY DEF BudgetInv, LimitsKept, MailboxLimitKept
  <2>2. /\ accepted[b][d] \in Nat /\ shaken[b][d] \in Nat /\ shaken'[b][d] \in Nat
        /\ failures \in Nat /\ failures' \in Nat /\ shaken[b][d] <= shaken'[b][d]
    BY Counts, CountsNext DEF BudgetInv
  <2> QED  BY <2>1, <2>2, LimitBound
<1>2. ASSUME NEW c \in Campaigns, NEW d \in Days
      PROVE  accepted'[c][d] <= Batch + shaken'[c][d] + failures'
  <2>1. accepted[c][d] <= Batch + shaken[c][d] + failures
    BY DEF BudgetInv, LimitsKept, BatchKept
  <2>2. /\ accepted[c][d] \in Nat /\ shaken[c][d] \in Nat /\ shaken'[c][d] \in Nat
        /\ failures \in Nat /\ failures' \in Nat /\ shaken[c][d] <= shaken'[c][d]
    BY Counts, CountsNext DEF BudgetInv
  <2> QED  BY <2>1, <2>2, BudgetAssumption
<1> QED  BY <1>1, <1>2 DEF LimitsKept, MailboxLimitKept, BatchKept

\* An email that was recorded is counted in the campaign, or the campaign is
\* not saved; who has a copy of the row has one email more to learn about.
LEMMA SavesCampaign ==
  ASSUME BudgetInv, SaveCampaign
  PROVE  BudgetInv'
<1>1. /\ tick.pc = "close" /\ mailbox' = mailbox /\ accepted' = accepted /\ now' = now
      /\ task' = task /\ poll' = poll /\ failures' = failures
  BY DEF SaveCampaign, At, counters
<1>2. InHand
  BY <1>1 DEF InHand
<1>3. PICK cur \in Campaigns : cur = tick.cur /\ tick.todo[cur] = NoRow
  BY <1>2, TickNow
<1>4. PICK row \in CampaignRow : /\ row = tick.row /\ row.day \in Days /\ row.status # "draft"
                                 /\ row.used \in Nat /\ row.day <= CampaignDay(now)
  BY <1>2, TickNow
<1>5. \/ /\ CampaignSavable(cur, tick.rows)
         /\ SaveCampaignRow(tick.cur, row, tick.rows)
         /\ tick' = [tick EXCEPT !.pc = IF tick.sent THEN "persist" ELSE "refresh"]
      \/ ~CampaignSavable(cur, tick.rows) /\ tick' = Moved /\ campaign' = campaign /\ sender' = sender
  BY <1>3, <1>4 DEF SaveCampaign
<1>6. Moved \in Ticks /\ Moved.pc = "next" /\ Moved.todo = tick.todo
  BY RestingTyped, TickNow DEF Moved, Ticks, Places
<1>7. /\ tick' \in Ticks /\ tick'.todo = tick.todo
      /\ \/ /\ tick'.pc \in {"persist", "refresh"}
            /\ tick'.cur = tick.cur /\ tick'.row = tick.row /\ tick'.rows = tick.rows
         \/ tick'.pc = "next"
  <2>1. CASE tick' = Moved
    BY <2>1, <1>6
  <2>2. CASE tick' = [tick EXCEPT !.pc = IF tick.sent THEN "persist" ELSE "refresh"]
    BY <2>2, TickNow DEF Ticks, Places
  <2> QED  BY <2>1, <2>2, <1>5
<1>8. /\ campaign' \in [Campaigns -> CampaignRow] /\ sender' \in SenderRows
      /\ SendersFit(sender', accepted)
      /\ \A c \in Campaigns : RowFits(c, campaign'[c])
      /\ \A c \in Campaigns : c # cur => campaign'[c] = campaign[c]
      /\ campaign'[cur] = row \/ (campaign'[cur] = campaign[cur] /\ ~CampaignSavable(cur, tick.rows))
  <2>1. CASE SaveCampaignRow(tick.cur, row, tick.rows)
    BY <2>1, <1>1, <1>2, <1>3, <1>4, SavesRow
  <2>2. CASE campaign' = campaign /\ sender' = sender /\ ~CampaignSavable(cur, tick.rows)
    BY <2>2, TablesNow
  <2> QED  BY <2>1, <2>2, <1>5
<1>9. /\ accepted \in [Campaigns \cup Mailboxes \cup Senders -> [Days -> Nat]]
      /\ shaken \in [Campaigns \cup Mailboxes -> [Days -> Nat]]
      /\ failures \in Nat
  BY DEF BudgetInv, Typed, TypeOK
<1>10. ASSUME shaken' \in [Campaigns \cup Mailboxes -> [Days -> Nat]],
              \A y \in Campaigns \cup Mailboxes, d \in Days : shaken[y][d] <= shaken'[y][d]
       PROVE  Typed' /\ HandFits'
  <2>1. Typed'
    BY <1>1, <1>7, <1>8, <1>9, <1>10, TablesNow, TickTyped
  <2>2. HandFits'
    <3>1. CASE tick'.pc = "next"
      BY <3>1, EmptyHand
    <3>2. CASE tick'.pc # "next"
      BY <3>2, <1>1, <1>2, <1>3, <1>7, <1>10, HandStays
    <3> QED  BY <3>1, <3>2
  <2> QED  BY <2>1, <2>2
<1>11. CASE ~tick.sent
  <2>1. shaken' = shaken
    BY <1>11 DEF SaveCampaign
  <2>2. \A y \in Campaigns \cup Mailboxes, d \in Days : shaken[y][d] <= shaken'[y][d]
    <3>1. \A y \in Campaigns \cup Mailboxes, d \in Days : shaken[y][d] \in Nat
      BY <1>9
    <3> QED  BY <3>1, <2>1
  <2>3. Typed' /\ HandFits'
    BY <2>1, <2>2, <1>9, <1>10
  <2>4. Still
    BY <1>1, <1>11, <2>1, StillIf DEF BudgetInv, history
  <2> QED  BY <2>3, <2>4, <1>1, <1>7, <1>8, TablesNow, TodoNow, TickActs
<1>12. CASE tick.sent
  <2> DEFINE open == CampaignInUse(cur) \/ ~CampaignSavable(cur, tick.rows)
  <2>1. Shake(cur, row.day, open) /\ open \in BOOLEAN
    BY <1>3, <1>4, <1>12 DEF SaveCampaign, CampaignInUse, CampaignSavable
  <2>2. /\ shaken' \in [Campaigns \cup Mailboxes -> [Days -> Nat]]
        /\ \A y \in Campaigns \cup Mailboxes, d \in Days :
             shaken[y][d] \in Nat /\ shaken'[y][d] \in Nat /\ shaken[y][d] <= shaken'[y][d]
        /\ open => shaken'[cur][row.day] = shaken[cur][row.day] + 1
    <3> HIDE DEF open
    <3> QED  BY <2>1, <1>4, Shakes DEF BudgetInv
  <2>3. Typed' /\ HandFits'
    BY <2>2, <1>10
  <2>4. now <= now' /\ failures <= failures'
    BY <1>1, <1>9, Counts DEF BudgetInv
  <2>5. ASSUME NEW b \in Mailboxes PROVE BoxStep(b)
    <3>1. ASSUME NEW d \in Days
          PROVE  /\ accepted[b][d] <= accepted'[b][d]
                 /\ accepted'[b][d] + shaken[b][d] + failures + BoxFlight(b, d)
                      <= accepted[b][d] + shaken'[b][d] + failures' + BoxFlight(b, d)'
      <4>1. BoxFlight(b, d) = 0 /\ BoxFlight(b, d)' = 0
        BY <1>1, <1>7 DEF BoxFlight, At
      <4>2. accepted[b][d] \in Nat /\ shaken[b][d] \in Nat /\ shaken'[b][d] \in Nat /\ shaken[b][d] <= shaken'[b][d]
        BY <2>2, Counts DEF BudgetInv
      <4> QED  BY <4>1, <4>2, <1>1, <1>9
    <3> QED  BY <3>1, <2>3, <2>4, BoxStepIf DEF BudgetInv
  <2>6. ASSUME NEW c \in Campaigns, c = cur => open PROVE RowStep(c)
    <3>1. ASSUME NEW d \in Days
          PROVE  /\ accepted[c][d] <= accepted'[c][d]
                 /\ accepted'[c][d] + shaken[c][d] + failures + RowFlight(c, d)
                      <= accepted[c][d] + shaken'[c][d] + failures' + RowFlight(c, d)'
      <4>1. RowFlight(c, d)' = 0
        BY <1>7 DEF RowFlight, At
      <4>2. RowFlight(c, d) \in {0, 1} /\ (RowFlight(c, d) = 1 => (c = cur /\ d = row.day))
        BY <1>3, <1>4 DEF RowFlight
      <4>3. accepted[c][d] \in Nat /\ shaken[c][d] \in Nat /\ shaken'[c][d] \in Nat /\ shaken[c][d] <= shaken'[c][d]
        BY <2>2, Counts DEF BudgetInv
      <4>4. RowFlight(c, d) = 1 => shaken'[c][d] = shaken[c][d] + 1
        BY <4>2, <2>2, <2>6
      <4> HIDE DEF open
      <4> QED  BY <4>1, <4>2, <4>3, <4>4, <1>1, <1>9
    <3> QED  BY <3>1, <2>3, <2>4, RowStepIf DEF BudgetInv
  <2>7. SendersStep
    BY <1>1, Counts DEF SendersStep, BudgetInv
  <2>8. CopiesFit'
    BY <2>5, <2>6, <2>7, <1>1, CopiesKept DEF BudgetInv
  <2>9. ASSUME NEW c \in Campaigns PROVE RowFits(c, campaign[c])'
    <3>1. CASE c # cur \/ open
      <4>1. RowStep(c)
        BY <3>1, <2>6
      <4>2. PICK new \in CampaignRow : new = campaign'[c] /\ RowFits(c, new)
        BY <1>8
      <4>3. RowFits(c, new)'
        BY <4>1, <4>2, RowKept
      <4> QED  BY <4>2, <4>3 DEF RowFits
    <3>2. CASE c = cur /\ ~open
      <4>1. campaign'[c] = row
        BY <3>2, <1>8
      <4>2. Held(row, accepted[c], shaken[c], 0)
        BY <1>1, <1>2, <1>3, <1>4, <3>2, TickNow DEF InFlight, At
      <4>3. \A d \in Days : RowLost(c)'[d] \in Nat /\ shaken[c][d] + failures <= RowLost(c)'[d]
        <5> SUFFICES ASSUME NEW d \in Days
                     PROVE  RowLost(c)'[d] \in Nat /\ shaken[c][d] + failures <= RowLost(c)'[d]
          OBVIOUS
        <5>1. RowLost(c)'[d] \in Nat /\ shaken'[c][d] + failures' <= RowLost(c)'[d]
          BY <2>3, LostNext
        <5>2. shaken[c][d] \in Nat /\ shaken'[c][d] \in Nat /\ shaken[c][d] <= shaken'[c][d]
          BY <2>2
        <5> HIDE DEF open
        <5> QED  BY <5>1, <5>2, <1>1, <1>9
      <4>4. Fits(row, accepted[c], RowLost(c)', CampaignDay(now))
        BY <4>2, <4>3, <1>4, HeldFits, CountsOf DEF BudgetInv
      <4>5. Fits(row, accepted[c], RowLost(c), CampaignDay(now))'
        BY <4>4, <1>1 DEF Fits, CampaignDay
      <4> QED  BY <4>1, <4>5, <1>4 DEF RowFits
    <3> QED  BY <3>1, <3>2
  <2>10. TablesFit'
    <3>1. \A b \in Mailboxes : BoxFits(b, mailbox[b])'
      BY <2>5, <1>1, SameBox DEF BudgetInv
    <3>2. SendersFit(sender', accepted')
      BY <1>1, <1>8
    <3> QED  BY <3>1, <3>2, <2>9 DEF TablesFit
  <2>11. TodoFits'
    <3> SUFFICES ASSUME NEW c \in Campaigns, tick'.todo[c] # NoRow
                 PROVE  /\ RowFits(c, tick.todo[c].row)'
                        /\ tick'.todo[c].row.status # "draft"
                        /\ SendersFit(tick'.todo[c].rows, accepted')
      BY DEF TodoFits
    <3>1. c # cur /\ tick'.todo[c] = tick.todo[c] /\ tick.todo[c] # NoRow
      BY <1>3, <1>7
    <3>2. RowStep(c)
      BY <3>1, <2>6
    <3> QED  BY <3>1, <3>2, <2>7, SameTodo DEF BudgetInv
  <2>12. Tomorrow' /\ LimitsKept'
    BY <1>1, <2>2, <2>3, <2>4, LimitsStay DEF BudgetInv, Tomorrow, Nothing, UtcDay, CampaignDay
  <2> QED  BY <2>3, <2>8, <2>10, <2>11, <2>12 DEF BudgetInv
<1> QED  BY <1>11, <1>12

\* An email is counted in the row of the mailbox that was read before it left;
\* who has a copy of that row has one email more to learn about.
LEMMA CountsMailbox ==
  ASSUME BudgetInv, CountMailbox
  PROVE  BudgetInv'
<1>1. /\ tick.pc = "count" /\ campaign' = campaign /\ sender' = sender
      /\ accepted' = accepted /\ now' = now
      /\ task' = task /\ poll' = poll /\ failures' = failures
      /\ mailbox' = [mailbox EXCEPT ![From] = Counted(tick.box)]
      /\ tick' = [tick EXCEPT !.pc = "close", !.box = NoRow, !.sent = TRUE,
                              !.row = CampaignAfterTick(Counted(tick.row), TRUE),
                              !.rows[tick.by] = Counted(tick.rows[tick.by])]
      /\ Shake(From, tick.box.day, MailboxInUse(From))
  BY DEF CountMailbox, At, counters
<1>2. InHand /\ InFlight = 1
  BY <1>1 DEF InHand, InFlight, At
<1>3. PICK cur \in Campaigns : cur = tick.cur /\ tick.todo[cur] = NoRow
  BY <1>2, TickNow
<1>4. PICK row \in CampaignRow : /\ row = tick.row /\ row.day \in Days /\ row.status # "draft"
                                 /\ row.used \in Nat /\ row.day <= CampaignDay(now)
                                 /\ Held(row, accepted[cur], shaken[cur], 1)
  BY <1>2, <1>3, TickNow
<1>5. PICK from \in Mailboxes, box \in MailboxRow :
        /\ from = From /\ box = tick.box /\ box.day \in Days /\ box.used \in Nat
        /\ box.day <= UtcDay(now) /\ Held(box, accepted[from], shaken[from], 1)
  BY <1>1, <1>2, PickedNow, BoxNow
<1>6. PICK by \in Senders, charged \in SenderRow :
        /\ by = tick.by /\ charged = tick.rows[tick.by] /\ charged.used \in Nat
        /\ charged.day = row.day
  BY <1>1, <1>4, PickedNow
<1>7. PICK row2 : row2 = CampaignAfterTick(Counted(row), TRUE)
  OBVIOUS
<1>8. /\ row2 \in CampaignRow /\ row2.used = row.used + 1 /\ row2.day = row.day
      /\ row2.status # "draft"
  <2>1. PICK counted : counted = Counted(row)
    OBVIOUS
  <2>2. /\ counted \in CampaignRow /\ counted.used = row.used + 1 /\ counted.day = row.day
        /\ counted.status # "draft"
    BY <2>1, <1>4 DEF Counted, CampaignRow
  <2>3. CASE counted.status = "scheduled"
    <3>1. row2 = [counted EXCEPT !.status = "sending"]
      BY <1>7, <2>1, <2>3 DEF CampaignAfterTick
    <3> QED  BY <3>1, <2>2 DEF CampaignRow, CampaignStatuses
  <2>4. CASE counted.status # "scheduled"
    BY <1>7, <2>1, <2>2, <2>4 DEF CampaignAfterTick
  <2> QED  BY <2>3, <2>4
<1>9. PICK box2 : box2 = Counted(box)
  OBVIOUS
<1>10. box2 \in MailboxRow /\ box2.used = box.used + 1 /\ box2.day = box.day
  BY <1>5, <1>9 DEF Counted, MailboxRow
<1>11. PICK charged2 : charged2 = Counted(charged)
  OBVIOUS
<1>12. charged2 \in SenderRow /\ charged2.used = charged.used + 1 /\ charged2.day = row.day
  BY <1>6, <1>11 DEF Counted, SenderRow
<1>13. PICK rows : rows = [tick.rows EXCEPT ![by] = charged2]
  OBVIOUS
<1>14. rows \in SenderRows /\ SendersFit(rows, accepted)
  <2>1. charged.used + 1 <= accepted[by][row.day]
    BY <1>1, <1>4, <1>6 DEF BudgetInv, HandFits, SenderCharged, At
  <2>2. tick.rows \in SenderRows /\ SendersFit(tick.rows, accepted)
    BY <1>2, TickNow
  <2> QED  BY <2>1, <2>2, <1>6, <1>12, <1>13 DEF SenderRows, SendersFit
<1>15. /\ tick' \in Ticks /\ tick'.pc = "close" /\ tick'.sent /\ tick'.todo = tick.todo
       /\ tick'.cur = cur /\ tick'.row = row2 /\ tick'.rows = rows
  <2>1. tick' = [tick EXCEPT !.pc = "close", !.box = NoRow, !.sent = TRUE,
                             !.row = row2, !.rows = rows]
    BY <1>1, <1>4, <1>6, <1>7, <1>11, <1>13
  <2> QED  BY <2>1, <1>3, <1>8, <1>14, TickNow DEF Ticks, Places
<1>16. /\ shaken' \in [Campaigns \cup Mailboxes -> [Days -> Nat]]
       /\ \A y \in Campaigns \cup Mailboxes, d \in Days :
            shaken[y][d] \in Nat /\ shaken'[y][d] \in Nat /\ shaken[y][d] <= shaken'[y][d]
       /\ MailboxInUse(from) => shaken'[from][box.day] = shaken[from][box.day] + 1
  <2>1. MailboxInUse(from) \in BOOLEAN
    BY DEF MailboxInUse
  <2>2. Shake(from, box.day, MailboxInUse(from))
    BY <1>1, <1>5
  <2> QED  BY <2>1, <2>2, <1>5, Shakes DEF BudgetInv
<1>17. mailbox' \in [Mailboxes -> MailboxRow] /\ mailbox'[from] = box2
       /\ \A b \in Mailboxes : b # from => mailbox'[b] = mailbox[b]
  BY <1>1, <1>5, <1>9, <1>10, TablesNow
<1>18. /\ accepted \in [Campaigns \cup Mailboxes \cup Senders -> [Days -> Nat]]
       /\ failures \in Nat
  BY DEF BudgetInv, Typed, TypeOK
<1>19. Typed'
  BY <1>1, <1>15, <1>16, <1>17, <1>18, TablesNow, TickTyped
<1>20. now <= now' /\ failures <= failures'
  BY <1>1, <1>18, Counts DEF BudgetInv
<1>21. ASSUME NEW b \in Mailboxes, b = from => MailboxInUse(b) PROVE BoxStep(b)
  <2>1. ASSUME NEW d \in Days
        PROVE  /\ accepted[b][d] <= accepted'[b][d]
               /\ accepted'[b][d] + shaken[b][d] + failures + BoxFlight(b, d)
                    <= accepted[b][d] + shaken'[b][d] + failures' + BoxFlight(b, d)'
    <3>1. BoxFlight(b, d)' = 0
      BY <1>15 DEF BoxFlight, At
    <3>2. BoxFlight(b, d) \in {0, 1} /\ (BoxFlight(b, d) = 1 => (b = from /\ d = box.day))
      BY <1>5 DEF BoxFlight
    <3>3. accepted[b][d] \in Nat /\ shaken[b][d] \in Nat /\ shaken'[b][d] \in Nat /\ shaken[b][d] <= shaken'[b][d]
      BY <1>16, Counts DEF BudgetInv
    <3>4. BoxFlight(b, d) = 1 => shaken'[b][d] = shaken[b][d] + 1
      BY <3>2, <1>16, <1>21
    <3> QED  BY <3>1, <3>2, <3>3, <3>4, <1>1, <1>18
  <2> QED  BY <2>1, <1>19, <1>20, BoxStepIf DEF BudgetInv
<1>22. ASSUME NEW c \in Campaigns PROVE RowStep(c)
  <2>1. ASSUME NEW d \in Days
        PROVE  /\ accepted[c][d] <= accepted'[c][d]
               /\ accepted'[c][d] + shaken[c][d] + failures + RowFlight(c, d)
                    <= accepted[c][d] + shaken'[c][d] + failures' + RowFlight(c, d)'
    <3>1. RowFlight(c, d)' = RowFlight(c, d)
      BY <1>1, <1>3, <1>4, <1>8, <1>15 DEF RowFlight, At
    <3>2. RowFlight(c, d) \in {0, 1}
      BY DEF RowFlight
    <3>3. accepted[c][d] \in Nat /\ shaken[c][d] \in Nat /\ shaken'[c][d] \in Nat /\ shaken[c][d] <= shaken'[c][d]
      BY <1>16, Counts DEF BudgetInv
    <3> QED  BY <3>1, <3>2, <3>3, <1>1, <1>18
  <2> QED  BY <2>1, <1>19, <1>20, RowStepIf DEF BudgetInv
<1>23. SendersStep
  BY <1>1, Counts DEF SendersStep, BudgetInv
<1>24. CopiesFit'
  BY <1>1, <1>21, <1>22, <1>23, CopiesKept DEF BudgetInv
<1>25. ASSUME NEW b \in Mailboxes PROVE BoxFits(b, mailbox[b])'
  <2>1. CASE b # from
    BY <2>1, <1>17, <1>21, SameBox DEF BudgetInv
  <2>2. CASE b = from
    <3>1. Held(box2, accepted[b], shaken[b], 0)
      <4>1. accepted[b][box.day] \in Nat /\ shaken[b][box.day] \in Nat
        BY <1>5, Counts DEF BudgetInv
      <4> QED  BY <4>1, <2>2, <1>5, <1>10, <1>18 DEF Held
    <3>2. ASSUME NEW d \in Days
          PROVE  BoxLost(b)'[d] \in Nat /\ shaken[b][d] + failures <= BoxLost(b)'[d]
      <4>1. BoxLost(b)'[d] \in Nat /\ shaken'[b][d] + failures' <= BoxLost(b)'[d]
        BY <1>19, LostNext
      <4>2. shaken[b][d] \in Nat /\ shaken'[b][d] \in Nat /\ shaken[b][d] <= shaken'[b][d]
        BY <1>16
      <4> QED  BY <4>1, <4>2, <1>1, <1>18
    <3>3. box2.used \in Nat /\ box2.day <= UtcDay(now)
      BY <1>5, <1>10
    <3>4. Fits(box2, accepted[b], BoxLost(b)', UtcDay(now))
      BY <3>1, <3>2, <3>3, HeldFits, CountsOf DEF BudgetInv
    <3>5. Fits(box2, accepted[b], BoxLost(b), UtcDay(now))'
      BY <3>4, <1>1 DEF Fits, UtcDay
    <3> QED  BY <3>5, <2>2, <1>17 DEF BoxFits
  <2> QED  BY <2>1, <2>2
<1>26. TablesFit'
  <2>1. \A c \in Campaigns : RowFits(c, campaign[c])'
    BY <1>1, <1>22, SameRow DEF BudgetInv
  <2>2. SendersFit(sender', accepted')
    BY <1>1, TablesNow
  <2> QED  BY <2>1, <2>2, <1>25 DEF TablesFit
<1>27. TodoFits'
  <2> SUFFICES ASSUME NEW c \in Campaigns, tick'.todo[c] # NoRow
               PROVE  /\ RowFits(c, tick.todo[c].row)'
                      /\ tick'.todo[c].row.status # "draft"
                      /\ SendersFit(tick'.todo[c].rows, accepted')
    BY DEF TodoFits
  <2> QED  BY <1>15, <1>22, <1>23, SameTodo DEF BudgetInv
<1>28. Tomorrow' /\ LimitsKept'
  BY <1>1, <1>16, <1>19, <1>20, LimitsStay DEF BudgetInv, Tomorrow, Nothing, UtcDay, CampaignDay
<1>29. HandFits'
  <2>1. InFlight' = 0
    BY <1>15 DEF InFlight, At
  <2>2. Held(row2, accepted[cur], shaken[cur], 0)'
    <3>1. accepted[cur][row.day] \in Nat /\ shaken[cur][row.day] \in Nat
          /\ shaken'[cur][row.day] \in Nat /\ shaken[cur][row.day] <= shaken'[cur][row.day]
      BY <1>4, <1>16, Counts DEF BudgetInv
    <3> QED  BY <3>1, <1>1, <1>4, <1>8, <1>18 DEF Held
  <2>3. CampaignHeld'
    BY <2>1, <2>2, <1>1, <1>3, <1>4, <1>8, <1>14, <1>15 DEF CampaignHeld, Held, CampaignDay
  <2> QED  BY <2>3, <1>15 DEF HandFits, SendersHeld, SenderPicked, MailboxHeld, SenderCharged, At
<1> QED  BY <1>19, <1>24, <1>26, <1>27, <1>28, <1>29 DEF BudgetInv

-----------------------------------------------------------------------------
\* The scheduler when an email leaves

LEMMA OneMore ==
  ASSUME NEW counts \in [Days -> Nat], NEW day \in Days, NEW more,
         more = [counts EXCEPT ![day] = @ + 1]
  PROVE  /\ more \in [Days -> Nat]
         /\ \A d \in Days : more[d] = counts[d] + (IF d = day THEN 1 ELSE 0)
OBVIOUS

\* An email is one more of the mailbox, the campaign and the sender.
LEMMA Accepts ==
  ASSUME BudgetInv, tick.pc = "handoff", Accept
  PROVE  /\ accepted' \in [Campaigns \cup Mailboxes \cup Senders -> [Days -> Nat]]
         /\ \A b \in Mailboxes, d \in Days :
              accepted'[b][d] = accepted[b][d] + (IF b = From /\ d = tick.box.day THEN 1 ELSE 0)
         /\ \A c \in Campaigns, d \in Days :
              accepted'[c][d] = accepted[c][d] + (IF c = tick.cur /\ d = tick.row.day THEN 1 ELSE 0)
         /\ \A s \in Senders, d \in Days :
              accepted'[s][d] = accepted[s][d] + (IF s = tick.by /\ d = tick.row.day THEN 1 ELSE 0)
<1> DEFINE X == Campaigns \cup Mailboxes \cup Senders
<1>1. accepted \in [X -> [Days -> Nat]]
  BY DEF BudgetInv, Typed, TypeOK
<1>2. InHand
  BY DEF InHand
<1>3. PICK b0 \in Mailboxes, d0 \in Days : b0 = From /\ d0 = tick.box.day
  BY PickedNow, BoxNow
<1>4. PICK c0 \in Campaigns, d1 \in Days : c0 = tick.cur /\ d1 = tick.row.day
  BY <1>2, TickNow
<1>5. PICK s0 \in Senders : s0 = tick.by
  BY PickedNow
<1>6. accepted' = [accepted EXCEPT ![b0][d0] = @ + 1, ![c0][d1] = @ + 1, ![s0][d1] = @ + 1]
  BY <1>3, <1>4, <1>5 DEF Accept
<1>7. b0 \in X /\ c0 \in X /\ s0 \in X /\ b0 # c0 /\ b0 # s0 /\ c0 # s0
  BY IdAssumption
<1>8. /\ accepted' \in [X -> [Days -> Nat]]
      /\ \A z \in Days : accepted'[b0][z] = accepted[b0][z] + (IF z = d0 THEN 1 ELSE 0)
      /\ \A z \in Days : accepted'[c0][z] = accepted[c0][z] + (IF z = d1 THEN 1 ELSE 0)
      /\ \A z \in Days : accepted'[s0][z] = accepted[s0][z] + (IF z = d1 THEN 1 ELSE 0)
      /\ \A y \in X : (y # b0 /\ y # c0 /\ y # s0) => accepted'[y] = accepted[y]
  <2>1. \A y \in X : accepted[y] \in [Days -> Nat]
    BY <1>1
  <2>2. accepted' = [y \in X |-> accepted'[y]]
    BY <1>1, <1>6, <1>7
  <2>3. accepted'[b0] = [accepted[b0] EXCEPT ![d0] = @ + 1]
    BY <1>1, <1>6, <1>7
  <2>4. accepted'[c0] = [accepted[c0] EXCEPT ![d1] = @ + 1]
    BY <1>1, <1>6, <1>7
  <2>5. accepted'[s0] = [accepted[s0] EXCEPT ![d1] = @ + 1]
    BY <1>1, <1>6, <1>7
  <2>6. \A y \in X : (y # b0 /\ y # c0 /\ y # s0) => accepted'[y] = accepted[y]
    BY <1>1, <1>6, <1>7
  <2>7. /\ accepted'[b0] \in [Days -> Nat]
        /\ \A z \in Days : accepted'[b0][z] = accepted[b0][z] + (IF z = d0 THEN 1 ELSE 0)
    BY <1>7, <2>1, <2>3, OneMore
  <2>8. /\ accepted'[c0] \in [Days -> Nat]
        /\ \A z \in Days : accepted'[c0][z] = accepted[c0][z] + (IF z = d1 THEN 1 ELSE 0)
    BY <1>7, <2>1, <2>4, OneMore
  <2>9. /\ accepted'[s0] \in [Days -> Nat]
        /\ \A z \in Days : accepted'[s0][z] = accepted[s0][z] + (IF z = d1 THEN 1 ELSE 0)
    BY <1>7, <2>1, <2>5, OneMore
  <2>10. \A y \in X : accepted'[y] \in [Days -> Nat]
    BY <2>1, <2>6, <2>7, <2>8, <2>9
  <2>11. accepted' \in [X -> [Days -> Nat]]
    <3> HIDE DEF X
    <3> QED  BY <2>2, <2>10
  <2> QED  BY <2>6, <2>7, <2>8, <2>9, <2>11
<1>9. \A y \in X, d \in Days : accepted[y][d] \in Nat
  BY <1>1
<1>10. ASSUME NEW b \in Mailboxes, NEW d \in Days
       PROVE  accepted'[b][d] = accepted[b][d] + (IF b = b0 /\ d = d0 THEN 1 ELSE 0)
  <2>1. b \in X /\ b # c0 /\ b # s0 /\ accepted[b][d] \in Nat
    BY <1>9, IdAssumption
  <2> QED  BY <2>1, <1>8
<1>11. ASSUME NEW c \in Campaigns, NEW d \in Days
       PROVE  accepted'[c][d] = accepted[c][d] + (IF c = c0 /\ d = d1 THEN 1 ELSE 0)
  <2>1. c \in X /\ c # b0 /\ c # s0 /\ accepted[c][d] \in Nat
    BY <1>9, IdAssumption
  <2> QED  BY <2>1, <1>8
<1>12. ASSUME NEW s \in Senders, NEW d \in Days
       PROVE  accepted'[s][d] = accepted[s][d] + (IF s = s0 /\ d = d1 THEN 1 ELSE 0)
  <2>1. s \in X /\ s # b0 /\ s # c0 /\ accepted[s][d] \in Nat
    BY <1>9, IdAssumption
  <2> QED  BY <2>1, <1>8
<1> QED  BY <1>3, <1>4, <1>5, <1>8, <1>10, <1>11, <1>12

\* Whether the answer arrives or not.  The email is on its way to the counters,
\* or it is one of the failures.
LEMMA HandsOff ==
  ASSUME BudgetInv, HandoffAccepted \/ AnswerLost
  PROVE  BudgetInv'
<1>1. /\ tick.pc = "handoff" /\ tables' = tables /\ now' = now /\ task' = task /\ poll' = poll
      /\ shaken' = shaken /\ Accept
      /\ \/ tick' = [tick EXCEPT !.pc = "count"] /\ failures' = failures
         \/ Close(FALSE) /\ failures' = failures + 1
  BY DEF HandoffAccepted, AnswerLost, At, Failing, counters
<1>2. InHand /\ InFlight = 0
  BY <1>1 DEF InHand, InFlight, At
<1>3. PICK cur \in Campaigns : cur = tick.cur /\ tick.todo[cur] = NoRow
  BY <1>2, TickNow
<1>4. PICK row \in CampaignRow : /\ row = tick.row /\ row.day \in Days /\ row.status # "draft"
                                 /\ row.used \in Nat /\ row.day <= CampaignDay(now)
                                 /\ Held(row, accepted[cur], shaken[cur], 0)
                                 /\ row.used < Batch
  BY <1>1, <1>2, <1>3, TickNow, PickedNow
<1>5. PICK from \in Mailboxes, box \in MailboxRow :
        /\ from = From /\ box = tick.box /\ box.day \in Days /\ box.used \in Nat
        /\ box.limit \in Limits /\ box.used < box.limit
        /\ box.day <= UtcDay(now) /\ Held(box, accepted[from], shaken[from], 0)
  BY <1>1, <1>2, PickedNow, BoxNow
<1>6. PICK by \in Senders : by = tick.by
  BY <1>1, PickedNow
<1>7. /\ accepted' \in [Campaigns \cup Mailboxes \cup Senders -> [Days -> Nat]]
      /\ \A b \in Mailboxes, d \in Days :
           accepted'[b][d] = accepted[b][d] + (IF b = from /\ d = box.day THEN 1 ELSE 0)
      /\ \A c \in Campaigns, d \in Days :
           accepted'[c][d] = accepted[c][d] + (IF c = cur /\ d = row.day THEN 1 ELSE 0)
      /\ \A s \in Senders, d \in Days :
           accepted'[s][d] = accepted[s][d] + (IF s = by /\ d = row.day THEN 1 ELSE 0)
  BY <1>1, <1>3, <1>4, <1>5, <1>6, Accepts
<1>8. /\ shaken \in [Campaigns \cup Mailboxes -> [Days -> Nat]] /\ failures \in Nat
      /\ failures' \in Nat /\ failures <= failures'
      /\ \A x \in Campaigns \cup Mailboxes \cup Senders, d \in Days : accepted[x][d] \in Nat
      /\ \A x \in Campaigns \cup Mailboxes, d \in Days : shaken[x][d] \in Nat
  <2>1. /\ \A x \in Campaigns \cup Mailboxes \cup Senders, d \in Days : accepted[x][d] \in Nat
        /\ \A x \in Campaigns \cup Mailboxes, d \in Days : shaken[x][d] \in Nat
        /\ failures \in Nat
    BY Counts DEF BudgetInv
  <2>3. failures' \in {failures, failures + 1}
    BY <1>1
  <2>2. failures' \in Nat /\ failures <= failures'
    BY <2>1, <2>3
  <2> QED  BY <2>1, <2>2 DEF BudgetInv, Typed, TypeOK
<1>9. /\ tick' \in Ticks /\ tick'.todo = tick.todo
      /\ tick'.cur = cur /\ tick'.row = row /\ tick'.rows = tick.rows /\ tick'.by = by
      /\ \/ tick'.pc = "count" /\ tick'.box = box /\ failures' = failures
         \/ tick'.pc = "close" /\ ~tick'.sent /\ failures' = failures + 1
  <2>1. CASE tick' = [tick EXCEPT !.pc = "count"] /\ failures' = failures
    BY <2>1, <1>3, <1>4, <1>5, <1>6, TickNow DEF Ticks, Places
  <2>2. CASE Close(FALSE) /\ failures' = failures + 1
    BY <2>2, <1>3, <1>4, <1>6, TickNow DEF Close, Ticks, Places
  <2> QED  BY <2>1, <2>2, <1>1
<1>10. mailbox' = mailbox /\ campaign' = campaign /\ sender' = sender
  BY <1>1 DEF tables
<1>11. Typed'
  BY <1>1, <1>7, <1>8, <1>9, <1>10, TablesNow, TickTyped
<1>12. now <= now'
  BY <1>1, Counts DEF BudgetInv
<1>13. From' = from
  BY <1>5, <1>6, <1>9 DEF From
<1>14. ASSUME NEW b \in Mailboxes PROVE BoxStep(b)
  <2>1. ASSUME NEW d \in Days
        PROVE  /\ accepted[b][d] <= accepted'[b][d]
               /\ accepted'[b][d] + shaken[b][d] + failures + BoxFlight(b, d)
                    <= accepted[b][d] + shaken'[b][d] + failures' + BoxFlight(b, d)'
    <3>1. BoxFlight(b, d) = 0
      BY <1>1 DEF BoxFlight, At
    <3>2. BoxFlight(b, d)' = IF tick'.pc = "count" /\ b = from /\ d = box.day THEN 1 ELSE 0
      BY <1>9, <1>13 DEF BoxFlight, At
    <3>3. accepted'[b][d] = accepted[b][d] + (IF b = from /\ d = box.day THEN 1 ELSE 0)
      BY <1>7
    <3>4. /\ accepted[b][d] \in Nat /\ shaken[b][d] \in Nat /\ shaken'[b][d] = shaken[b][d]
          /\ (failures' = failures /\ tick'.pc = "count") \/ failures' = failures + 1
      BY <1>1, <1>8, <1>9
    <3> QED  BY <3>1, <3>2, <3>3, <3>4, <1>8
  <2> QED  BY <2>1, <1>11, <1>12, BoxStepIf DEF BudgetInv
<1>15. ASSUME NEW c \in Campaigns PROVE RowStep(c)
  <2>1. ASSUME NEW d \in Days
        PROVE  /\ accepted[c][d] <= accepted'[c][d]
               /\ accepted'[c][d] + shaken[c][d] + failures + RowFlight(c, d)
                    <= accepted[c][d] + shaken'[c][d] + failures' + RowFlight(c, d)'
    <3>1. RowFlight(c, d) = 0
      BY <1>1 DEF RowFlight, At
    <3>2. RowFlight(c, d)' = IF tick'.pc = "count" /\ c = cur /\ d = row.day THEN 1 ELSE 0
      BY <1>9 DEF RowFlight, At
    <3>3. accepted'[c][d] = accepted[c][d] + (IF c = cur /\ d = row.day THEN 1 ELSE 0)
      BY <1>7
    <3>4. /\ accepted[c][d] \in Nat /\ shaken[c][d] \in Nat /\ shaken'[c][d] = shaken[c][d]
          /\ (failures' = failures /\ tick'.pc = "count") \/ failures' = failures + 1
      BY <1>1, <1>8, <1>9
    <3> QED  BY <3>1, <3>2, <3>3, <3>4, <1>8
  <2> QED  BY <2>1, <1>11, <1>12, RowStepIf DEF BudgetInv
<1>16. SendersStep
  <2> SUFFICES ASSUME NEW s \in Senders, NEW d \in Days
               PROVE  accepted[s][d] \in Nat /\ accepted'[s][d] \in Nat /\ accepted[s][d] <= accepted'[s][d]
    BY DEF SendersStep
  <2>1. /\ accepted[s][d] \in Nat
        /\ accepted'[s][d] = accepted[s][d] + (IF s = by /\ d = row.day THEN 1 ELSE 0)
    BY <1>7, <1>8
  <2> QED  BY <2>1
<1>17. TablesFit' /\ CopiesFit'
  BY <1>1, <1>14, <1>15, <1>16, SameTables, CopiesKept DEF BudgetInv
<1>18. TodoFits'
  <2> SUFFICES ASSUME NEW c \in Campaigns, tick'.todo[c] # NoRow
               PROVE  /\ RowFits(c, tick.todo[c].row)'
                      /\ tick'.todo[c].row.status # "draft"
                      /\ SendersFit(tick'.todo[c].rows, accepted')
    BY DEF TodoFits
  <2> QED  BY <1>9, <1>15, <1>16, SameTodo DEF BudgetInv
<1>19. Tomorrow'
  <2>1. ASSUME NEW b \in Mailboxes, NEW d \in Days, d > UtcDay(now) PROVE accepted'[b][d] = 0
    <3>1. accepted[b][d] = 0
      BY <2>1 DEF BudgetInv, Tomorrow, Nothing
    <3>2. UtcDay(now) \in Nat /\ d \in Nat /\ box.day \in Nat
      BY <1>5, CountsOf, DaysAreNat DEF BudgetInv
    <3>3. d # box.day
      BY <2>1, <3>2, <1>5
    <3> QED  BY <3>1, <3>3, <1>7
  <2>2. ASSUME NEW c \in Campaigns, NEW d \in Days, d > CampaignDay(now) PROVE accepted'[c][d] = 0
    <3>1. accepted[c][d] = 0
      BY <2>2 DEF BudgetInv, Tomorrow, Nothing
    <3>2. CampaignDay(now) \in Nat /\ d \in Nat /\ row.day \in Nat
      BY <1>4, CountsOf, DaysAreNat DEF BudgetInv
    <3>3. d # row.day
      BY <2>2, <3>2, <1>4
    <3> QED  BY <3>1, <3>3, <1>7
  <2> QED  BY <2>1, <2>2, <1>1 DEF Tomorrow, Nothing, UtcDay, CampaignDay
<1>20. InFlight' = (IF tick'.pc = "count" THEN 1 ELSE 0)
  BY DEF InFlight, At
<1>21. Held(row, accepted[cur], shaken[cur], InFlight)'
  <2>1. accepted'[cur][row.day] = accepted[cur][row.day] + 1
    BY <1>4, <1>7
  <2>2. Nothing(accepted'[cur], row.day)
    <3> SUFFICES ASSUME NEW d \in Days, d > row.day PROVE accepted'[cur][d] = 0
      BY DEF Nothing
    <3>1. accepted[cur][d] = 0 /\ d # row.day
      BY <1>4, DaysAreNat DEF Held, Nothing
    <3> QED  BY <3>1, <1>7
  <2>3. accepted[cur][row.day] \in Nat /\ shaken[cur][row.day] \in Nat
    BY <1>4, <1>8
  <2> QED  BY <2>1, <2>2, <2>3, <1>1, <1>4, <1>8, <1>9, <1>20 DEF Held
<1>22. tick'.pc = "count" => Held(box, accepted[from], shaken[from], InFlight)'
  <2>1. accepted'[from][box.day] = accepted[from][box.day] + 1
    BY <1>5, <1>7
  <2>2. Nothing(accepted'[from], box.day)
    <3> SUFFICES ASSUME NEW d \in Days, d > box.day PROVE accepted'[from][d] = 0
      BY DEF Nothing
    <3>1. accepted[from][d] = 0 /\ d # box.day
      BY <1>5, DaysAreNat DEF Held, Nothing
    <3> QED  BY <3>1, <1>7
  <2>3. accepted[from][box.day] \in Nat /\ shaken[from][box.day] \in Nat
    BY <1>5, <1>8
  <2> QED  BY <2>1, <2>2, <2>3, <1>1, <1>5, <1>8, <1>9, <1>20 DEF Held
<1>23. SendersFit(tick.rows, accepted')
  BY <1>2, <1>16, TickNow, SendersGrow DEF SendersStep
<1>24. HandFits'
  <2>1. CampaignHeld'
    BY <1>1, <1>3, <1>4, <1>9, <1>21, <1>23 DEF CampaignHeld, Held, CampaignDay
  <2>2. SendersHeld' /\ SenderPicked'
    <3>1. Active(tick.rows)' = Active(tick.rows)
      BY <1>9
    <3> QED  BY <3>1, <1>1, <1>4, <1>6, <1>9, PickedNow DEF SendersHeld, SenderPicked
  <2>3. MailboxHeld'
    <3>1. CASE tick'.pc = "count"
      BY <3>1, <1>1, <1>5, <1>9, <1>13, <1>22 DEF MailboxHeld, Held, UtcDay
    <3>2. CASE tick'.pc # "count"
      BY <3>2, <1>9 DEF MailboxHeld
    <3> QED  BY <3>1, <3>2
  <2>4. SenderCharged'
    <3>1. tick.rows[by].used <= accepted[by][row.day] /\ tick.rows[by].used \in Nat
      <4>1. tick.rows[by] # NoRow /\ tick.rows[by].day = row.day /\ tick.rows[by].used \in Nat
        BY <1>1, <1>4, <1>6, PickedNow
      <4>2. row.day # None
        BY <1>4, DaysAreNat
      <4> QED  BY <4>1, <4>2, <1>2, TickNow DEF SendersFit
    <3>2. accepted'[by][row.day] = accepted[by][row.day] + 1 /\ accepted[by][row.day] \in Nat
      BY <1>4, <1>7, <1>8
    <3> QED  BY <3>1, <3>2, <1>9 DEF SenderCharged
  <2> QED  BY <2>1, <2>2, <2>3, <2>4 DEF HandFits
<1>25. LimitsKept'
  <2>1. ASSUME NEW b \in Mailboxes, NEW d \in Days
        PROVE  accepted'[b][d] <= Max(Limits) + shaken'[b][d] + failures'
    <3>1. accepted[b][d] <= Max(Limits) + shaken[b][d] + failures
      BY DEF BudgetInv, LimitsKept, MailboxLimitKept
    <3>2. accepted[b][d] \in Nat /\ shaken[b][d] \in Nat /\ shaken'[b][d] = shaken[b][d]
      BY <1>1, <1>8
    <3>3. CASE b = from /\ d = box.day
      <4>1. accepted'[b][d] = accepted[b][d] + 1
        BY <3>3, <1>7
      <4>2. accepted[b][d] <= box.used + shaken[b][d] + failures + 0
        BY <3>3, <1>5 DEF Held
      <4>3. box.limit <= Max(Limits) /\ box.limit \in Nat /\ Max(Limits) \in Nat
        BY <1>5, LimitBound, BudgetAssumption
      <4> QED  BY <4>1, <4>2, <4>3, <3>2, <1>5, <1>8
    <3>4. CASE ~ (b = from /\ d = box.day)
      <4>1. accepted'[b][d] = accepted[b][d]
        BY <3>2, <3>4, <1>7
      <4> QED  BY <4>1, <3>1, <3>2, <1>8, LimitBound
    <3> QED  BY <3>3, <3>4
  <2>2. ASSUME NEW c \in Campaigns, NEW d \in Days
        PROVE  accepted'[c][d] <= Batch + shaken'[c][d] + failures'
    <3>1. accepted[c][d] <= Batch + shaken[c][d] + failures
      BY DEF BudgetInv, LimitsKept, BatchKept
    <3>2. /\ accepted[c][d] \in Nat /\ shaken[c][d] \in Nat /\ shaken'[c][d] = shaken[c][d]
          /\ Batch \in Nat
      BY <1>1, <1>8, BudgetAssumption
    <3>3. CASE c = cur /\ d = row.day
      <4>1. accepted'[c][d] = accepted[c][d] + 1
        BY <3>3, <1>7
      <4>2. accepted[c][d] <= row.used + shaken[c][d] + failures + 0
        BY <3>3, <1>4 DEF Held
      <4> QED  BY <4>1, <4>2, <3>2, <1>4, <1>8
    <3>4. CASE ~ (c = cur /\ d = row.day)
      <4>1. accepted'[c][d] = accepted[c][d]
        BY <3>2, <3>4, <1>7
      <4> QED  BY <4>1, <3>1, <3>2, <1>8
    <3> QED  BY <3>3, <3>4
  <2> QED  BY <2>1, <2>2 DEF LimitsKept, MailboxLimitKept, BatchKept
<1> QED  BY <1>11, <1>17, <1>18, <1>19, <1>24, <1>25 DEF BudgetInv

-----------------------------------------------------------------------------
\* Failures, the clock, and a restart

LEMMA SendFails ==
  ASSUME BudgetInv, HandoffRefused \/ CountFails
  PROVE  BudgetInv'
BY ClosesEmpty DEF HandoffRefused, CountFails, Failing, At, counters

LEMMA RowsSame ==
  ASSUME BudgetInv, tables' = tables, task' = task, poll' = poll, tick' = tick,
         history' = history, failures' = failures, now' \in 0..MaxNow, now <= now'
  PROVE  BudgetInv'
<1>1. /\ mailbox' = mailbox /\ campaign' = campaign /\ sender' = sender
      /\ accepted' = accepted /\ shaken' = shaken
  BY DEF tables, history
<1>2. Typed'
  BY <1>1 DEF BudgetInv, Typed, TypeOK
<1>3. failures \in Nat
  BY Counts DEF BudgetInv
<1>4. /\ \A b \in Mailboxes : \E row \in MailboxRow : row = mailbox'[b] /\ BoxFits(b, row)
      /\ \A c \in Campaigns : \E row \in CampaignRow : row = campaign'[c] /\ RowFits(c, row)
      /\ SendersFit(sender', accepted)
  BY <1>1, RowsNow
<1>5. /\ \A m \in Monitors, b \in Mailboxes : poll'[m][b] # NoRow =>
           \E row \in MailboxRow : row = poll'[m][b] /\ BoxFits(b, row)
      /\ \A w \in Workers : \E handler : handler = task'[w] /\ CopyFits(handler)
  BY RowsNow
<1> QED  BY <1>2, <1>3, <1>4, <1>5, OthersAct

LEMMA Advances ==
  ASSUME BudgetInv, Advance
  PROVE  BudgetInv'
<1>1. now' \in 0..MaxNow /\ now <= now'
  BY Counts, BudgetAssumption DEF BudgetInv, Advance
<1> QED  BY <1>1, RowsSame DEF Advance, counters

LEMMA Stutters ==
  ASSUME BudgetInv, UNCHANGED vars
  PROVE  BudgetInv'
<1>1. now' \in 0..MaxNow /\ now <= now'
  BY Counts DEF BudgetInv, vars
<1> QED  BY <1>1, RowsSame DEF vars, counters

\* Whatever was in memory is gone; an email on its way to the counters is one
\* of the failures.
LEMMA Restarts ==
  ASSUME BudgetInv, Restart
  PROVE  BudgetInv'
<1>1. /\ tables' = tables /\ now' = now /\ history' = history
      /\ failures' = failures + 1 /\ tick' = Resting
      /\ task' = [w \in Workers |-> Idle]
      /\ poll' = [m \in Monitors |-> NoMailboxes]
  BY DEF Restart, Failing
<1>2. /\ mailbox' = mailbox /\ campaign' = campaign /\ sender' = sender
      /\ accepted' = accepted /\ shaken' = shaken
  BY <1>1 DEF tables, history
<1>3. failures \in Nat /\ failures' \in Nat /\ failures <= failures'
  BY <1>1, Counts DEF BudgetInv
<1>4. /\ tick' \in Ticks /\ tick'.pc = "idle"
      /\ \A c \in Campaigns : tick'.todo[c] = NoRow
  BY <1>1, RestingTyped DEF Resting
<1>5. \A m \in Monitors, b \in Mailboxes : poll'[m][b] = NoRow
  BY <1>1 DEF NoMailboxes
<1>6. \A w \in Workers : task'[w] = Idle
  BY <1>1
<1>7. Typed'
  <2>1. poll' \in [Monitors -> [Mailboxes -> MailboxRow \cup {NoRow}]]
    BY <1>1 DEF NoMailboxes
  <2>2. task' \in [Workers -> Handlers]
    BY <1>1, IdleFits
  <2> QED  BY <2>1, <2>2, <1>1, <1>2, <1>3, <1>4 DEF BudgetInv, Typed, TypeOK
<1>8. Still
  BY <1>1, StillIf DEF BudgetInv
<1>9. /\ \A b \in Mailboxes : BoxStep(b)
      /\ \A c \in Campaigns : RowStep(c)
      /\ SendersStep
  BY <1>7, <1>8, StillSteps DEF BudgetInv
<1>10. TablesFit'
  BY <1>1, <1>9, SameTables DEF BudgetInv
<1>11. CopiesFit'
  <2>1. ASSUME NEW w \in Workers PROVE CopyFits(task[w])'
    <3>1. task'[w] \notin Editing /\ task'[w] \notin MailboxEditing
      BY <1>6, IdleFits
    <3> QED  BY <3>1 DEF CopyFits
  <2> QED  BY <2>1, <1>5 DEF CopiesFit
<1>12. TodoFits'
  BY <1>4 DEF TodoFits
<1>13. Tomorrow'
  BY <1>1, <1>2 DEF BudgetInv, Tomorrow, Nothing, UtcDay, CampaignDay
<1>14. HandFits'
  BY <1>4, EmptyHand
<1>15. LimitsKept'
  <2>1. \A y \in Campaigns \cup Mailboxes, d \in Days : shaken[y][d] <= shaken'[y][d]
    BY <1>2, Counts DEF BudgetInv
  <2> QED  BY <2>1, <1>2, <1>3, <1>7, LimitsStay
<1> QED  BY <1>7, <1>10, <1>11, <1>12, <1>13, <1>14, <1>15 DEF BudgetInv

-----------------------------------------------------------------------------
LEMMA InitBudget == Init => BudgetInv
<1> SUFFICES ASSUME Init PROVE BudgetInv
  OBVIOUS
<1>1. /\ now = 0 /\ tick = Resting /\ failures = 0
      /\ task = [w \in Workers |-> Idle]
      /\ poll = [m \in Monitors |-> NoMailboxes]
      /\ accepted = [x \in Campaigns \cup Mailboxes \cup Senders |-> [d \in Days |-> 0]]
      /\ shaken = [x \in Campaigns \cup Mailboxes |-> [d \in Days |-> 0]]
  BY DEF Init
<1>2. \A b \in Mailboxes : \E l \in Limits :
        mailbox[b] = [limit |-> l, active |-> TRUE, used |-> 0, day |-> None]
  BY DEF Init
<1>3. /\ mailbox \in [Mailboxes -> MailboxRow]
      /\ \A b \in Mailboxes : mailbox[b].used = 0 /\ mailbox[b].day = None
  <2>1. mailbox = [b \in Mailboxes |-> mailbox[b]]
    BY DEF Init
  <2>2. \A b \in Mailboxes : mailbox[b] \in MailboxRow /\ mailbox[b].used = 0 /\ mailbox[b].day = None
    <3> SUFFICES ASSUME NEW b \in Mailboxes
                 PROVE  mailbox[b] \in MailboxRow /\ mailbox[b].used = 0 /\ mailbox[b].day = None
      OBVIOUS
    <3>1. PICK l \in Limits : mailbox[b] = [limit |-> l, active |-> TRUE, used |-> 0, day |-> None]
      BY <1>2
    <3> QED  BY <3>1 DEF MailboxRow
  <2> QED  BY <2>1, <2>2
<1>4. /\ campaign \in [Campaigns -> CampaignRow]
      /\ \A c \in Campaigns : campaign[c].used = 0 /\ campaign[c].day = None
  <2> SUFFICES ASSUME NEW c \in Campaigns
               PROVE  campaign[c] \in CampaignRow /\ campaign[c].used = 0 /\ campaign[c].day = None
    BY DEF Init
  <2>1. PICK status \in {"scheduled", "draft"}, launched \in BOOLEAN :
          campaign[c] = [status |-> status, before |-> None, until |-> FALSE,
                         launched |-> launched, used |-> 0, day |-> None]
    <3>1. (c \in Running) \in BOOLEAN
      OBVIOUS
    <3>2. (IF c \in Running THEN "scheduled" ELSE "draft") \in {"scheduled", "draft"}
      OBVIOUS
    <3> QED  BY <3>1, <3>2 DEF Init
  <2>2. status \in CampaignStatuses
    BY DEF CampaignStatuses, RunningStatuses
  <2> QED  BY <2>1, <2>2 DEF CampaignRow
<1>5. /\ sender \in [Senders -> SenderRow \cup {NoRow}]
      /\ \A s \in Senders : sender[s] # NoRow => sender[s].day = None
  <2>1. ASSUME NEW s \in DOMAIN FirstSenders
        PROVE  /\ NewSender(FirstSenders[s].of, FirstSenders[s].mailbox, None) \in SenderRow
               /\ NewSender(FirstSenders[s].of, FirstSenders[s].mailbox, None).day = None
    <3>1. FirstSenders[s].of \in Campaigns /\ FirstSenders[s].mailbox \in Mailboxes
      BY BudgetAssumption
    <3> QED  BY <3>1 DEF NewSender, SenderRow
  <2>2. \A s \in Senders : sender[s] = IF s \in DOMAIN FirstSenders
                 THEN NewSender(FirstSenders[s].of, FirstSenders[s].mailbox, None)
                 ELSE NoRow
    BY DEF Init
  <2>3. sender = [s \in Senders |-> sender[s]]
    BY DEF Init
  <2>4. \A s \in Senders : /\ sender[s] \in SenderRow \cup {NoRow}
                           /\ sender[s] # NoRow => sender[s].day = None
    BY <2>1, <2>2
  <2> QED  BY <2>3, <2>4
<1>6. /\ tick \in Ticks /\ tick.pc = "idle" /\ \A c \in Campaigns : tick.todo[c] = NoRow
  BY <1>1, RestingTyped DEF Resting
<1>7. Typed
  <2>1. poll \in [Monitors -> [Mailboxes -> MailboxRow \cup {NoRow}]]
    BY <1>1 DEF NoMailboxes
  <2>2. task \in [Workers -> Handlers]
    BY <1>1, IdleFits
  <2>3. now \in 0..MaxNow
    BY <1>1, BudgetAssumption
  <2>4. /\ accepted \in [Campaigns \cup Mailboxes \cup Senders -> [Days -> Nat]]
        /\ shaken \in [Campaigns \cup Mailboxes -> [Days -> Nat]]
    BY <1>1
  <2> QED  BY <2>1, <2>2, <2>3, <2>4, <1>1, <1>3, <1>4, <1>5, <1>6 DEF Typed, TypeOK
<1>8. /\ \A x \in Campaigns \cup Mailboxes \cup Senders, d \in Days : accepted[x][d] = 0
      /\ \A x \in Campaigns \cup Mailboxes, d \in Days : shaken[x][d] = 0
  BY <1>1
<1>9. TablesFit
  <2>1. ASSUME NEW b \in Mailboxes PROVE BoxFits(b, mailbox[b])
    <3>1. ASSUME NEW d \in Days PROVE accepted[b][d] <= Used(mailbox[b], d) + BoxLost(b)[d]
      <4>1. accepted[b][d] = 0 /\ Used(mailbox[b], d) = 0 /\ BoxLost(b)[d] \in Nat
        BY <1>3, <1>7, <1>8, LostNow DEF Used
      <4> QED  BY <4>1
    <3> QED  BY <3>1, <1>3 DEF BoxFits, Fits
  <2>2. ASSUME NEW c \in Campaigns PROVE RowFits(c, campaign[c])
    <3>1. ASSUME NEW d \in Days PROVE accepted[c][d] <= Used(campaign[c], d) + RowLost(c)[d]
      <4>1. accepted[c][d] = 0 /\ Used(campaign[c], d) = 0 /\ RowLost(c)[d] \in Nat
        BY <1>4, <1>7, <1>8, LostNow DEF Used
      <4> QED  BY <4>1
    <3> QED  BY <3>1, <1>4 DEF RowFits, Fits
  <2>3. SendersFit(sender, accepted)
    BY <1>5 DEF SendersFit
  <2> QED  BY <2>1, <2>2, <2>3 DEF TablesFit
<1>10. CopiesFit
  <2>1. \A w \in Workers : CopyFits(task[w])
    BY <1>1, IdleFits
  <2>2. \A m \in Monitors, b \in Mailboxes : poll[m][b] = NoRow
    BY <1>1 DEF NoMailboxes
  <2> QED  BY <2>1, <2>2 DEF CopiesFit
<1>11. TodoFits
  BY <1>6 DEF TodoFits
<1>12. Tomorrow
  BY <1>8 DEF Tomorrow, Nothing
<1>13. HandFits
  BY <1>6 DEF HandFits, CampaignHeld, SendersHeld, SenderPicked, MailboxHeld, SenderCharged, At
<1>14. LimitsKept
  <2>1. ASSUME NEW b \in Mailboxes, NEW d \in Days
        PROVE  accepted[b][d] <= Max(Limits) + shaken[b][d] + failures
    BY <1>1, <1>8, LimitBound
  <2>2. ASSUME NEW c \in Campaigns, NEW d \in Days
        PROVE  accepted[c][d] <= Batch + shaken[c][d] + failures
    BY <1>1, <1>8, BudgetAssumption
  <2> QED  BY <2>1, <2>2 DEF LimitsKept, MailboxLimitKept, BatchKept
<1> QED  BY <1>7, <1>9, <1>10, <1>11, <1>12, <1>13, <1>14 DEF BudgetInv

LEMMA NextBudget == BudgetInv /\ [Next]_vars => BudgetInv'
<1> SUFFICES ASSUME BudgetInv, [Next]_vars PROVE BudgetInv'
  OBVIOUS
<1>1. CASE SchedulerStep
  <2>1. CASE \/ ReadExpiredPauses \/ ResumeExpiredPauses \/ LoadCampaigns \/ EndTick
             \/ \E c \in Campaigns : SkipCampaign(c)
    BY <2>1, OpenSteps
  <2>2. CASE \E c \in Campaigns : ProcessCampaign(c)
    BY <2>2, Processes
  <2>3. CASE LoadMailboxes \/ ReadMailbox \/ RefreshSendToken
    BY <2>3, LoadsMailboxes, ReadsMailbox, RefreshesToken
  <2>4. CASE HandoffAccepted \/ HandoffRefused \/ CountMailbox
    BY <2>4, HandsOff, SendFails, CountsMailbox
  <2>5. CASE SaveCampaign \/ PersistSender \/ RefreshStatus
    BY <2>5, SavesCampaign, PersistsSender, RefreshesStatus
  <2> QED  BY <1>1, <2>1, <2>2, <2>3, <2>4, <2>5 DEF SchedulerStep
<1>2. CASE AnswerLost \/ CountFails \/ TickFails
  BY <1>2, HandsOff, SendFails, OpenSteps
<1>3. CASE \E m \in Monitors : PollStep(m)
  BY <1>3, PollSteps
<1>4. CASE \E w \in Workers : Request(w) \/ HandlerStep(w) \/ HandlerFails(w)
  BY <1>4, Requests, HandlerSteps
<1>5. CASE Advance \/ Restart
  BY <1>5, Advances, Restarts
<1>6. CASE UNCHANGED vars
  BY <1>6, Stutters
<1> QED  BY <1>1, <1>2, <1>3, <1>4, <1>5, <1>6 DEF Next

\* Whatever the scheduler, the monitors and the operators save over each other,
\* no row takes a value outside its table, and the counts of what was sent are
\* counts of known rows on known days.
THEOREM BudgetTyped == Spec => []TypeOK
<1>1. BudgetInv => TypeOK
  BY DEF BudgetInv, Typed
<1> QED  BY <1>1, InitBudget, NextBudget, PTL DEF Spec

\* A mailbox sends more than the highest dailySendLimit on a day (midnight UTC)
\* by no more emails than were counted while a monitor or an operator had a copy
\* of its row, or were lost to a call that failed: for any number of campaigns,
\* mailboxes, monitors and handlers, any limits, and any offset of the campaigns'
\* midnight.
THEOREM MailboxLimitHolds == Spec => []MailboxLimitKept
<1>1. BudgetInv => MailboxLimitKept
  BY DEF BudgetInv, LimitsKept
<1> QED  BY <1>1, InitBudget, NextBudget, PTL DEF Spec

\* A campaign sends more than its dailyBatchSize on one of its days by no more
\* emails than were counted while a handler was saving the campaign or a sender
\* was added under the scheduler, or were lost to a call that failed.
THEOREM BatchHolds == Spec => []BatchKept
<1>1. BudgetInv => BatchKept
  BY DEF BudgetInv, LimitsKept
<1> QED  BY <1>1, InitBudget, NextBudget, PTL DEF Spec

\* A counter in a table never says more than was sent on its day: saving a copy
\* that is out of date gives capacity back and never takes any away.
THEOREM CountersNeverOvercharge == Spec => []NeverOvercharged
<1>1. BudgetInv => NeverOvercharged
  BY DEF BudgetInv, TablesFit, BoxFits, RowFits, Fits, SendersFit, NeverOvercharged
<1> QED  BY <1>1, InitBudget, NextBudget, PTL DEF Spec

=============================================================================
