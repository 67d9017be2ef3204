---------------------------- MODULE CampaignPlans ----------------------------
(***************************************************************************)
(* The days a campaign's recipients are planned for: schedule spreads the  *)
(* audience over the calendar, addRecipient puts one more recipient after  *)
(* the others, by the audienceCount of the campaign it has read.  Editing  *)
(* a campaign saves all the columns that were read, too, and so does the   *)
(* scheduler, which reads every campaign that is due when a run begins and *)
(* saves each after it has worked on it.                                   *)
(***************************************************************************)
EXTENDS DeleteRequests, SendCalendar, Sequences

CONSTANTS
    Calendars,      \* what schedule requests ask for
    Audiences,      \* how many recipients an audience list resolves to
    Draft           \* a campaign that is not scheduled

VARIABLE plan       \* campaign |-> its schedule and its recipients' days

Campaigns == {i \in Items : Kind[i] = "campaigns"}

Planned ==
    [calendar : Calendars,
     end : Nat,                 \* estimatedEndAt
     count : Nat,               \* audienceCount
     days : Seq(Nat),           \* nextSendAt of each recipient's first email
     listed : Nat,              \* history: how many the audience list gave
     overlap : BOOLEAN]         \* history: a stale copy was saved over it

\* The row of the campaign, without its recipients
CampaignRow == [calendar : Calendars, end : Nat, count : Nat]
AllSettings == CampaignRow \cup {Draft}

ASSUME PlanAssumption ==
    /\ \A c \in Calendars : IsCalendar(c)
    /\ Audiences \subseteq Nat \ {0}
    /\ Draft \notin Planned \cup CampaignRow

Settings(p) ==
    IF p = Draft THEN Draft
    ELSE [calendar |-> p.calendar, end |-> p.end, count |-> p.count]

\* A plan whose row was saved from the copy seen: the recipients stay.
Overwritten(p, seen) ==
    IF seen = Settings(p) THEN p
    ELSE IF seen = Draft THEN Draft
    ELSE [calendar |-> seen.calendar, end |-> seen.end, count |-> seen.count,
          days |-> IF p = Draft THEN <<>> ELSE p.days,
          listed |-> IF p = Draft THEN 0 ELSE p.listed,
          overlap |-> TRUE]

PlanCalls ==
         [op : {"saveSchedule"}, item : Campaigns, calendar : Calendars,
          audience : Audiences]
    \cup [op : {"saveRecipient", "saveCampaign", "saveTicked"}, item : Campaigns,
          seen : AllSettings]

Schedule(w, i, calendar, n) ==
    /\ item[i] = "live"
    /\ plan[i] = Draft
    /\ Begin(w, [op |-> "saveSchedule", item |-> i, calendar |-> calendar,
                 audience |-> n])
    /\ UNCHANGED <<removalVars, plan>>

Spread(n, calendar) == [k \in 1..n |-> PlannedDay(k - 1, calendar)]

\* scheduleCampaignWithRecipients replaces the recipients.  The foreign key
\* refuses them if the campaign has been deleted.
SaveSchedule(w) ==
    /\ call[w].op = "saveSchedule"
    /\ LET i == call[w].item
           c == call[w].calendar
           n == call[w].audience
       IN  plan' = IF item[i] = "live"
                   THEN [plan EXCEPT ![i] =
                           [calendar |-> c, end |-> EndDay(n, c), count |-> n,
                            days |-> Spread(n, c), listed |-> n, overlap |-> FALSE]]
                   ELSE plan
    /\ Return(w)
    /\ UNCHANGED removalVars

AddRecipient(w, i) ==
    /\ item[i] = "live"
    /\ plan[i] # Draft
    /\ Begin(w, [op |-> "saveRecipient", item |-> i, seen |-> Settings(plan[i])])
    /\ UNCHANGED <<removalVars, plan>>

\* One more recipient, who comes after those that the copy counts
WithOneMore(p, seen) ==
    [p EXCEPT !.count = @ + 1,
              !.days = Append(@, PlannedDay(seen.count, seen.calendar))]

\* addCampaignRecipient inserts the recipient and saves the campaign as it
\* was read, with one more recipient.
SaveRecipient(w) ==
    /\ call[w].op = "saveRecipient"
    /\ LET i == call[w].item
           seen == call[w].seen
       IN  plan' =
             IF item[i] = "live"
             THEN [plan EXCEPT ![i] = WithOneMore(Overwritten(@, seen), seen)]
             ELSE plan
    /\ Return(w)
    /\ UNCHANGED removalVars

\* update of a campaign, without new steps or senders
UpdateCampaign(w, i) ==
    /\ item[i] = "live"
    /\ Begin(w, [op |-> "saveCampaign", item |-> i, seen |-> Settings(plan[i])])
    /\ UNCHANGED <<removalVars, plan>>

SaveCampaign(w) ==
    /\ call[w].op = "saveCampaign"
    /\ Restored(call[w].item)
    /\ plan' = [plan EXCEPT ![call[w].item] = Overwritten(@, call[w].seen)]
    /\ Return(w)

\* handleScheduledCampaigns has loaded the campaign, among others.
TickCampaign(w, i) ==
    /\ item[i] = "live"
    /\ plan[i] # Draft
    /\ Begin(w, [op |-> "saveTicked", item |-> i, seen |-> Settings(plan[i])])
    /\ UNCHANGED <<removalVars, plan>>

\* processCampaign saves its copy, and refreshCampaignStatus may again.
SaveTicked(w) ==
    /\ call[w].op = "saveTicked"
    /\ Restored(call[w].item)
    /\ plan' = [plan EXCEPT ![call[w].item] = Overwritten(@, call[w].seen)]
    /\ Return(w) \/ UNCHANGED slotVars

\* The recipients go with their campaign (ON DELETE CASCADE).
PlansCascade ==
    plan' = [i \in Campaigns |-> IF item'[i] = "live" THEN plan[i] ELSE Draft]

PlanStep(w) ==
    \/ \E i \in Campaigns :
        \/ \E c \in Calendars, n \in Audiences : Schedule(w, i, c, n)
        \/ AddRecipient(w, i)
        \/ UpdateCampaign(w, i)
        \/ TickCampaign(w, i)
    \/ SaveSchedule(w)
    \/ SaveRecipient(w)
    \/ SaveCampaign(w)
    \/ SaveTicked(w)

PlanTypeOK ==
    plan \in [Campaigns -> Planned \cup {Draft}]

-----------------------------------------------------------------------------
SentOn(day, p) == {k \in DOMAIN p.days : p.days[k] = day}

(***************************************************************************)
(* The plan of a campaign, unless a stale copy of its row was saved over   *)
(* it: by a request that overlapped with another, or by the scheduler,     *)
(* which writes the audienceCount of the copy it loaded over that of a     *)
(* recipient who was added during its run.  Otherwise every recipient is   *)
(* counted; the audience list is served by estimatedEndAt; no              *)
(* day after the launch gets more recipients than the batch, or falls on   *)
(* an inactive weekday, and no active day before the last is left with     *)
(* room.  The launch day gets up to two batches, and is used even if it is *)
(* inactive: computeInitialNextSendAt hands a zero-based index to          *)
(* addActiveDays, which counts the launch day as day 1 when it is active.  *)
(***************************************************************************)
PlanKept ==
    \A i \in Campaigns :
        LET p == plan[i]
            c == p.calendar
        IN  (p # Draft /\ ~p.overlap) =>
              /\ p.count = Len(p.days)
              /\ \A k \in 1..p.listed : p.days[k] <= p.end
              /\ \A k \in DOMAIN p.days :
                    LET day == p.days[k]
                    IN  IF day = c.launch
                        THEN Cardinality(SentOn(day, p)) <=
                                IF ActiveDay(day, c) THEN 2 * c.batch ELSE c.batch
                        ELSE /\ ActiveDay(day, c)
                             /\ Cardinality(SentOn(day, p)) <= c.batch
                             /\ \A d \in c.launch .. (day - 1) :
                                  ActiveDay(d, c) =>
                                      Cardinality(SentOn(d, p)) >= c.batch
=============================================================================
