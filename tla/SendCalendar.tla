---------------------------- MODULE SendCalendar ----------------------------
(***************************************************************************)
(* On which days a campaign sends its first emails.  A day is a number, in *)
(* the timezone of the campaign; day 0 is a Sunday.  The minute inside the *)
(* sending window is not modelled.                                         *)
(***************************************************************************)
EXTENDS Integers

\* A calendar is [launch, weekdays, batch]: launchAt, activeWeekdays and
\* dailyBatchSize of the campaign.
IsCalendar(c) ==
    /\ c.launch \in Nat
    /\ c.weekdays \subseteq 0..6 /\ c.weekdays # {}
    /\ c.batch \in Nat \ {0}

ActiveDay(day, c) == day % 7 \in c.weekdays

\* A mutant for the runs: every day counts.
AddDays(start, n, c) == IF n = 0 THEN start ELSE start + n - 1

\* The loop of addActiveDays: wanted days are still to be found, from day on.
\* The day it starts from is the first that may count; none wanted, it stays.
AddActiveDays(start, n, c) ==
    LET walk[at \in Nat \X Nat] ==
            LET day == at[1]  wanted == at[2]
            IN  IF wanted = 0 \/ (ActiveDay(day, c) /\ wanted = 1) THEN day
                ELSE walk[<<day + 1, IF ActiveDay(day, c) THEN wanted - 1 ELSE wanted>>]
    IN  walk[<<start, n>>]

\* computeInitialNextSendAt, for the recipient with this index
DayIndex(index, c) == index \div c.batch
PlannedDay(index, c) == AddActiveDays(c.launch, DayIndex(index, c), c)

\* computeEstimatedEndAt
AtLeastOne(n) == IF n = 0 THEN 1 ELSE n
EndDay(n, c) ==
    AddActiveDays(c.launch, AtLeastOne((n + c.batch - 1) \div c.batch), c)
=============================================================================
