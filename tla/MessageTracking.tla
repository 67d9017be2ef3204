--------------------------- MODULE MessageTracking ---------------------------
(***************************************************************************)
(* What becomes of a message after it was sent: tracking pixels and links, *)
(* unsubscribe links, the reply monitor with the opens it infers, and the  *)
(* bounce monitor, which takes messages for undeliverable and reverts that *)
(* when somebody has evidently read them.                                  *)
(*                                                                         *)
(* All of them read a row, and later save all of it.  A save is itself two *)
(* queries: the row is selected again, and the columns that differ from it *)
(* are updated; so two saves can mix, which is how a message comes to be   *)
(* bounced and opened.                                                     *)
(***************************************************************************)
EXTENDS Naturals, FiniteSets, Sequences

CONSTANTS
  Messages, Recipients, Emails,
  RecipientOf, EmailOf,  \* of a message, of a recipient
  SentAt,                \* the order in which the messages were sent
  Readers,               \* fingerprints (user agent and address) of openers
  Workers,               \* request handlers that may be in progress at once
  Reply, Bounce, Boot,   \* the monitors, and what the bounce monitor starts with
  None,
  MaxEvents,             \* bound: requests, inbox emails, failures
  MaxEpochs              \* bound: how often five minutes pass

ASSUME TrackingAssumption ==
  /\ RecipientOf \in [Messages -> Recipients]
  /\ EmailOf \in [Recipients -> Emails]
  /\ SentAt \in [Messages -> Nat]
  /\ None \notin Readers
  /\ MaxEvents \in Nat /\ MaxEpochs \in Nat
  /\ Reply # Bounce /\ Reply # Boot /\ Bounce # Boot
  /\ Workers \cap {Reply, Bounce, Boot} = {} /\ IsFiniteSet(Workers)

VARIABLES
  message, recipient, excluded,  \* the tables
  recent,      \* per message, the readers with an open event of five minutes
  bouncedBy,   \* per message, how its last bounce event was matched
  task,        \* the handler in progress in each process
  epoch,       \* per message, how often its recent opens have aged
  readings,    \* per message, the pairs of a reader and an epoch
  overlaps,    \* per message, hits counted while the same reader's was pending
  wishes,      \* addresses whose owner was told that he is unsubscribed
  readmitted,  \* addresses taken off the exclusion list since they were put on
  events,
  failures     \* handlers that ended with a failing call or with the program

tables == <<message, recipient, excluded>>
log == <<recent, bouncedBy>>
history == <<epoch, readings, overlaps, wishes, readmitted>>
counters == <<events, failures>>
vars == <<tables, log, task, history, counters>>

Processes == Workers \cup {Reply, Bounce, Boot}

\* How a bounce is matched to a message: for certain, by the token or the id in
\* it, or by address and subject
Methods == {"imap_token", "imap_fallback"}

MessageRow == [status : {"sent", "bounced"}, opens : Nat, clicks : Nat]

RecipientRow ==
  [status : {"active", "failed"}, replied : BOOLEAN,
   disposition : {"eligible", "paused", "unsubscribed"}]

NoRow == None

\* A row that was not found is none of the rows.
ASSUME RowAssumption == NoRow \notin MessageRow

Engaged(row) == row.opens > 0 \/ row.clicks > 0

AddressOf(m) == EmailOf[RecipientOf[m]]

-----------------------------------------------------------------------------
(***************************************************************************)
(* A handler: the calls it has still to make; m, row: the message and the  *)
(* copy it will save; person: the copy of the recipient; seen: the row the *)
(* save has selected; reader: who opens; by: how a bounce was matched;     *)
(* todo: the messages a loop has loaded.                                   *)
(***************************************************************************)
NoTodo == [m \in Messages |-> NoRow]

Idle ==
  [calls |-> <<>>, m |-> None, row |-> NoRow, person |-> NoRow, seen |-> NoRow,
   reader |-> None, by |-> None, todo |-> NoTodo]

Calls(p, name) == task[p].calls # <<>> /\ Head(task[p].calls) = name

\* The calls at which a loop turns
Loops == {"infer", "revert", "bounces"}

\* What is left of a handler when n of its calls are made or passed over
After(p, n) ==
  LET left == SubSeq(task[p].calls, n + 1, Len(task[p].calls))
  IN IF left = <<>> THEN Idle
     ELSE IF Head(left) \in Loops THEN [Idle EXCEPT !.calls = left, !.todo = task[p].todo]
     ELSE [task[p] EXCEPT !.calls = left, !.seen = NoRow]

Becomes(p, handler) == task' = [task EXCEPT ![p] = handler]

Happens ==
  /\ events < MaxEvents
  /\ events' = events + 1

\* A request of a mail client or a browser, with the message it is about
Request(w, calls, m, row, reader) ==
  /\ task[w] = Idle
  /\ Happens
  /\ Becomes(w, [Idle EXCEPT !.calls = calls, !.m = m, !.row = row, !.reader = reader])
  /\ UNCHANGED <<tables, log, history, failures>>

RecordOpen(w, m, reader) ==
  /\ message[m].status = "sent"
  /\ Request(w, <<"unique", "select", "update", "logOpen">>, m, message[m], reader)

RecordClick(w, m) ==
  /\ message[m].status = "sent"
  /\ Request(w, <<"select", "update">>, m,
             [message[m] EXCEPT !.clicks = @ + 1], None)

RecordUnsubscribe(w, m) ==
  Request(w, <<"readForUnsubscribe", "selectRecipient", "updateRecipient",
               "exclude", "answer">>, m, message[m], None)

-----------------------------------------------------------------------------
\* Opens

\* Whether another hit of the same reader has not been logged yet
Overlapping(p) ==
  \E q \in Processes \ {p} : task[q].reader = task[p].reader /\ task[q].m = task[p].m

\* Mutant: every hit is taken for the first of its reader.
CountEveryHit(p) ==
  /\ Calls(p, "unique")
  /\ Becomes(p, [After(p, 1) EXCEPT !.row.opens = @ + 1])
  /\ LET m == task[p].m
     IN /\ readings' = [readings EXCEPT ![m] = @ \cup {<<task[p].reader, epoch[m]>>}]
        /\ overlaps' = [overlaps EXCEPT ![m] = IF Overlapping(p) THEN @ + 1 ELSE @]
  /\ UNCHANGED <<tables, log, epoch, wishes, readmitted, counters>>

\* isUniqueOpen: the events of the last five minutes are looked up; the row was
\* read before.
IsUniqueOpen(p) ==
  /\ Calls(p, "unique")
  /\ LET m == task[p].m
     IN IF task[p].reader \in recent[m]
        THEN /\ Becomes(p, After(p, 3))
             /\ UNCHANGED <<readings, overlaps>>
        ELSE /\ Becomes(p, [After(p, 1) EXCEPT !.row.opens = @ + 1])
             /\ readings' = [readings EXCEPT ![m] = @ \cup {<<task[p].reader, epoch[m]>>}]
             /\ overlaps' = [overlaps EXCEPT ![m] = IF Overlapping(p) THEN @ + 1 ELSE @]
  /\ UNCHANGED <<tables, log, epoch, wishes, readmitted, counters>>

LogOpen(p) ==
  /\ Calls(p, "logOpen")
  /\ recent' = [recent EXCEPT ![task[p].m] = @ \cup {task[p].reader}]
  /\ Becomes(p, After(p, 1))
  /\ UNCHANGED <<tables, bouncedBy, history, counters>>

\* Five minutes pass since the last of the open events.
RecentOpensAge(m) ==
  /\ recent[m] # {}
  /\ epoch[m] < MaxEpochs
  /\ recent' = [recent EXCEPT ![m] = {}]
  /\ epoch' = [epoch EXCEPT ![m] = @ + 1]
  /\ UNCHANGED <<tables, bouncedBy, task, readings, overlaps, wishes, readmitted, counters>>

-----------------------------------------------------------------------------
\* The two halves of a save

\* Mutant: the columns that are the same are lost.
ChangesAlone(row, seen, current) == [f \in {f \in DOMAIN row : row[f] # seen[f]} |-> row[f]]

\* Columns that differ from what the save has seen are written.
Merged(row, seen, current) ==
  [f \in DOMAIN row |-> IF row[f] # seen[f] THEN row[f] ELSE current[f]]

SelectMessage(p) ==
  /\ Calls(p, "select")
  /\ Becomes(p, [After(p, 1) EXCEPT !.seen = message[task[p].m]])
  /\ UNCHANGED <<tables, log, history, counters>>

UpdateMessage(p) ==
  /\ Calls(p, "update")
  /\ message' = [message EXCEPT ![task[p].m] = Merged(task[p].row, task[p].seen, @)]
  /\ Becomes(p, After(p, 1))
  /\ UNCHANGED <<recipient, excluded, log, history, counters>>

SelectRecipient(p) ==
  /\ Calls(p, "selectRecipient")
  /\ Becomes(p, [After(p, 1) EXCEPT !.seen = recipient[RecipientOf[task[p].m]]])
  /\ UNCHANGED <<tables, log, history, counters>>

UpdateRecipient(p) ==
  /\ Calls(p, "updateRecipient")
  /\ recipient' = [recipient EXCEPT ![RecipientOf[task[p].m]] =
                     Merged(task[p].person, task[p].seen, @)]
  /\ Becomes(p, After(p, 1))
  /\ UNCHANGED <<message, excluded, log, history, counters>>

\* The recipient is read; it is saved as changed, or passed over.
ReadRecipient(p, call, changed, keep) ==
  /\ Calls(p, call)
  /\ Becomes(p, IF keep THEN After(p, 3) ELSE [After(p, 1) EXCEPT !.person = changed])
  /\ UNCHANGED <<tables, log, history, counters>>

-----------------------------------------------------------------------------
\* Unsubscribing, and the exclusion list

\* Mutant: an unsubscribed recipient ends the request.
LeaveUnsubscribed(p) ==
  LET person == recipient[RecipientOf[task[p].m]]
  IN /\ Calls(p, "readForUnsubscribe")
     /\ Becomes(p, IF person.disposition = "unsubscribed" THEN After(p, 4)
                   ELSE [After(p, 1) EXCEPT
                           !.person = [person EXCEPT !.disposition = "unsubscribed",
                                                     !.status = "failed"]])
     /\ UNCHANGED <<tables, log, history, counters>>

ReadForUnsubscribe(p) ==
  LET person == recipient[RecipientOf[task[p].m]]
  IN ReadRecipient(p, "readForUnsubscribe",
                   [person EXCEPT !.disposition = "unsubscribed", !.status = "failed"],
                   person.disposition = "unsubscribed")

\* upsertExcludedAddress
Exclude(p) ==
  /\ Calls(p, "exclude")
  /\ excluded' = excluded \cup {AddressOf(task[p].m)}
  /\ readmitted' = readmitted \ {AddressOf(task[p].m)}
  /\ Becomes(p, After(p, 1))
  /\ UNCHANGED <<message, recipient, log, epoch, readings, overlaps, wishes, counters>>

\* The page that says so
Answer(p) ==
  /\ Calls(p, "answer")
  /\ wishes' = wishes \cup {AddressOf(task[p].m)}
  /\ Becomes(p, After(p, 1))
  /\ UNCHANGED <<tables, log, epoch, readings, overlaps, readmitted, counters>>

\* An operator takes an address off the list.
RemoveExclusion(e) ==
  /\ e \in excluded
  /\ Happens
  /\ excluded' = excluded \ {e}
  /\ readmitted' = readmitted \cup {e}
  /\ UNCHANGED <<message, recipient, log, task, epoch, readings, overlaps, wishes, failures>>

-----------------------------------------------------------------------------
\* The reply monitor: the replies in the inboxes, one after the other, and then
\* the inferred opens.  A synchronisation that finds neither leaves no trace.

\* A reply has been matched to a message; without an open it is one.
ProcessReply(m) ==
  LET open == IF message[m].opens = 0 THEN <<"select", "update">> ELSE <<>>
  IN /\ task[Reply] = Idle
     /\ message[m].status = "sent"
     /\ Happens
     /\ Becomes(Reply, [Idle EXCEPT
          !.calls = <<"readForReply", "selectRecipient", "updateRecipient">> \o open,
          !.m = m,
          !.row = [message[m] EXCEPT !.opens = 1]])
     /\ UNCHANGED <<tables, log, history, failures>>

ReadForReply(p) ==
  LET person == recipient[RecipientOf[task[p].m]]
  IN /\ Calls(p, "readForReply")
     /\ Becomes(p, IF person.replied THEN Idle
                   ELSE [After(p, 1) EXCEPT
                           !.person = [person EXCEPT !.replied = TRUE,
                                                     !.disposition = "paused"]])
     /\ UNCHANGED <<tables, log, history, counters>>

Unopened ==
  {m \in Messages : /\ message[m].status = "sent"
                    /\ message[m].opens = 0
                    /\ recipient[RecipientOf[m]].replied}

\* The latest message of every recipient who replied and opened none of them.
\* A manual synchronisation runs the loop beside the monitor.
BackfillInferredOpens(p) ==
  /\ task[p] = Idle
  /\ Unopened # {}
  /\ Becomes(p, [Idle EXCEPT
       !.calls = <<"infer">>,
       !.todo = [m \in Messages |->
                  IF /\ m \in Unopened
                     /\ \A n \in Unopened :
                          RecipientOf[n] = RecipientOf[m] => SentAt[n] <= SentAt[m]
                  THEN message[m] ELSE NoRow]])
  /\ IF p = Reply THEN UNCHANGED counters ELSE Happens /\ UNCHANGED failures
  /\ UNCHANGED <<tables, log, history>>

InferOpen(p) ==
  /\ Calls(p, "infer")
  /\ IF task[p].todo = NoTodo
     THEN Becomes(p, Idle)
     ELSE \E m \in Messages :
            /\ task[p].todo[m] # NoRow
            /\ Becomes(p, [task[p] EXCEPT
                 !.calls = <<"select", "update", "infer">>,
                 !.m = m,
                 !.row = [task[p].todo[m] EXCEPT !.opens = @ + 1],
                 !.todo[m] = NoRow])
  /\ UNCHANGED <<tables, log, history, counters>>

-----------------------------------------------------------------------------
\* The bounce monitor: false bounces are reverted, then the inboxes are read.

\* findEngagedButMarkedBounced, at the start of a synchronisation and of the
\* program
HealFalseBounces(p) ==
  /\ \/ p = Bounce /\ task[p] = Idle
     \/ Calls(p, "heal")
  /\ Becomes(p, [Idle EXCEPT
       !.calls = IF p = Bounce THEN <<"revert", "bounces">> ELSE <<"revert">>,
       !.todo = [m \in Messages |->
                  IF message[m].status = "bounced" /\ Engaged(message[m])
                  THEN message[m] ELSE NoRow]])
  /\ UNCHANGED <<tables, log, history, counters>>

Repair == <<"select", "update", "readForHeal", "selectRecipient", "updateRecipient",
            "readmit">>

\* Mutant: bounces that were matched for certain are the ones to revert.
RevertCertain(p) ==
  /\ Calls(p, "revert")
  /\ IF task[p].todo = NoTodo
     THEN Becomes(p, After(p, 1))
     ELSE \E m \in Messages :
            /\ task[p].todo[m] # NoRow
            /\ Becomes(p,
                 IF bouncedBy[m] # "imap_fallback"
                 THEN [task[p] EXCEPT
                        !.calls = Repair \o @, !.m = m, !.todo[m] = NoRow,
                        !.row = [task[p].todo[m] EXCEPT !.status = "sent"]]
                 ELSE [task[p] EXCEPT !.todo[m] = NoRow])
  /\ UNCHANGED <<tables, log, history, counters>>

\* Only a bounce that was matched by address and subject is doubted.
RevertFalseBounce(p) ==
  /\ Calls(p, "revert")
  /\ IF task[p].todo = NoTodo
     THEN Becomes(p, After(p, 1))
     ELSE \E m \in Messages :
            /\ task[p].todo[m] # NoRow
            /\ Becomes(p,
                 IF bouncedBy[m] = "imap_fallback"
                 THEN [task[p] EXCEPT
                        !.calls = Repair \o @, !.m = m, !.todo[m] = NoRow,
                        !.row = [task[p].todo[m] EXCEPT !.status = "sent"]]
                 ELSE [task[p] EXCEPT !.todo[m] = NoRow])
  /\ UNCHANGED <<tables, log, history, counters>>

ReadForHeal(p) ==
  LET person == recipient[RecipientOf[task[p].m]]
  IN ReadRecipient(p, "readForHeal", [person EXCEPT !.status = "active"],
                   person.status # "failed")

Readmit(p) ==
  /\ Calls(p, "readmit")
  /\ excluded' = excluded \ {AddressOf(task[p].m)}
  /\ readmitted' = readmitted \cup {AddressOf(task[p].m)}
  /\ Becomes(p, After(p, 1))
  /\ UNCHANGED <<message, recipient, log, epoch, readings, overlaps, wishes, counters>>

CloseInbox ==
  /\ Calls(Bounce, "bounces")
  /\ Becomes(Bounce, Idle)
  /\ UNCHANGED <<tables, log, history, counters>>

\* A bounce has been matched to a message that nobody has opened.
ProcessBounce(m, method) ==
  /\ Calls(Bounce, "bounces")
  /\ message[m].status = "sent" /\ ~Engaged(message[m])
  /\ Happens
  /\ Becomes(Bounce, [Idle EXCEPT
       !.calls = <<"select", "update", "logBounce", "readForBounce",
                   "selectRecipient", "updateRecipient", "exclude", "bounces">>,
       !.m = m,
       !.row = [message[m] EXCEPT !.status = "bounced"],
       !.by = method])
  /\ UNCHANGED <<tables, log, history, failures>>

LogBounce(p) ==
  /\ Calls(p, "logBounce")
  /\ bouncedBy' = [bouncedBy EXCEPT ![task[p].m] = task[p].by]
  /\ Becomes(p, After(p, 1))
  /\ UNCHANGED <<tables, recent, history, counters>>

ReadForBounce(p) ==
  ReadRecipient(p, "readForBounce",
                [recipient[RecipientOf[task[p].m]] EXCEPT !.status = "failed"], FALSE)

-----------------------------------------------------------------------------
\* A call throws: the request, or the whole synchronisation, ends.
HandlerFails(p) ==
  /\ task[p] # Idle
  /\ Happens
  /\ failures' = failures + 1
  /\ Becomes(p, Idle)
  /\ UNCHANGED <<tables, log, history>>

\* onModuleInit starts the bounce monitor with its repairs.
Booting == [p \in Processes |-> IF p = Boot THEN [Idle EXCEPT !.calls = <<"heal">>]
                                ELSE Idle]

Restart ==
  /\ Happens
  /\ failures' = failures + Cardinality({p \in Processes : task[p] # Idle})
  /\ task' = Booting
  /\ UNCHANGED <<tables, log, history>>

Init ==
  /\ message = [m \in Messages |-> [status |-> "sent", opens |-> 0, clicks |-> 0]]
  /\ recipient = [r \in Recipients |-> [status |-> "active", replied |-> FALSE,
                                        disposition |-> "eligible"]]
  /\ excluded = {}
  /\ recent = [m \in Messages |-> {}]
  /\ bouncedBy = [m \in Messages |-> None]
  /\ task = [p \in Processes |-> Idle]
  /\ epoch = [m \in Messages |-> 0]
  /\ readings = [m \in Messages |-> {}]
  /\ overlaps = [m \in Messages |-> 0]
  /\ wishes = {} /\ readmitted = {}
  /\ events = 0 /\ failures = 0

\* The next call of a handler
Call(p) ==
  \/ IsUniqueOpen(p) \/ LogOpen(p)
  \/ SelectMessage(p) \/ UpdateMessage(p) \/ SelectRecipient(p) \/ UpdateRecipient(p)
  \/ ReadForUnsubscribe(p) \/ ReadForReply(p) \/ ReadForHeal(p) \/ ReadForBounce(p)
  \/ Exclude(p) \/ Readmit(p) \/ Answer(p) \/ LogBounce(p)
  \/ InferOpen(p) \/ HealFalseBounces(p) \/ RevertFalseBounce(p)

Incoming ==
  \/ \E w \in Workers, m \in Messages :
       \/ \E reader \in Readers : RecordOpen(w, m, reader)
       \/ RecordClick(w, m) \/ RecordUnsubscribe(w, m)
  \/ \E p \in Workers \cup {Reply} : BackfillInferredOpens(p)
  \/ \E e \in Emails : RemoveExclusion(e)
  \/ \E m \in Messages : ProcessReply(m)
  \/ \E m \in Messages, method \in Methods : ProcessBounce(m, method)

Next ==
  \/ Incoming
  \/ CloseInbox
  \/ \E p \in Processes : Call(p) \/ HandlerFails(p)
  \/ \E m \in Messages : RecentOpensAge(m)
  \/ Restart

Spec == Init /\ [][Next]_vars

\* The cron job of the bounce monitor goes on, and its calls return.
Fairness == WF_vars(Call(Bounce) \/ CloseInbox)

FairSpec == Spec /\ Fairness

-----------------------------------------------------------------------------
\* Properties

\* The tables and logs keep their types.
TypeOK ==
  /\ message \in [Messages -> MessageRow]
  /\ recipient \in [Recipients -> RecipientRow]
  /\ excluded \in SUBSET Emails
  /\ recent \in [Messages -> SUBSET Readers]
  /\ bouncedBy \in [Messages -> Methods \cup {None}]
  /\ wishes \in SUBSET Emails
  /\ readmitted \in SUBSET Emails

\* openCount counts readers, not hits: whatever saves race, it never exceeds
\* the different readers of every five minutes, one open inferred from a reply,
\* the hits that overlapped another of the same reader, and those whose event
\* was lost with a failing call or a restart.
RepeatsCountOnce ==
  \A m \in Messages :
    message[m].opens <= Cardinality(readings[m]) + 1 + overlaps[m] + failures

\* Who was told that he is unsubscribed is on the exclusion list of the
\* organization, however often the link was followed and whichever request
\* failed half-way, until an operator or a reverted bounce takes him off.
UnsubscribeTakesHold == wishes \subseteq excluded \cup readmitted

\* A bounce that was matched by address and subject does not stand against an
\* open or a click that was counted: the next synchronisation, or the one after a
\* failure, sends the message again, unless a stale save has taken back the count.
FalseBouncesHeal ==
  \A m \in Messages :
    (message[m].status = "bounced" /\ Engaged(message[m])
       /\ bouncedBy[m] = "imap_fallback")
      ~> (message[m].status = "sent" \/ ~Engaged(message[m]))
=============================================================================
