------------------------------ MODULE Meetings ------------------------------
(***************************************************************************)
(* Meetings with prospects, and the calendar account of the member who     *)
(* schedules them.  An event is created in the account before its meeting  *)
(* is saved and deleted from it before the meeting is cancelled.  Access   *)
(* tokens are refreshed on the way, and a refresh saves the connection     *)
(* just as the OAuth callback does.                                        *)
(***************************************************************************)
EXTENDS DeleteRequests

CONSTANTS
    MeetingIds, Accounts,
    Off             \* no connection, no event, no meeting

VARIABLES
    connection,     \* the member's row in user_calendar_connections, or Off
    meeting,        \* meetings: id |-> row, or Off
    event,          \* the provider: id of the meeting |-> account that holds it
    revision,       \* history: how often the row was written or deleted
    chosen,         \* history: the account the member last connected, or Off
    crossed,        \* history: the row was saved by a handler that had begun
                    \*          before it was changed
    interrupted     \* history: meetings whose cancellation was cut short

connectionVars == <<connection, revision, chosen, crossed>>
meetingVars == <<connectionVars, meeting, event, interrupted>>

\* email is the account the row names, token the one its tokens are for.
Connections ==
    [id : Nat, email : Accounts, token : Accounts, fresh : BOOLEAN]

MeetingRows ==
    [prospect : Items, status : {"scheduled", "cancelled", "deleted"}]

ASSUME MeetingAssumption ==
    /\ Off \notin Accounts \cup Connections \cup MeetingRows

Scheduled(m) == meeting[m] # Off /\ meeting[m].status = "scheduled"

\* What a handler needs the token, or the connection, for
Goals ==
         [do : {"connect"}, account : Accounts]
    \cup [do : {"create"}, item : Items]
    \cup [do : {"cancel"}, meeting : MeetingIds]

\* What a handler saves, and the revision of the row when it began
NewConnections == [email : Accounts, token : Accounts, since : Nat]

MeetingCalls ==
         [op : {"findToken"}, goal : Goals]
    \cup [op : {"refresh", "findConnection", "insertConnection"},
          new : NewConnections, goal : Goals]
    \cup [op : {"selectConnection"}, id : Nat, new : NewConnections,
          goal : Goals]
    \cup [op : {"updateConnection"}, id : Nat, new : NewConnections,
          selected : Accounts \cup {Off}, goal : Goals]
    \cup [op : {"createEvent", "deleteEvent"}, account : Accounts, goal : Goals]
    \cup [op : {"saveMeeting", "saveCancelled"}, meeting : MeetingIds,
          goal : Goals]
    \cup [op : {"deleteConnection"}]

-----------------------------------------------------------------------------
(* The OAuth callback, and a refresh, save the connection with             *)
(* persistConnection: they look for the row, then save by its id.  The     *)
(* save selects the row and updates the columns that differ from it, or    *)
(* inserts the row, which the unique index on the member and the provider  *)
(* refuses if there is one.                                                *)

\* Where a handler goes on once it has its token
WithToken(account, goal) ==
    CASE goal.do = "create" ->
            [op |-> "createEvent", account |-> account, goal |-> goal]
      [] goal.do = "cancel" ->
            [op |-> "deleteEvent", account |-> account, goal |-> goal]
      [] goal.do = "connect" -> Idle

\* An authorization code for the account was exchanged.
Connect(w, a) ==
    /\ Begin(w, [op |-> "findConnection",
                 new |-> [email |-> a, token |-> a, since |-> revision],
                 goal |-> [do |-> "connect", account |-> a]])
    /\ UNCHANGED meetingVars

FindConnection(w) ==
    /\ call[w].op = "findConnection"
    /\ LET c == call[w]
       IN  IF connection = Off
           THEN GoOn(w, [c EXCEPT !.op = "insertConnection"])
           ELSE GoOn(w, [op |-> "selectConnection", id |-> connection.id,
                         new |-> c.new, goal |-> c.goal])
    /\ UNCHANGED meetingVars

Saved(w, row) ==
    LET connecting == call[w].goal.do = "connect"
    IN  /\ connection' = row
        /\ chosen' = IF connecting THEN call[w].goal.account ELSE chosen
        /\ crossed' = IF call[w].new.since = revision
                      THEN crossed /\ ~connecting ELSE TRUE
        /\ revision' = revision + 1
        /\ GoOn(w, WithToken(call[w].new.token, call[w].goal))

InsertRow(w, id) ==
    IF connection = Off
    THEN Saved(w, [id |-> id, email |-> call[w].new.email,
                   token |-> call[w].new.token, fresh |-> TRUE])
    ELSE /\ Return(w)
         /\ UNCHANGED connectionVars

InsertConnection(w) ==
    /\ call[w].op = "insertConnection"
    /\ InsertRow(w, revision + 1)
    /\ UNCHANGED <<meeting, event, interrupted>>

SelectConnection(w) ==
    /\ call[w].op = "selectConnection"
    /\ LET c == call[w]
           found == connection # Off /\ connection.id = c.id
       IN  GoOn(w, [op |-> "updateConnection", id |-> c.id, new |-> c.new,
                    selected |-> IF found THEN connection.email ELSE Off,
                    goal |-> c.goal])
    /\ UNCHANGED meetingVars

\* A mutant for the runs: the row goes on naming the account it was made for.
TokensOnly(row, new, selected) == [row EXCEPT !.token = new.token, !.fresh = TRUE]

\* The tokens are new, so they are always written; the email is if it differs
\* from the one that was selected.
Updated(row, new, selected) ==
    [row EXCEPT !.token = new.token, !.fresh = TRUE,
                !.email = IF selected = new.email THEN @ ELSE new.email]

UpdateConnection(w) ==
    /\ call[w].op = "updateConnection"
    /\ LET c == call[w]
       IN  IF c.selected = Off
           THEN InsertRow(w, c.id)
           ELSE IF connection # Off /\ connection.id = c.id
           THEN Saved(w, Updated(connection, c.new, c.selected))
           ELSE /\ GoOn(w, WithToken(c.new.token, c.goal))
                /\ UNCHANGED connectionVars
    /\ UNCHANGED <<meeting, event, interrupted>>

Disconnect(w) ==
    /\ connection # Off
    /\ Begin(w, [op |-> "deleteConnection"])
    /\ UNCHANGED meetingVars

DeleteConnection(w) ==
    /\ call[w].op = "deleteConnection"
    /\ connection' = Off
    /\ chosen' = Off
    /\ crossed' = FALSE
    /\ revision' = revision + 1
    /\ Return(w)
    /\ UNCHANGED <<meeting, event, interrupted>>

\* An hour passes.
Expire ==
    /\ connection # Off
    /\ connection.fresh
    /\ connection' = [connection EXCEPT !.fresh = FALSE]
    /\ UNCHANGED <<revision, chosen, crossed, meeting, event, interrupted>>

-----------------------------------------------------------------------------
\* getValidAccessToken
FindToken(w) ==
    /\ call[w].op = "findToken"
    /\ LET goal == call[w].goal
       IN  IF connection = Off
           THEN Return(w)
           ELSE IF connection.fresh
           THEN GoOn(w, WithToken(connection.token, goal))
           ELSE GoOn(w, [op |-> "refresh", goal |-> goal,
                         new |-> [email |-> connection.email,
                                  token |-> connection.token,
                                  since |-> revision]])
    /\ UNCHANGED meetingVars

\* The provider may refuse: there is no refresh token, or it was used.
Refresh(w) ==
    /\ call[w].op = "refresh"
    /\ \/ GoOn(w, [call[w] EXCEPT !.op = "findConnection"])
       \/ Return(w)
    /\ UNCHANGED meetingVars

ScheduleMeeting(w, i) ==
    /\ Kind[i] = "prospects"
    /\ item[i] = "live"
    /\ connection # Off
    /\ Begin(w, [op |-> "findToken", goal |-> [do |-> "create", item |-> i]])
    /\ UNCHANGED meetingVars

Unused == {m \in MeetingIds : meeting[m] = Off /\ event[m] = Off}

\* A mutant for the runs: a meeting is saved although the provider refused.
CreateAnyway(w) ==
    /\ call[w].op = "createEvent"
    /\ Unused # {}
    /\ GoOn(w, [op |-> "saveMeeting", goal |-> call[w].goal,
                meeting |-> CHOOSE m \in Unused : TRUE])
    /\ UNCHANGED meetingVars

\* Zoom refuses the registrant after it has created the meeting; others may
\* fail before they create anything.
CreateEvent(w) ==
    /\ call[w].op = "createEvent"
    /\ Unused # {}
    /\ LET m == CHOOSE m \in Unused : TRUE
       IN  \/ /\ event' = [event EXCEPT ![m] = call[w].account]
              /\ \/ GoOn(w, [op |-> "saveMeeting", meeting |-> m,
                             goal |-> call[w].goal])
                 \/ Return(w)
           \/ Return(w) /\ UNCHANGED event
    /\ UNCHANGED <<connectionVars, meeting, interrupted>>

\* The foreign key refuses a meeting with a prospect that is gone.
SaveMeeting(w) ==
    /\ call[w].op = "saveMeeting"
    /\ LET i == call[w].goal.item
       IN  meeting' = IF item[i] = "live"
                      THEN [meeting EXCEPT ![call[w].meeting] =
                              [prospect |-> i, status |-> "scheduled"]]
                      ELSE meeting
    /\ Return(w)
    /\ UNCHANGED <<connectionVars, event, interrupted>>

\* Only the member who scheduled it can reach the event: another's
\* cancellation leaves it on the calendar.
Cancel(w, m, creator) ==
    /\ Scheduled(m)
    /\ LET goal == [do |-> "cancel", meeting |-> m]
       IN  Begin(w, IF creator
                    THEN [op |-> "findToken", goal |-> goal]
                    ELSE [op |-> "saveCancelled", meeting |-> m, goal |-> goal])
    /\ UNCHANGED meetingVars

\* An event that is not in the account (404) counts as deleted.
DeleteEvent(w) ==
    /\ call[w].op = "deleteEvent"
    /\ LET m == call[w].goal.meeting
       IN  \/ /\ event' = IF event[m] = call[w].account
                          THEN [event EXCEPT ![m] = Off] ELSE event
              /\ GoOn(w, [op |-> "saveCancelled", meeting |-> m,
                          goal |-> call[w].goal])
           \/ Return(w) /\ UNCHANGED event
    /\ UNCHANGED <<connectionVars, meeting, interrupted>>

\* A meeting that went with its prospect cannot be inserted again, unless the
\* prospect was.
SaveCancelled(w) ==
    /\ call[w].op = "saveCancelled"
    /\ LET m == call[w].meeting
       IN  IF item[meeting[m].prospect] = "live"
           THEN /\ meeting' = [meeting EXCEPT ![m].status = "cancelled"]
                /\ interrupted' = interrupted \ {m}
           ELSE UNCHANGED <<meeting, interrupted>>
    /\ Return(w)
    /\ UNCHANGED <<connectionVars, event>>

\* Meetings go with their prospect (ON DELETE CASCADE).
MeetingsCascade ==
    /\ meeting' = [m \in MeetingIds |->
                     IF meeting[m] # Off /\ item'[meeting[m].prospect] = "gone"
                     THEN [meeting[m] EXCEPT !.status = "deleted"]
                     ELSE meeting[m]]
    /\ UNCHANGED <<connectionVars, event, interrupted>>

Cancelling(m) ==
    \E w \in Slots : call[w].op = "saveCancelled" /\ call[w].meeting = m

\* What handlers that end here leave behind: the save may fail although the
\* event is deleted.
MeetingsInterrupted(ended) ==
    /\ interrupted' = interrupted \cup
            {call[w].meeting : w \in {w \in ended : call[w].op = "saveCancelled"}}
    /\ UNCHANGED <<connectionVars, meeting, event>>

-----------------------------------------------------------------------------
MeetingStep(w) ==
    \/ \E a \in Accounts : Connect(w, a)
    \/ \E i \in Items : ScheduleMeeting(w, i)
    \/ \E m \in MeetingIds, creator \in BOOLEAN : Cancel(w, m, creator)
    \/ FindConnection(w) \/ InsertConnection(w)
    \/ SelectConnection(w) \/ UpdateConnection(w)
    \/ Disconnect(w) \/ DeleteConnection(w)
    \/ FindToken(w) \/ Refresh(w)
    \/ CreateEvent(w) \/ SaveMeeting(w)
    \/ DeleteEvent(w) \/ SaveCancelled(w)

MeetingTypeOK ==
    /\ connection \in Connections \cup {Off}
    /\ meeting \in [MeetingIds -> MeetingRows \cup {Off}]
    /\ event \in [MeetingIds -> Accounts \cup {Off}]
    /\ revision \in Nat
    /\ chosen \in Accounts \cup {Off}
    /\ crossed \in BOOLEAN
    /\ interrupted \subseteq MeetingIds

-----------------------------------------------------------------------------
(***************************************************************************)
(* A meeting that is listed as scheduled is on the calendar, unless its    *)
(* creator is just cancelling it, or was when the save failed or the       *)
(* process stopped: create makes the event first and cancel deletes it     *)
(* first, whichever requests overlap.                                      *)
(***************************************************************************)
ScheduledIsOnCalendar ==
    \A m \in MeetingIds :
        Scheduled(m) => event[m] # Off \/ Cancelling(m) \/ m \in interrupted

(***************************************************************************)
(* The connection is the one the member chose, and its tokens are for the  *)
(* account it names, unless a handler saved it that had begun before it    *)
(* was changed.  A refresh that overlaps with a disconnection brings the   *)
(* connection back, and one that overlaps with another account's callback  *)
(* may mix the two.                                                        *)
(***************************************************************************)
KeptAsChosen ==
    ~crossed => IF connection = Off
                THEN chosen = Off
                ELSE connection.email = chosen /\ connection.token = chosen
=============================================================================
