-------------------------- MODULE SiteConnections --------------------------
(***************************************************************************)
(* The Google side of an organization's websites: its OAuth apps, the      *)
(* Google accounts connected through them, and the account each website    *)
(* (a website property) is linked to.  Of a website only that link counts  *)
(* here; SiteAudits has the rest of the row.                               *)
(***************************************************************************)
EXTENDS HandlerSlots, FiniteSets

CONSTANTS
    Apps,           \* OAuth apps
    GoogleEmails,
    LinkIds,        \* ids of connections
    PropertyIds,    \* ids of websites
    Missing,        \* a connection or a website that is not there
    NoLink          \* google_connection_id null

VARIABLES
    apps,           \* the apps that are there
    google,         \* connections: id |-> app and email
    issued,         \* ids of connections and websites that were used
    link            \* website |-> its connection

googleVars == <<apps, google, issued, link>>

GoogleRows == [app : Apps, email : GoogleEmails]

ASSUME GoogleAssumption ==
    /\ Missing \notin GoogleRows \cup LinkIds \cup {NoLink}
    /\ NoLink \notin LinkIds

Connected == {c \in LinkIds : google[c] # Missing}
ThroughApp(a) == {c \in Connected : google[c].app = a}
Built == {p \in PropertyIds : link[p] # Missing}
LinkedTo(c) == {p \in PropertyIds : link[p] = c}

GoogleCalls ==
         [op : {"findAccount", "insertAccount"}, row : GoogleRows,
          for : PropertyIds \cup {NoLink}]
    \cup [op : {"updateAccount"}, id : LinkIds, row : GoogleRows,
          for : PropertyIds \cup {NoLink}]
    \cup [op : {"findSite"}, property : PropertyIds, to : LinkIds]
    \cup [op : {"saveLink"}, property : PropertyIds,
          to : LinkIds \cup {NoLink}, decided : BOOLEAN]
    \cup [op : {"insertProperty"}, to : LinkIds]
    \cup [op : {"removeProperty"}, property : PropertyIds]
    \cup [op : {"countLinks"}, id : LinkIds]
    \cup [op : {"deleteAccount"}, id : LinkIds, without : SUBSET PropertyIds]
    \cup [op : {"countAccounts", "deleteApp", "saveApp"}, app : Apps]

-----------------------------------------------------------------------------
(* persistOrganizationConnection: after the callback, for a website or for *)
(* the organization, and after a token was refreshed.                      *)

Callback(w, row, for) ==
    /\ row.app \in apps
    /\ for # NoLink => for \in Built
    /\ Begin(w, [op |-> "findAccount", row |-> row, for |-> for])
    /\ UNCHANGED googleVars

RefreshAccount(w, c) ==
    /\ c \in Connected
    /\ Begin(w, [op |-> "findAccount", row |-> google[c], for |-> NoLink])
    /\ UNCHANGED googleVars

FindAccount(w) ==
    /\ call[w].op = "findAccount"
    /\ LET row == call[w].row
           found == {c \in Connected : google[c] = row}
       IN  IF found = {}
           THEN GoOn(w, [call[w] EXCEPT !.op = "insertAccount"])
           ELSE \E c \in found :
                    GoOn(w, [op |-> "updateAccount", id |-> c, row |-> row,
                             for |-> call[w].for])
    /\ UNCHANGED googleVars

\* The callback of a website goes on to link it.
Stored(w, c) ==
    IF call[w].for = NoLink THEN Return(w)
    ELSE GoOn(w, [op |-> "findSite", property |-> call[w].for, to |-> c])

\* An app has one connection per email, and a connection needs its app.
Storable(row) == row.app \in apps /\ \A c \in Connected : google[c] # row

Store(w, c) ==
    IF Storable(call[w].row)
    THEN /\ google' = [google EXCEPT ![c] = call[w].row]
         /\ issued' = issued \cup {c}
         /\ Stored(w, c)
    ELSE Return(w) /\ UNCHANGED <<google, issued>>

InsertAccount(w) ==
    /\ call[w].op = "insertAccount"
    /\ LinkIds \ issued # {}
    /\ Store(w, CHOOSE c \in LinkIds : c \notin issued)
    /\ UNCHANGED <<apps, link>>

\* A connection that was deleted since is inserted again.
UpdateAccount(w) ==
    /\ call[w].op = "updateAccount"
    /\ IF call[w].id \in Connected
       THEN Stored(w, call[w].id) /\ UNCHANGED <<google, issued>>
       ELSE Store(w, call[w].id)
    /\ UNCHANGED <<apps, link>>

-----------------------------------------------------------------------------
(* setGoogleConnectionId and update read the website and save it; update   *)
(* with the connection it read.  A website that is gone is inserted again, *)
(* and the foreign key refuses a connection that is gone.                  *)

AssignConnection(w, p, c) ==
    /\ p \in Built
    /\ c \in Connected
    /\ Begin(w, [op |-> "saveLink", property |-> p, to |-> c, decided |-> TRUE])
    /\ UNCHANGED googleVars

FindSite(w) ==
    /\ call[w].op = "findSite"
    /\ IF call[w].property \in Built /\ call[w].to \in Connected
       THEN GoOn(w, [op |-> "saveLink", property |-> call[w].property,
                     to |-> call[w].to, decided |-> TRUE])
       ELSE Return(w)
    /\ UNCHANGED googleVars

DisconnectProperty(w, p) ==
    /\ link[p] \in LinkIds
    /\ Begin(w, [op |-> "saveLink", property |-> p, to |-> NoLink,
                 decided |-> TRUE])
    /\ UNCHANGED googleVars

EditProperty(w, p) ==
    /\ p \in Built
    /\ Begin(w, [op |-> "saveLink", property |-> p, to |-> link[p],
                 decided |-> FALSE])
    /\ UNCHANGED googleVars

SaveLink(w) ==
    /\ call[w].op = "saveLink"
    /\ link' = IF call[w].to \in Connected \cup {NoLink}
               THEN [link EXCEPT ![call[w].property] = call[w].to]
               ELSE link
    /\ Return(w)
    /\ UNCHANGED <<apps, google, issued>>

CreateProperty(w, c) ==
    /\ c \in Connected
    /\ Begin(w, [op |-> "insertProperty", to |-> c])
    /\ UNCHANGED googleVars

InsertProperty(w) ==
    /\ call[w].op = "insertProperty"
    /\ PropertyIds \ issued # {}
    /\ LET p == CHOOSE p \in PropertyIds : p \notin issued
       IN  IF call[w].to \in Connected
           THEN /\ link' = [link EXCEPT ![p] = call[w].to]
                /\ issued' = issued \cup {p}
           ELSE UNCHANGED <<link, issued>>
    /\ Return(w)
    /\ UNCHANGED <<apps, google>>

DeleteProperty(w, p) ==
    /\ p \in Built
    /\ Begin(w, [op |-> "removeProperty", property |-> p])
    /\ UNCHANGED googleVars

RemoveProperty(w) ==
    /\ call[w].op = "removeProperty"
    /\ link' = [link EXCEPT ![call[w].property] = Missing]
    /\ Return(w)
    /\ UNCHANGED <<apps, google, issued>>

-----------------------------------------------------------------------------
DeleteOrganizationConnection(w, c) ==
    /\ c \in Connected
    /\ Begin(w, [op |-> "countLinks", id |-> c])
    /\ UNCHANGED googleVars

\* A mutant for the runs: a connection that websites use is deleted too.
CountNothing(w) ==
    /\ call[w].op = "countLinks"
    /\ GoOn(w, [op |-> "deleteAccount", id |-> call[w].id,
                without |-> PropertyIds \ LinkedTo(call[w].id)])
    /\ UNCHANGED googleVars

CountLinks(w) ==
    /\ call[w].op = "countLinks"
    /\ IF LinkedTo(call[w].id) = {}
       THEN GoOn(w, [op |-> "deleteAccount", id |-> call[w].id,
                     without |-> PropertyIds \ LinkedTo(call[w].id)])
       ELSE Return(w)
    /\ UNCHANGED googleVars

\* The links of websites are set to null.
DeleteAccount(w) ==
    /\ call[w].op = "deleteAccount"
    /\ google' = [google EXCEPT ![call[w].id] = Missing]
    /\ link' = [p \in PropertyIds |->
                  IF p \in LinkedTo(call[w].id) THEN NoLink ELSE link[p]]
    /\ Return(w)
    /\ UNCHANGED <<apps, issued>>

\* deleteApp counts too, and here the foreign key would refuse as well.
DeleteApp(w, a) ==
    /\ a \in apps
    /\ Begin(w, [op |-> "countAccounts", app |-> a])
    /\ UNCHANGED googleVars

CountAccounts(w) ==
    /\ call[w].op = "countAccounts"
    /\ IF ThroughApp(call[w].app) = {}
       THEN GoOn(w, [call[w] EXCEPT !.op = "deleteApp"])
       ELSE Return(w)
    /\ UNCHANGED googleVars

RemoveApp(w) ==
    /\ call[w].op = "deleteApp"
    /\ apps' = IF ThroughApp(call[w].app) = {} THEN apps \ {call[w].app} ELSE apps
    /\ Return(w)
    /\ UNCHANGED <<google, issued, link>>

\* updateApp; an app that is gone is inserted again
UpdateApp(w, a) ==
    /\ a \in apps
    /\ Begin(w, [op |-> "saveApp", app |-> a])
    /\ UNCHANGED googleVars

SaveApp(w) ==
    /\ call[w].op = "saveApp"
    /\ apps' = apps \cup {call[w].app}
    /\ Return(w)
    /\ UNCHANGED <<google, issued, link>>

-----------------------------------------------------------------------------
GoogleStep(w) ==
    \/ \E row \in GoogleRows, for \in Built \cup {NoLink} : Callback(w, row, for)
    \/ \E c \in LinkIds :
        \/ RefreshAccount(w, c) \/ DeleteOrganizationConnection(w, c) \/ CreateProperty(w, c)
        \/ \E p \in PropertyIds : AssignConnection(w, p, c)
    \/ \E p \in PropertyIds :
        DisconnectProperty(w, p) \/ EditProperty(w, p) \/ DeleteProperty(w, p)
    \/ \E a \in Apps : DeleteApp(w, a) \/ UpdateApp(w, a)
    \/ FindAccount(w) \/ InsertAccount(w) \/ UpdateAccount(w)
    \/ FindSite(w) \/ SaveLink(w) \/ InsertProperty(w) \/ RemoveProperty(w)
    \/ CountLinks(w) \/ DeleteAccount(w)
    \/ CountAccounts(w) \/ RemoveApp(w) \/ SaveApp(w)

GoogleTypeOK ==
    /\ apps \subseteq Apps
    /\ google \in [LinkIds -> [app : apps, email : GoogleEmails] \cup {Missing}]
    /\ Connected \subseteq issued
    /\ issued \subseteq LinkIds \cup PropertyIds
    /\ link \in [PropertyIds -> Connected \cup {NoLink, Missing}]

-----------------------------------------------------------------------------
(***************************************************************************)
(* A website stays linked to its Google account, and with it keeps its     *)
(* analytics, until somebody unlinks it, links it to another or deletes    *)
(* it.  It loses the link to others only when they overlapped: an edit     *)
(* that had read the website before it was linked, and a deletion of the   *)
(* account that had counted before (deleteOrganizationConnection).         *)
(***************************************************************************)
LinksKept ==
    [][ \A p \in PropertyIds :
          (link[p] \in LinkIds /\ link'[p] # link[p])
            => \E w \in Slots :
                 /\ call[w] # call'[w]
                 /\ \/ /\ call[w].op = "saveLink" /\ call[w].property = p
                       /\ call[w].decided \/ call[w].to # link[p]
                    \/ /\ call[w].op = "removeProperty" /\ call[w].property = p
                    \/ /\ call[w].op = "deleteAccount" /\ call[w].id = link[p]
                       /\ p \in call[w].without ]_<<link, call>>
=============================================================================
