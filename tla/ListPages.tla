------------------------------- MODULE ListPages -------------------------------
(***************************************************************************)
(* The pages and cards that load something from the server, show it, let   *)
(* the user change it there and load it again.  They differ in what can be *)
(* changed and in what they ask for; in none of them does a new request    *)
(* call off the ones before it, so answers may come in any order.  The     *)
(* cards ask the device, and only while it is online; the others ask the   *)
(* database.                                                               *)
(***************************************************************************)
EXTENDS SequencesExt

CONSTANTS
    MaxVersion,   \* how often what is listed may change
    MaxLoads      \* requests for the list that may be under way at once

ASSUME ListConstants == MaxVersion \in Nat /\ MaxLoads \in Nat \ {0}

VARIABLES
    kind,      \* the page
    online,    \* the device is online, as the page has it
    version,   \* on the server: how often what is listed has changed
    wanted,    \* what the page asks for: filter, part, page of the table
    listed,     \* what it shows, and for what it asked then
    loads,     \* requests for the list, in the order they were sent
    listing,
    change,    \* a change the user made, whether its handler takes the device for
               \* online, and whether the server knows of it
    own,       \* history: the version of the last change the page was told of
    owed,      \* history: the last change was not followed by a load, nor was
               \* there one since
    excused    \* history: a load failed, or was overtaken by a newer one

listVars == <<kind, online, version, wanted, listed, loads, listing, change, own,
              owed, excused>>

\* What the user can change, what can be asked for, whether there is a button to
\* load, which is off while loading, and whether the device is asked.
UserManagementPage ==
    [changes |-> {"create", "edit", "delete"}, asks |-> {"all"},
     button |-> FALSE, card |-> FALSE]
UserDetailPage ==
    [changes |-> {"bind", "unbind"}, asks |-> {"all"}, button |-> FALSE,
     card |-> FALSE]
OnboardingPage ==
    [changes |-> {"create", "delete"}, asks |-> {"all"}, button |-> FALSE,
     card |-> FALSE]
ModelProvidersCard ==
    [changes |-> {"save", "delete"}, asks |-> {"all"}, button |-> TRUE,
     card |-> TRUE]
EmbeddingProviderCard ==
    [changes |-> {"save"}, asks |-> {"all"}, button |-> TRUE, card |-> TRUE]
WorkspaceFilesList ==
    [changes |-> {"create", "delete"}, asks |-> {"all"}, button |-> TRUE,
     card |-> TRUE]
\* Loaded also whenever the device sends a report.
ChannelsStatusCard ==
    [changes |-> {}, asks |-> {"all"}, button |-> TRUE, card |-> TRUE]
AuditLogPage ==
    [changes |-> {}, asks |-> {"all", "some"}, button |-> TRUE, card |-> FALSE]
\* The dashboard's list of one user's devices; without a filter ("all") it shows
\* the list of the feed.
DashboardFilter ==
    [changes |-> {}, asks |-> {"all", "some", "others"}, button |-> FALSE,
     card |-> FALSE]

Kinds == {"users", "user", "tokens", "providers", "embedding", "files",
          "channels", "audit", "filter"}

PageKind ==
    CASE kind = "users"     -> UserManagementPage
      [] kind = "user"      -> UserDetailPage
      [] kind = "tokens"    -> OnboardingPage
      [] kind = "providers" -> ModelProvidersCard
      [] kind = "embedding" -> EmbeddingProviderCard
      [] kind = "files"     -> WorkspaceFilesList
      [] kind = "channels"  -> ChannelsStatusCard
      [] kind = "audit"     -> AuditLogPage
      [] kind = "filter"    -> DashboardFilter

Asked(for) == [for |-> for, answered |-> FALSE, version |-> 0, late |-> FALSE]
LoadRecords == [for : PageKind.asks, answered : BOOLEAN,
                version : 0 .. MaxVersion, late : BOOLEAN]
NoChange   == [op |-> "none", sees |-> TRUE, applied |-> FALSE]

ListInit ==
    /\ kind \in Kinds
    /\ online = TRUE
    /\ version = 0
    /\ wanted = "all"
    /\ listed = [version |-> 0, for |-> "all"]
    /\ loads = IF kind = "filter" THEN <<>> ELSE <<Asked("all")>>
    /\ listing = (kind # "filter")
    /\ change = NoChange
    /\ own = 0 /\ owed = FALSE /\ excused = FALSE

\* Bound: no more requests than MaxLoads.
SendLoad(for) ==
    /\ Len(loads) < MaxLoads
    /\ loads' = Append(loads, Asked(for))
    /\ listing' = TRUE
    /\ owed' = FALSE
-----------------------------------------------------------------------------
\* Somebody else changes what is listed.
ChangedElsewhere ==
    /\ version < MaxVersion
    /\ version' = version + 1
    /\ UNCHANGED <<kind, online, wanted, listed, loads, listing, change, own, owed,
                   excused>>

PressRefresh ==
    /\ PageKind.button /\ ~listing /\ online
    /\ SendLoad(wanted)
    /\ UNCHANGED <<kind, online, version, wanted, listed, change, own, excused>>

\* The page takes the device for offline, or it is back and is asked again.
OnlineFlips ==
    /\ PageKind.card
    /\ online' = ~online
    /\ IF online THEN UNCHANGED <<loads, listing, owed>> ELSE SendLoad(wanted)
    /\ UNCHANGED <<kind, version, wanted, listed, change, own, excused>>

\* A report of the device has come: the channels in it are a new array.
DeviceReports ==
    /\ kind = "channels" /\ online
    /\ SendLoad(wanted)
    /\ UNCHANGED <<kind, online, version, wanted, listed, change, own, excused>>

\* Another filter, part or page is asked for.  The dashboard without a filter
\* goes back to the list it has.
AskFor(for) ==
    /\ for \in PageKind.asks \ {wanted}
    /\ wanted' = for
    /\ IF kind = "filter" /\ for = "all"
       THEN /\ listed' = [version |-> 0, for |-> "all"]
            /\ loads' = [i \in DOMAIN loads |-> [loads[i] EXCEPT !.late = TRUE]]
            /\ UNCHANGED <<listing, owed>>
       ELSE SendLoad(for) /\ UNCHANGED listed
    /\ UNCHANGED <<kind, online, version, change, own, excused>>

AnswerLoad(i) ==
    /\ ~loads[i].answered
    /\ loads' = [loads EXCEPT ![i].answered = TRUE, ![i].version = version]
    /\ UNCHANGED <<kind, online, version, wanted, listed, listing, change, own, owed,
                   excused>>

\* Those that were sent before the i-th are late when it is taken.
Overtaken(i) ==
    [j \in DOMAIN loads |-> [loads[j] EXCEPT !.late = @ \/ j < i]]

\* The list is replaced by the answer, whatever has come before.
TakeLoad(i) ==
    /\ loads[i].answered
    /\ listed' = [version |-> loads[i].version, for |-> loads[i].for]
    /\ excused' = (excused \/ loads[i].late)
    /\ loads' = RemoveAt(Overtaken(i), i)
    /\ listing' = FALSE
    /\ UNCHANGED <<kind, online, version, wanted, change, own, owed>>

LoadFails(i) ==
    /\ loads' = RemoveAt(loads, i)
    /\ listing' = FALSE
    /\ excused' = TRUE
    /\ UNCHANGED <<kind, online, version, wanted, listed, change, own, owed>>

\* The page's own changes, one at a time.  The buttons of a card are off while it
\* takes the device for offline, but a dialog that is open stays, and its OK is
\* on.  The handler is that of the render at the time: for a deletion, when the
\* button was pressed; for another dialog, when its OK is.
SubmitChange(op) ==
    /\ change.op = "none" /\ op \in PageKind.changes
    /\ change' = [op |-> op, sees |-> (op = "delete" \/ online), applied |-> FALSE]
    /\ UNCHANGED <<kind, online, version, wanted, listed, loads, listing, own, owed,
                   excused>>

Apply ==
    /\ change.op # "none" /\ ~change.applied /\ version < MaxVersion
    /\ version' = version + 1
    /\ change' = [change EXCEPT !.applied = TRUE]
    /\ UNCHANGED <<kind, online, wanted, listed, loads, listing, own, owed,
                   excused>>

\* Mutant: after a deletion the list is left as it is.
ChangedButDelete ==
    /\ change.applied
    /\ change' = NoChange
    /\ own' = version
    /\ IF change.op = "delete" THEN UNCHANGED <<loads, listing, owed>>
       ELSE SendLoad(wanted)
    /\ UNCHANGED <<kind, online, version, wanted, listed, excused>>

\* The change has succeeded: the list is loaded again, unless the handler takes
\* the device for offline, whatever the page does by now.
Changed ==
    /\ change.applied
    /\ change' = NoChange
    /\ own' = version
    /\ IF change.sees THEN SendLoad(wanted)
       ELSE owed' = TRUE /\ UNCHANGED <<loads, listing>>
    /\ UNCHANGED <<kind, online, version, wanted, listed, excused>>

\* The server refuses the change, or its answer is lost.
ChangeFails ==
    /\ change.op # "none"
    /\ change' = NoChange
    /\ UNCHANGED <<kind, online, version, wanted, listed, loads, listing, own, owed,
                   excused>>
-----------------------------------------------------------------------------
ListNext ==
    \/ ChangedElsewhere \/ PressRefresh \/ OnlineFlips \/ DeviceReports
    \/ \E for \in PageKind.asks : AskFor(for)
    \/ \E i \in DOMAIN loads : AnswerLoad(i) \/ TakeLoad(i) \/ LoadFails(i)
    \/ \E op \in PageKind.changes : SubmitChange(op)
    \/ Apply \/ Changed \/ ChangeFails
-----------------------------------------------------------------------------
ListTypeOK ==
    /\ kind \in Kinds /\ online \in BOOLEAN
    /\ version \in 0 .. MaxVersion /\ own \in 0 .. MaxVersion
    /\ wanted \in PageKind.asks
    /\ listed \in [version : 0 .. MaxVersion, for : PageKind.asks]
    /\ loads \in Seq(LoadRecords)
    /\ Len(loads) <= MaxLoads
    /\ change \in [op : PageKind.changes \cup {"none"}, sees : BOOLEAN,
                   applied : BOOLEAN]
    /\ listing \in BOOLEAN /\ owed \in BOOLEAN /\ excused \in BOOLEAN

(***************************************************************************)
(* When nothing is under way a page shows what it was last asked for, and  *)
(* in it every change the user was told had succeeded; unless a load of    *)
(* the list failed or was overtaken by a newer one, or the list has not    *)
(* been asked for since a change was confirmed in a dialog while the card  *)
(* took the device for offline (its handler then does not ask).            *)
(***************************************************************************)
OwnChangesAreShown ==
    loads = <<>> /\ ~excused /\ ~owed =>
        /\ listed.for = wanted
        /\ listed.version >= own
=============================================================================
