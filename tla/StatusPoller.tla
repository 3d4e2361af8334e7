----------------------------- MODULE StatusPoller -----------------------------
(***************************************************************************)
(* The two cards of the device page that keep asking the device something: *)
(* the gateway's status (GatewayControlCard) and, when "tail" is on, the   *)
(* logs (LogViewerCard).  An effect runs a chain of polls, each of which   *)
(* waits for a command and then sets the timer for the next; a reference   *)
(* (statusInFlightRef, readInFlightRef) keeps two commands from being      *)
(* under way at once.  React runs the effect anew when what it depends on  *)
(* changes: the chain before is cancelled, not its command.                *)
(*                                                                         *)
(* What a command finds on the device is a version: the number of gateway  *)
(* actions the device has run, or of changes of its logs.                  *)
(***************************************************************************)
EXTENDS Naturals

CONSTANTS
    MaxActions,   \* how often the gateway, or the log, changes
    MaxFailures   \* how many commands fail

ASSUME PollerConstants == MaxActions \in Nat /\ MaxFailures \in Nat

VARIABLES
    card,       \* "gateway" or "logs"
    reachable,  \* the device is online, as the page has it
    wish,       \* OpenClaw is installed; for the logs: "tail" is on
    actual,     \* the version on the device
    report,     \* the version in the device's last report, and whether it is new
    display,    \* the version the card shows
    read,       \* the command under way: who waits for it, what it found
    pollTimer,  \* the effect's timer is set
    action,     \* runAction
    failures

pollerVars == <<card, reachable, wish, actual, report, display, read, pollTimer,
                action, failures>>

\* "orphan": the chain that waits for the command has been cancelled.
NoRead == [by |-> "none", found |-> 0, ran |-> FALSE]
Sent(by) == [by |-> by, found |-> 0, ran |-> FALSE]
InFlight == read.by # "none"
ReadCommands == [by : {"none", "poll", "orphan", "user", "action"},
                 found : 0 .. MaxActions, ran : BOOLEAN]

PollerInit ==
    /\ card \in {"gateway", "logs"}
    /\ reachable = FALSE /\ wish = FALSE
    /\ actual = 0 /\ report = [version |-> 0, new |-> FALSE] /\ display = 0
    /\ read = NoRead /\ pollTimer = FALSE
    /\ action = "none"
    /\ failures = 0

Polling == reachable /\ wish

\* Bound on what goes wrong.
Failure == failures < MaxFailures /\ failures' = failures + 1

\* The effect: its cleanup, and a new chain if "on".  Its first poll sends a
\* command, or finds one under way (r) and sets the timer at once.
PollEffect(r, on) ==
    LET left == IF r.by = "poll" THEN [r EXCEPT !.by = "orphan"] ELSE r IN
    IF ~on THEN read' = left /\ pollTimer' = FALSE
    ELSE IF r.by = "none" THEN read' = Sent("poll") /\ pollTimer' = FALSE
    ELSE read' = left /\ pollTimer' = TRUE
-----------------------------------------------------------------------------
(* The device, and what the page hears of it. *)

Reach ==
    /\ reachable' = ~reachable
    /\ PollEffect(read, reachable' /\ wish)
    /\ UNCHANGED <<card, wish, actual, report, display, action, failures>>

\* OpenClaw is found to be there or not; or the user switches "tail", which he
\* can while the device is online.
Wish ==
    /\ card = "gateway" \/ reachable
    /\ wish' = ~wish
    /\ PollEffect(read, reachable /\ wish')
    /\ UNCHANGED <<card, reachable, actual, report, display, action, failures>>

\* The log grows; another page acts on the gateway, or a command that was given
\* up on is run after all.
ActualChanges ==
    /\ actual < MaxActions
    /\ actual' = actual + 1
    /\ UNCHANGED <<card, reachable, wish, report, display, read, pollTimer,
                   action, failures>>

\* The device's heartbeat carries the gateway's status, as it was collected...
Collect ==
    /\ card = "gateway" /\ report.version # actual
    /\ report' = [version |-> actual, new |-> TRUE]
    /\ UNCHANGED <<card, reachable, wish, actual, display, read, pollTimer,
                   action, failures>>

\* ... and the page shows it when it comes, if it is another than before.
Reported ==
    /\ report.new
    /\ report' = [report EXCEPT !.new = FALSE]
    /\ display' = report.version
    /\ UNCHANGED <<card, reachable, wish, actual, read, pollTimer,
                   action, failures>>
-----------------------------------------------------------------------------
(* Reading: refreshGatewayStatus, refreshLogs. *)

TimerFires ==
    /\ pollTimer /\ ~InFlight
    /\ pollTimer' = FALSE
    /\ read' = Sent("poll")
    /\ UNCHANGED <<card, reachable, wish, actual, report, display, action, failures>>

\* The button.  With a command under way it does nothing.
PressRead ==
    /\ reachable /\ ~InFlight /\ action = "none"
    /\ card = "gateway" => wish
    /\ read' = Sent("user")
    /\ UNCHANGED <<card, reachable, wish, actual, report, display, pollTimer,
                   action, failures>>

ReadRuns ==
    /\ InFlight /\ ~read.ran
    /\ read' = [read EXCEPT !.found = actual, !.ran = TRUE]
    /\ UNCHANGED <<card, reachable, wish, actual, report, display, pollTimer,
                   action, failures>>

\* What follows on a command that has ended: the chain goes on, or runAction.
ReadOver ==
    CASE read.by = "poll" ->
            read' = NoRead /\ pollTimer' = TRUE /\ UNCHANGED action
      [] read.by = "action" ->
            action' = "none" /\ PollEffect(NoRead, Polling)
      [] OTHER -> read' = NoRead /\ UNCHANGED <<pollTimer, action>>

\* Mutant: a chain goes on only after a command that went well.
ReadFailsForGood ==
    /\ InFlight
    /\ Failure
    /\ read' = NoRead
    /\ action' = IF read.by = "action" THEN "none" ELSE action
    /\ UNCHANGED <<card, reachable, wish, actual, report, display, pollTimer>>

ReadFails ==
    /\ InFlight
    /\ Failure
    /\ ReadOver
    /\ UNCHANGED <<card, reachable, wish, actual, report, display>>

ReadEnds ==
    /\ read.ran
    /\ display' = read.found
    /\ ReadOver
    /\ UNCHANGED <<card, reachable, wish, actual, report, failures>>
-----------------------------------------------------------------------------
(* Start, stop, restart: runAction. *)

\* loadingAction is set, and refreshGatewayStatus depends on it.
StartAction ==
    /\ card = "gateway" /\ Polling /\ action = "none"
    /\ action' = "sent"
    /\ PollEffect(read, TRUE)
    /\ UNCHANGED <<card, reachable, wish, actual, report, display, failures>>

ActionRuns ==
    /\ action = "sent" /\ actual < MaxActions
    /\ actual' = actual + 1
    /\ action' = "ran"
    /\ UNCHANGED <<card, reachable, wish, report, display, read, pollTimer, failures>>

\* The record of the command is there, whatever it says, and the device has been
\* loaded again: the status is read, unless another read is under way.
ActionEnds ==
    /\ action \in {"sent", "ran"}
    /\ IF InFlight THEN action' = "none" /\ PollEffect(read, Polling)
       ELSE action' = "reread" /\ read' = Sent("action") /\ UNCHANGED pollTimer
    /\ UNCHANGED <<card, reachable, wish, actual, report, display, failures>>

\* One of the requests failed.
ActionFails ==
    /\ action \in {"sent", "ran"}
    /\ action' = "none"
    /\ PollEffect(read, Polling)
    /\ UNCHANGED <<card, reachable, wish, actual, report, display, failures>>
-----------------------------------------------------------------------------
PollerNext ==
    \/ Reach \/ Wish \/ ActualChanges \/ Collect \/ Reported
    \/ TimerFires \/ PressRead \/ ReadRuns \/ ReadFails \/ ReadEnds
    \/ StartAction \/ ActionRuns \/ ActionEnds \/ ActionFails

\* Timers fire, and commands end: runCommand gives up on them at its deadline.
PollerFairness ==
    /\ WF_pollerVars(TimerFires)
    /\ WF_pollerVars(ReadRuns) /\ WF_pollerVars(ReadEnds)
    /\ WF_pollerVars(ActionEnds \/ ActionFails)
-----------------------------------------------------------------------------
PollerTypeOK ==
    /\ card \in {"gateway", "logs"}
    /\ reachable \in BOOLEAN /\ wish \in BOOLEAN /\ pollTimer \in BOOLEAN
    /\ actual \in 0 .. MaxActions /\ display \in 0 .. MaxActions
    /\ report \in [version : 0 .. MaxActions, new : BOOLEAN]
    /\ read \in ReadCommands
    /\ action \in {"none", "sent", "ran", "reread"}
    /\ failures \in 0 .. MaxFailures

(***************************************************************************)
(* While a card is to be kept up to date exactly one chain of polls does   *)
(* it, and otherwise none: effects that run anew while a command is under  *)
(* way, at the start and at the end of an action, and with failed commands *)
(* neither double the chain nor break it.                                  *)
(***************************************************************************)
OnePollChain ==
    /\ ~(pollTimer /\ read.by = "poll")
    /\ Polling <=> (pollTimer \/ read.by = "poll")

(***************************************************************************)
(* What the device has done to its gateway, or written to its log, is      *)
(* shown in the end, also when the read that follows an action was left    *)
(* out because an older one was under way, and a report from before the    *)
(* action has overwritten it.                                              *)
(***************************************************************************)
DisplayCatchesUp ==
    <>[](Polling /\ actual = MaxActions) => <>[](display = MaxActions)
=============================================================================
