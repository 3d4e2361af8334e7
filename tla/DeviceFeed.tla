------------------------------ MODULE DeviceFeed ------------------------------
(***************************************************************************)
(* How a browser learns whether a device is online: the events the hub     *)
(* broadcasts, the WebSocket that carries them, and RealtimeProvider,      *)
(* which keeps the list of devices (here: one device).                     *)
(*                                                                         *)
(* Every event carries the device as the database has it.  "Online" is     *)
(* computed when the row is read: the device was seen in the last 90       *)
(* seconds.  An event is written some time after its row was read, by the  *)
(* goroutine of the device's connection; the snapshot by the goroutine of  *)
(* the browser's.                                                          *)
(***************************************************************************)
EXTENDS Sequences, Naturals

CONSTANT
    MaxWire     \* events on their way in the browser's socket

ASSUME FeedConstants == MaxWire \in Nat \ {0}

VARIABLES
    device,   \* the device's connection is up
    seen,     \* the device was seen in the last 90 seconds
    event,    \* the event the goroutine of the connection is to write
    old,      \* ... the goroutine of a replaced connection, or "open"
    served,   \* the browser's session in the hub, and its snapshot
    wire,     \* what was written to the browser's socket
    mounted, socket, timer, connected, shown,   \* RealtimeProvider
    refresh   \* the answer refreshDevices waits for

feedVars == <<device, seen, event, old, served, wire, mounted, socket, timer,
              connected, shown, refresh>>

\* What a row says of the device, and no event.
Views == {"online", "offline"}
View  == IF seen THEN "online" ELSE "offline"

FeedInit ==
    /\ device = FALSE /\ seen \in BOOLEAN
    /\ event = "none" /\ old = "none"
    /\ served = "none" /\ wire = <<>>
    /\ mounted = FALSE /\ socket = "none" /\ timer = FALSE /\ connected = FALSE
    /\ shown = "none" /\ refresh = "none"

server  == <<device, seen, event, old>>
browser == <<mounted, socket, timer, connected, shown, refresh>>
-----------------------------------------------------------------------------
(* The server's side of the device. *)

\* A device registers; a connection it had before is replaced and closed.
DeviceConnects ==
    /\ event = "none"
    /\ old = "none"
    /\ old' = IF device THEN "open" ELSE "none"
    /\ device' = TRUE
    /\ seen' = TRUE
    /\ event' = "online"
    /\ UNCHANGED <<served, wire, browser>>

Heartbeat ==
    /\ device /\ event = "none"
    /\ seen' = TRUE
    /\ event' = "online"
    /\ UNCHANGED <<device, old, served, wire, browser>>

\* The connection ends: the device is read and broadcast once more.
DeviceDrops ==
    /\ device /\ event = "none"
    /\ device' = FALSE
    /\ event' = View
    /\ UNCHANGED <<seen, old, served, wire, browser>>

OldDrops ==
    /\ old = "open"
    /\ old' = View
    /\ UNCHANGED <<device, seen, event, served, wire, browser>>

\* 90 seconds without a heartbeat: the device is gone, or runs a long command.
Age ==
    /\ seen
    /\ seen' = FALSE
    /\ UNCHANGED <<device, event, old, served, wire, browser>>

\* broadcastForDevice: to the sessions that are in the hub.
Written(view) ==
    IF served = "none" THEN UNCHANGED wire
    ELSE Len(wire) < MaxWire /\ wire' = Append(wire, view)

WriteEvent ==
    /\ event \in Views
    /\ event' = "none"
    /\ Written(event)
    /\ UNCHANGED <<device, seen, old, served, browser>>

WriteOld ==
    /\ old \in Views
    /\ old' = "none"
    /\ Written(old)
    /\ UNCHANGED <<device, seen, event, served, browser>>
-----------------------------------------------------------------------------
(* The server's side of the browser: HandleBrowserWS. *)

Admit ==
    /\ socket = "open" /\ served = "none" /\ wire = <<>>
    /\ served' = "added"
    /\ UNCHANGED <<server, wire, browser>>

\* The token is not accepted: the socket is closed, with a code that tells.
Refuse ==
    /\ socket = "open" /\ served = "none" /\ wire = <<>>
    /\ socket' = "refused"
    /\ connected' = FALSE
    /\ UNCHANGED <<server, served, wire, mounted, timer, shown, refresh>>

ReadSnapshot ==
    /\ served = "added"
    /\ served' = View
    /\ UNCHANGED <<server, wire, browser>>

WriteSnapshot ==
    /\ served \in Views
    /\ Written(served)
    /\ served' = "done"
    /\ UNCHANGED <<server, browser>>
-----------------------------------------------------------------------------
(* The browser: RealtimeProvider. *)

\* What happens to the hub's session and the socket's data when it closes.
CutOff == served' = "none" /\ wire' = <<>>

Mount ==
    /\ ~mounted /\ mounted' = TRUE
    /\ socket' = "connecting"
    /\ refresh' = "asked"
    /\ UNCHANGED <<server, served, wire, timer, connected, shown>>

\* The cleanups; state and answers go with the component.
Unmount ==
    /\ mounted /\ mounted' = FALSE
    /\ socket' = "none" /\ timer' = FALSE /\ connected' = FALSE
    /\ shown' = "none" /\ refresh' = "none"
    /\ CutOff
    /\ UNCHANGED server

\* onopen: connected, as far as the page is concerned, before the token is
\* looked at.
Opened ==
    /\ socket = "connecting"
    /\ socket' = "open"
    /\ connected' = TRUE
    /\ UNCHANGED <<server, served, wire, mounted, timer, shown, refresh>>

\* Mutant: a socket that was lost is not opened again.
ClosedForGood ==
    /\ socket \in {"connecting", "open"}
    /\ socket' = "none" /\ connected' = FALSE
    /\ CutOff
    /\ UNCHANGED <<server, mounted, timer, shown, refresh>>

\* onclose without one of the codes that tell: try again later.
Closed ==
    /\ socket \in {"connecting", "open"}
    /\ socket' = "none" /\ connected' = FALSE
    /\ timer' = TRUE
    /\ CutOff
    /\ UNCHANGED <<server, mounted, shown, refresh>>

Reconnect ==
    /\ timer
    /\ timer' = FALSE
    /\ socket' = "connecting"
    /\ UNCHANGED <<server, served, wire, mounted, connected, shown, refresh>>

\* Mutant: a device that is in the list is left as it is.
ReceiveNew ==
    /\ wire # <<>>
    /\ shown' = IF shown = "none" THEN Head(wire) ELSE shown
    /\ wire' = Tail(wire)
    /\ UNCHANGED <<server, served, mounted, socket, timer, connected, refresh>>

\* onmessage: a snapshot replaces the list, an event the device.
Receive ==
    /\ wire # <<>>
    /\ shown' = Head(wire)
    /\ wire' = Tail(wire)
    /\ UNCHANGED <<server, served, mounted, socket, timer, connected, refresh>>

\* refreshDevices: a button, and once when mounted.
AskRefresh ==
    /\ mounted /\ refresh = "none"
    /\ refresh' = "asked"
    /\ UNCHANGED <<server, served, wire, mounted, socket, timer, connected, shown>>

AnswerRefresh ==
    /\ refresh = "asked"
    /\ refresh' = View
    /\ UNCHANGED <<server, served, wire, mounted, socket, timer, connected, shown>>

\* setDevices, or the request failed.
EndRefresh ==
    /\ refresh # "none"
    /\ refresh' = "none"
    /\ shown' = IF refresh \in Views THEN refresh ELSE shown
    /\ UNCHANGED <<server, served, wire, mounted, socket, timer, connected>>
-----------------------------------------------------------------------------
FeedNext ==
    \/ DeviceConnects \/ Heartbeat \/ DeviceDrops \/ OldDrops \/ Age
    \/ WriteEvent \/ WriteOld
    \/ Admit \/ Refuse \/ ReadSnapshot \/ WriteSnapshot
    \/ Mount \/ Unmount \/ Opened \/ Closed \/ Reconnect \/ Receive
    \/ AskRefresh \/ AnswerRefresh \/ EndRefresh

(***************************************************************************)
(* The server's goroutines and the browser's event loop go on, connected   *)
(* devices send heartbeats, time passes, and of sockets opened again and   *)
(* again one opens in the end.                                             *)
(***************************************************************************)
FeedFairness ==
    /\ WF_feedVars(Heartbeat) /\ WF_feedVars(Age /\ ~device)
    /\ WF_feedVars(OldDrops) /\ WF_feedVars(WriteEvent) /\ WF_feedVars(WriteOld)
    /\ WF_feedVars(Admit \/ Refuse)
    /\ WF_feedVars(ReadSnapshot) /\ WF_feedVars(WriteSnapshot)
    /\ WF_feedVars(Reconnect) /\ SF_feedVars(Opened)
    /\ WF_feedVars(Receive) /\ WF_feedVars(EndRefresh)

FeedSpec == FeedInit /\ [][FeedNext]_feedVars /\ FeedFairness
-----------------------------------------------------------------------------
FeedTypeOK ==
    /\ device \in BOOLEAN /\ seen \in BOOLEAN /\ mounted \in BOOLEAN
    /\ timer \in BOOLEAN /\ connected \in BOOLEAN
    /\ event \in Views \cup {"none"}
    /\ old \in Views \cup {"none", "open"}
    /\ served \in Views \cup {"none", "added", "done"}
    /\ wire \in Seq(Views) /\ Len(wire) <= MaxWire
    /\ socket \in {"none", "connecting", "open", "refused"}
    /\ shown \in Views \cup {"none"}
    /\ refresh \in Views \cup {"none", "asked"}

(***************************************************************************)
(* As long as the provider is there it has a socket or a timer for the     *)
(* next one, never both, and afterwards neither; and it shows itself as    *)
(* connected while a socket is open, and only then.                        *)
(***************************************************************************)
OneSocket ==
    /\ mounted <=> (timer \/ socket # "none")
    /\ ~(timer /\ socket # "none")
    /\ connected = (socket = "open")

(***************************************************************************)
(* A provider that has no feed gets one, unless the server refuses its     *)
(* token.  (scheduleReconnect, against sockets that fail to open.)         *)
(***************************************************************************)
FeedComesBack ==
    (mounted /\ ~connected) ~> (connected \/ socket = "refused" \/ ~mounted)

Fed == served = "done"

(***************************************************************************)
(* While a device and the feed both stay connected the browser shows the   *)
(* device as online again and again.  And from some time on it shows       *)
(* nothing else, if also the heartbeats come in time: a late event of a    *)
(* replaced connection, a late snapshot or a late answer to refreshDevices *)
(* does set the device back to offline, but none settles what is shown.    *)
(* (TC-FE-RT-004 of docs/test-cases.md asks for more: that the interface   *)
(* "ignores stale regression".  Events carry the second in which they were *)
(* sent, but onmessage does not look at it, and takes whatever comes.)     *)
(***************************************************************************)
OnlineIsShown ==
    /\ <>[](device /\ Fed) => []<>(shown = "online")
    /\ <>[](device /\ Fed /\ seen) => <>[](shown = "online")

(***************************************************************************)
(* docs/test-cases.md, TC-FE-RT-003: after "Stop client heartbeat." the    *)
(* "Row state changes to offline with updated last-seen timestamp."        *)
(***************************************************************************)
OfflineIsShown == <>[](~device /\ Fed) => <>(shown = "offline")
=============================================================================
