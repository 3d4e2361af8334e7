---------------------------- MODULE CommandRecord ----------------------------
(***************************************************************************)
(* What the record of a command promises to whoever reads it by GET        *)
(* /devices/:id/commands/:cmdId, however devices, connections and server   *)
(* goroutines behave:                                                      *)
(*   - it says 'completed' only of a command the device has executed;      *)
(*   - while its dispatcher is at work it may say anything, later only the *)
(*     janitor and the device change it: 'sent' may become 'failed', and   *)
(*     everything may become 'completed', which then stands;               *)
(*   - it disappears only with its device.                                 *)
(* CommandDispatch implements this specification.                          *)
(***************************************************************************)
CONSTANT Commands

VARIABLES
    status,   \* status[c]: "absent" before the row is created, "deleted" after
              \* the device is; otherwise the status column
    ran,      \* the commands some device has executed
    settled   \* the commands whose dispatcher has finished or died

recordVars == <<status, ran, settled>>

Exists(c) == status[c] \notin {"absent", "deleted"}

RecordInit ==
    /\ status = [c \in Commands |-> "absent"]
    /\ ran = {}
    /\ settled = {}

\* A dispatcher may come to its end together with its last write.
MaySettle(c) == settled' \in {settled, settled \cup {c}}

Record(c) ==
    /\ status[c] = "absent"
    /\ status' = [status EXCEPT ![c] = "queued"]
    /\ UNCHANGED <<ran, settled>>

Run(c) ==
    /\ status[c] # "absent"
    /\ ran' = ran \cup {c}
    /\ UNCHANGED <<status, settled>>

\* The dispatcher marks the command as sent, perhaps after it was answered.
Sent(c) ==
    /\ c \notin settled
    /\ status[c] \in {"queued", "completed"}
    /\ status' = [status EXCEPT ![c] = "sent"]
    /\ MaySettle(c)
    /\ UNCHANGED ran

\* The dispatcher gives up.
GiveUp(c) ==
    /\ c \notin settled
    /\ Exists(c)
    /\ status' = [status EXCEPT ![c] = "failed"]
    /\ MaySettle(c)
    /\ UNCHANGED ran

\* The janitor gives up.
TimeOut(C) ==
    /\ \A c \in C : status[c] = "sent"
    /\ status' = [c \in Commands |-> IF c \in C THEN "failed" ELSE status[c]]
    /\ UNCHANGED <<ran, settled>>

Answer(c) ==
    /\ c \in ran
    /\ Exists(c)
    /\ status' = [status EXCEPT ![c] = "completed"]
    /\ UNCHANGED <<ran, settled>>

Settle(C) ==
    /\ settled' = settled \cup C
    /\ UNCHANGED <<status, ran>>

Delete(C) ==
    /\ status' = [c \in Commands |->
                     IF c \in C /\ Exists(c) THEN "deleted" ELSE status[c]]
    /\ UNCHANGED <<ran, settled>>

RecordNext ==
    \/ \E c \in Commands :
           Record(c) \/ Run(c) \/ Sent(c) \/ GiveUp(c) \/ Answer(c)
    \/ \E C \in SUBSET Commands : TimeOut(C) \/ Settle(C) \/ Delete(C)

RecordSpec == RecordInit /\ [][RecordNext]_recordVars
=============================================================================
