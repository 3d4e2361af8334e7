------------------------------- MODULE BatchRun -------------------------------
(***************************************************************************)
(* One batch: a command for several devices at once, run by the server     *)
(* (runBatchJob, a goroutine for each device), and the dialog in which the *)
(* dashboard follows it (DashboardPage).                                   *)
(***************************************************************************)
CONSTANTS
    Targets,      \* the devices of the batch
    BatchFaults   \* TRUE: UPDATEs may fail, which nobody notices

ASSUME BatchConstants == BatchFaults \in BOOLEAN

VARIABLES
    job,      \* batch_jobs: status
    item,     \* batch_job_items: status for each device
    worker,   \* the goroutine of each device, and what it has to write
    main,     \* the goroutine that waits for them
    outcome,  \* history: how the command went on each device
    lost,     \* history: an UPDATE failed, or the read before the last one
    dialog,   \* the dialog is open
    view,     \* the job as the dashboard has it
    poll      \* the poll for it

batchVars == <<job, item, worker, main, outcome, lost, dialog, view, poll>>

batchJob == <<job, item, worker, main, outcome, lost>>
dashboard   == <<dialog, view, poll>>

Active == {"queued", "running"}
Final  == {"success", "failed"}
Items  == {"pending", "running", "success", "error"}

AllItems(s) == [d \in Targets |-> s]
NoView      == [status |-> "none", items |-> AllItems("pending")]
Poll(at, status, items) == [at |-> at, status |-> status, items |-> items]
NoPoll      == Poll("none", "none", AllItems("pending"))

BatchInit ==
    /\ job = "none" /\ item = AllItems("pending")
    /\ worker = AllItems("idle") /\ main = "none"
    /\ outcome = AllItems("none") /\ lost = FALSE
    /\ dialog = FALSE /\ view = NoView /\ poll = NoPoll

\* An UPDATE whose error is dropped.
Wrote(column, old, new) ==
    \/ column' = new /\ UNCHANGED lost
    \/ BatchFaults /\ column' = old /\ lost' = TRUE
-----------------------------------------------------------------------------
(* The server. *)

\* handleBatchExec, as the dashboard takes in its answer.
StartBatch ==
    /\ job = "none"
    /\ job' = "queued"
    /\ main' = "begun"
    /\ dialog' = TRUE
    /\ view' = [status |-> "queued", items |-> AllItems("pending")]
    /\ poll' = Poll("timer", "none", AllItems("pending"))
    /\ UNCHANGED <<item, worker, outcome, lost>>

\* runBatchJob: SetStatus, and a goroutine for every device.
Launch ==
    /\ main = "begun"
    /\ Wrote(job, job, "running")
    /\ main' = "waiting"
    /\ worker' = AllItems("started")
    /\ UNCHANGED <<item, outcome, dashboard>>

ItemRuns(d) ==
    /\ worker[d] = "started"
    /\ Wrote(item, item, [item EXCEPT ![d] = "running"])
    /\ worker' = [worker EXCEPT ![d] = "waiting"]
    /\ UNCHANGED <<job, main, outcome, dashboard>>

\* dispatchAndWaitCommand returns: the command went well, failed, or was not
\* answered in time.
CommandEnds(d) ==
    /\ worker[d] = "waiting"
    /\ \E s \in {"success", "error"} :
          /\ outcome' = [outcome EXCEPT ![d] = s]
          /\ worker' = [worker EXCEPT ![d] = s]
    /\ UNCHANGED <<job, item, main, lost, dashboard>>

ItemEnds(d) ==
    /\ worker[d] \in {"success", "error"}
    /\ Wrote(item, item, [item EXCEPT ![d] = worker[d]])
    /\ worker' = [worker EXCEPT ![d] = "done"]
    /\ UNCHANGED <<job, main, outcome, dashboard>>

\* Mutant: nobody is waited for.
VerdictEarly ==
    /\ main = "waiting"
    /\ Wrote(job, job, IF \E d \in Targets : item[d] = "error" THEN "failed"
                       ELSE "success")
    /\ main' = "done"
    /\ UNCHANGED <<item, worker, outcome, dashboard>>

\* All are done: the items are read, and tell how the job went.  If they cannot be
\* read the job is left as it is, as if the UPDATE had failed.
Verdict ==
    /\ main = "waiting" /\ \A d \in Targets : worker[d] = "done"
    /\ Wrote(job, job, IF \E d \in Targets : item[d] = "error" THEN "failed"
                       ELSE "success")
    /\ main' = "done"
    /\ UNCHANGED <<item, worker, outcome, dashboard>>

\* The server is restarted: nobody goes on with the job.
ServerDies ==
    /\ main \in {"begun", "waiting"}
    /\ main' = "dead"
    /\ worker' = AllItems("done")
    /\ UNCHANGED <<job, item, outcome, lost, dashboard>>
-----------------------------------------------------------------------------
(* The dialog. *)

\* Mutant: a job that is still queued is not polled for.
EffectIfRunning(v, open) ==
    poll' = IF open /\ v.status = "running"
            THEN Poll("timer", "none", AllItems("pending"))
            ELSE NoPoll

\* The effect that polls: it starts anew with every change of the job shown.
Effect(v, open) ==
    poll' = IF open /\ v.status \in Active
            THEN Poll("timer", "none", AllItems("pending"))
            ELSE NoPoll

AskJob ==
    /\ poll.at = "timer"
    /\ poll' = Poll("asked", "none", AllItems("pending"))
    /\ UNCHANGED <<batchJob, dialog, view>>

\* BatchJobStore.Get reads the job's row first, and then those of its items.
GetJobRow ==
    /\ poll.at = "asked"
    /\ poll' = Poll("row", job, AllItems("pending"))
    /\ UNCHANGED <<batchJob, dialog, view>>

GetItems ==
    /\ poll.at = "row"
    /\ poll' = Poll("answered", poll.status, item)
    /\ UNCHANGED <<batchJob, dialog, view>>

\* The answer is shown, also in a dialog closed and not emptied since.
TakeJob ==
    /\ poll.at = "answered"
    /\ view' = [status |-> poll.status, items |-> poll.items]
    /\ Effect(view', dialog)
    /\ UNCHANGED <<batchJob, dialog>>

\* A poll fails: the job shown stays as it is, so the effect does not start
\* again and the polling is over.
PollFails ==
    /\ poll.at \in {"asked", "row", "answered"}
    /\ poll' = Poll("failed", "none", AllItems("pending"))
    /\ UNCHANGED <<batchJob, dialog, view>>

\* Closing takes the timer away, not the request.
CloseDialog ==
    /\ dialog
    /\ dialog' = FALSE
    /\ poll' = IF poll.at \in {"timer", "failed"} THEN NoPoll ELSE poll
    /\ UNCHANGED <<batchJob, view>>
-----------------------------------------------------------------------------
BatchNext ==
    \/ StartBatch \/ Launch \/ Verdict \/ ServerDies
    \/ \E d \in Targets : ItemRuns(d) \/ CommandEnds(d) \/ ItemEnds(d)
    \/ AskJob \/ GetJobRow \/ GetItems \/ TakeJob \/ PollFails \/ CloseDialog

\* The goroutines go on and the commands end, which they do at the latest when
\* the server gives up on them; timers fire and requests are answered.
BatchFairness ==
    /\ WF_batchVars(Launch) /\ WF_batchVars(Verdict)
    /\ \A d \in Targets :
          WF_batchVars(ItemRuns(d) \/ CommandEnds(d) \/ ItemEnds(d))
    /\ WF_batchVars(AskJob \/ GetJobRow \/ GetItems \/ TakeJob)
-----------------------------------------------------------------------------
BatchTypeOK ==
    /\ job \in Active \cup Final \cup {"none"}
    /\ item \in [Targets -> Items]
    /\ worker \in [Targets -> {"idle", "started", "waiting", "success", "error",
                               "done"}]
    /\ main \in {"none", "begun", "waiting", "done", "dead"}
    /\ outcome \in [Targets -> {"none", "success", "error"}]
    /\ lost \in BOOLEAN /\ dialog \in BOOLEAN
    /\ view \in [status : Active \cup Final \cup {"none"},
                 items : [Targets -> Items]]
    /\ poll \in [at : {"none", "timer", "asked", "row", "answered", "failed"},
                 status : Active \cup Final \cup {"none"},
                 items : [Targets -> Items]]

(***************************************************************************)
(* A batch that is shown as ended is shown with how it went on every       *)
(* device, and as failed if it failed on one of them; though the job and   *)
(* its items are read one after the other while workers write them.  Only  *)
(* a failed UPDATE may hide a failure.                                     *)
(***************************************************************************)
ShownBatchIsTrue ==
    view.status \in Final /\ ~lost =>
        /\ view.items = outcome
        /\ view.status = "failed" <=> \E d \in Targets : outcome[d] = "error"

(***************************************************************************)
(* A dialog that shows a batch as running follows it, or has had a poll    *)
(* fail; and a batch whose row says that it runs has somebody who will     *)
(* write how it ended, unless the server died or a statement failed.       *)
(***************************************************************************)
BatchIsFollowed ==
    /\ dialog /\ view.status \in Active => poll.at # "none"
    /\ job \in Active /\ ~lost => main \in {"begun", "waiting", "dead"}

(***************************************************************************)
(* A dialog that is kept open shows the end of the batch, unless a poll    *)
(* failed, the server was restarted, or an UPDATE or the read before the   *)
(* last one failed.                                                        *)
(***************************************************************************)
BatchEndIsShown ==
    (dialog /\ view.status \in Active)
        ~> (view.status \in Final \/ ~dialog \/ poll.at = "failed"
            \/ main = "dead" \/ lost)
=============================================================================
