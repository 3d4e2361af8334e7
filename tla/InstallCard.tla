------------------------------ MODULE InstallCard ------------------------------
(***************************************************************************)
(* The card of the device page that has OpenClaw installed and follows the *)
(* job (OpenClawInstallCard).  The server's jobs are what JobPromise says. *)
(*                                                                         *)
(* The card is there while the page takes OpenClaw for not installed, so   *)
(* that any news of the device may take it away, with the job it follows,  *)
(* or bring it back.                                                       *)
(***************************************************************************)
EXTENDS JobPromise

VARIABLES
    cardShown,
    starting,    \* the request for a job, and the job
    installJob,  \* the job the card follows, and its status as last polled
    ticking,     \* the effect's timer is set
    polled,      \* the request for the job's status: "none", "sent", the answer
    broken       \* a poll failed, or found the job's row gone

cardVars == <<cardShown, starting, installJob, ticking, polled, broken>>
installVars == <<promiseVars, cardVars>>

NoJob   == [id |-> None, status |-> "none"]
NoStart == [at |-> "none", job |-> None]

CardInit ==
    /\ cardShown = FALSE
    /\ starting = NoStart /\ installJob = NoJob
    /\ ticking = FALSE /\ polled = "none" /\ broken = FALSE
-----------------------------------------------------------------------------
\* The page learns that OpenClaw is not there, or that it is.
ShowCard ==
    /\ ~cardShown /\ cardShown' = TRUE
    /\ UNCHANGED <<promiseVars, starting, installJob, ticking, polled, broken>>

HideCard ==
    /\ cardShown /\ cardShown' = FALSE
    /\ starting' = NoStart /\ installJob' = NoJob
    /\ ticking' = FALSE /\ polled' = "none" /\ broken' = FALSE
    /\ UNCHANGED promiseVars

\* startInstall; the button is off while a request or a job is under way.
StartInstall ==
    /\ cardShown /\ starting = NoStart /\ installJob.status # "open"
    /\ used # Jobs
    /\ starting' = [at |-> "sent", job |-> None]
    /\ UNCHANGED <<promiseVars, cardShown, installJob, ticking, polled, broken>>

\* The server stores the job.
InstallStored(j) ==
    /\ starting.at = "sent"
    /\ Store(j)
    /\ starting' = [at |-> "stored", job |-> j]
    /\ UNCHANGED <<cardShown, installJob, ticking, polled, broken>>

\* Mutant: the new job is shown with what is known of the one before it.
InstallAnsweredOver ==
    /\ starting.at = "stored"
    /\ installJob' = [installJob EXCEPT !.id = starting.job]
    /\ ticking' = TRUE
    /\ starting' = NoStart
    /\ UNCHANGED <<promiseVars, cardShown, polled, broken>>

InstallAnswered ==
    /\ starting.at = "stored"
    /\ installJob' = [id |-> starting.job, status |-> "open"]
    /\ ticking' = TRUE
    /\ starting' = NoStart
    /\ UNCHANGED <<promiseVars, cardShown, polled, broken>>

InstallRefused ==
    /\ starting # NoStart
    /\ starting' = NoStart
    /\ UNCHANGED <<promiseVars, cardShown, installJob, ticking, polled, broken>>

Tick ==
    /\ ticking /\ ticking' = FALSE
    /\ polled' = "sent"
    /\ UNCHANGED <<promiseVars, cardShown, starting, installJob, broken>>

PollFound ==
    /\ polled = "sent" /\ status[installJob.id] # "none"
    /\ polled' = status[installJob.id]
    /\ UNCHANGED <<promiseVars, cardShown, starting, installJob, ticking, broken>>

\* Mutant: an answer that brings nothing new does not run the effect again.
PollTakenOnce ==
    /\ polled \in JobStatus \ {"none"}
    /\ installJob' = [installJob EXCEPT !.status = polled]
    /\ polled' = "none"
    /\ UNCHANGED <<promiseVars, cardShown, starting, ticking, broken>>

\* setJob: a new object, which runs the effect again.
PollTaken ==
    /\ polled \in JobStatus \ {"none"}
    /\ installJob' = [installJob EXCEPT !.status = polled]
    /\ ticking' = (polled = "open")
    /\ polled' = "none"
    /\ UNCHANGED <<promiseVars, cardShown, starting, broken>>

\* The job shown stays as it is, and so does the effect: nobody polls again.
PollBreaks ==
    /\ polled # "none"
    /\ polled' = "none" /\ broken' = TRUE
    /\ UNCHANGED <<promiseVars, cardShown, starting, installJob, ticking>>
-----------------------------------------------------------------------------
\* The server goes on with a job, or stores one that another page asks for.
JobsGoOn(j) == (Store(j) \/ JobStep(j)) /\ UNCHANGED cardVars

InstallNext ==
    \/ ShowCard \/ HideCard \/ StartInstall
    \/ InstallAnswered \/ InstallRefused
    \/ Tick \/ PollFound \/ PollTaken \/ PollBreaks
    \/ \E j \in Jobs : InstallStored(j) \/ JobsGoOn(j)

\* No job stays open for ever; timers fire and requests are answered or fail.
InstallFairness ==
    /\ \A j \in Jobs : WF_installVars(Closes(j) /\ UNCHANGED cardVars)
    /\ WF_installVars(Tick)
    /\ WF_installVars(PollFound \/ PollTaken \/ PollBreaks)
-----------------------------------------------------------------------------
CardTypeOK ==
    /\ cardShown \in BOOLEAN /\ ticking \in BOOLEAN /\ broken \in BOOLEAN
    /\ starting \in [at : {"none", "sent", "stored"}, job : Jobs \cup {None}]
    /\ installJob \in [id : Jobs \cup {None}, status : JobStatus]
    /\ polled \in JobStatus \cup {"sent"}

(***************************************************************************)
(* The card follows a job it shows as running, by one chain of polls, and  *)
(* no other; a poll that broke off is all that may have ended the chain.   *)
(* (The effect on [job?.id, job?.status], which ends with one timer or one *)
(* request whatever answer or second job comes between.)                   *)
(***************************************************************************)
OpenJobHasOneChain ==
    /\ ~(ticking /\ polled # "none")
    /\ ticking \/ polled # "none" => installJob.status = "open"
    /\ installJob.status = "open" /\ ~broken => ticking \/ polled # "none"

(***************************************************************************)
(* The card shows an installation as done only if the device has run every *)
(* command of the very job it shows, though the card outlives a job, asks  *)
(* for another and takes in answers about rows that were collected.        *)
(***************************************************************************)
InstallSuccessIsEarned ==
    installJob.status = "success" => installJob.id \in configured

(***************************************************************************)
(* A job that the card shows as running is shown as ended in the end, also *)
(* when its row is collected after a crash of the server, and the button   *)
(* comes back; unless a poll breaks off.  (Then the card says why, but the *)
(* button stays off until the card goes away.)                             *)
(***************************************************************************)
InstallEnds ==
    installJob.status = "open" ~> (installJob.status # "open" \/ broken)
=============================================================================
