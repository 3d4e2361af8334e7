------------------------------ MODULE JobPromise ------------------------------
(***************************************************************************)
(* What a configuration job promises to whoever asks the server for it.    *)
(* ConfigJobs implements it; ImWizard is built on it.                      *)
(***************************************************************************)
CONSTANTS
    Jobs,       \* identifiers of jobs, each used at most once
    None        \* no job

ASSUME NoneAssumption == None \notin Jobs

VARIABLES
    status,     \* what GET reports of each job; "none" is a 404
    used,       \* jobs that have been stored
    configured  \* jobs whose every command the device has run well

promiseVars == <<status, used, configured>>

\* "open" is "queued" or "running": no reader tells them apart.
JobStatus == {"none", "open", "success", "failed"}

PromiseInit ==
    /\ status = [j \in Jobs |-> "none"]
    /\ used = {}
    /\ configured = {}

Put(j, s) == status' = [status EXCEPT ![j] = s]

\* POST: the job is stored.
Store(j) ==
    /\ j \notin used
    /\ Put(j, "open")
    /\ used' = used \cup {j}
    /\ UNCHANGED configured

\* The device runs the last of the commands that make the configuration.
Configure(j) ==
    /\ j \in used \ configured
    /\ configured' = configured \cup {j}
    /\ UNCHANGED <<status, used>>

Succeed(j) ==
    /\ status[j] = "open" /\ j \in configured
    /\ Put(j, "success")
    /\ UNCHANGED <<used, configured>>

Break(j) ==
    /\ status[j] = "open"
    /\ Put(j, "failed")
    /\ UNCHANGED <<used, configured>>

\* The row is collected, whatever its status.
Vanish(j) ==
    /\ status[j] # "none"
    /\ Put(j, "none")
    /\ UNCHANGED <<used, configured>>

JobStep(j) == Configure(j) \/ Succeed(j) \/ Break(j) \/ Vanish(j)

PromiseNext == \E j \in Jobs : Store(j) \/ JobStep(j)

\* A job does not stay open for ever.
Closes(j) == Succeed(j) \/ Break(j) \/ (status[j] = "open" /\ Vanish(j))

PromiseSafety == PromiseInit /\ [][PromiseNext]_promiseVars
PromiseSpec   == PromiseSafety /\ \A j \in Jobs : WF_promiseVars(Closes(j))
=============================================================================
