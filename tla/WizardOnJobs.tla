----------------------------- MODULE WizardOnJobs -----------------------------
(***************************************************************************)
(* The IM configuration page on the server and the device it configures:   *)
(* ImWizard with the jobs of ConfigJobs in place of JobPromise.  The page  *)
(* and the jobs meet where the page's request stores a job and where a     *)
(* poll reads a job's row.  Other pages, and other users, have the server  *)
(* run jobs for the same device meanwhile.                                 *)
(***************************************************************************)
EXTENDS ConfigJobs

CONSTANTS Flows, MaxVisits, Reports    \* as in ImWizard

VARIABLES page, flow, visit, mountedAt, cancelled, aborted, made, heard,
          twice    \* as in ImWizard

W == INSTANCE ImWizard WITH
    status <- row,
    used <- {j \in Jobs : runner[j].at # "idle"},
    configured <- Done

wizardVars == <<page, flow, visit, mountedAt, cancelled, aborted, made, heard,
                twice>>
allVars    == <<vars, wizardVars>>

\* The server and the device go on, or someone else asks for a job.
JobsAlone == Next /\ UNCHANGED wizardVars

\* The page and its user go on: the server's answers are read.
PageAlone == UNCHANGED vars /\ (W!UserStep \/ W!PageStep)

\* The server handles the page's request; the page is for IM platforms only.
Asked(f) == \E j \in Jobs, p \in Channels : Create(j, p) /\ W!PostHandled(f)

ComposedInit == Init /\ W!WizardInit
ComposedNext == JobsAlone \/ PageAlone \/ \E f \in Flows : Asked(f)
ComposedSpec == ComposedInit /\ [][ComposedNext]_allVars
-----------------------------------------------------------------------------
(***************************************************************************)
(* The page cannot tell the jobs from JobPromise.                          *)
(***************************************************************************)
RefinesWizard == W!WizardSpec

(***************************************************************************)
(* When the page comes to say that the configuration went well, a job that *)
(* its own component asked for is reported as a success, and the gateway   *)
(* on the device runs with both credentials of that job: unless another    *)
(* job was stored for the platform meanwhile, or ran at the same time.     *)
(* Against polls and flows of earlier visits, double clicks, commands run  *)
(* after the server gave them up, lost UPDATEs and restarts.               *)
(***************************************************************************)
SuccessIsLive ==
    [][page.configure # "success" /\ page'.configure = "success" =>
         \E j \in made :
            LET p == runner[j].platform IN
            /\ row[j] = "success" /\ p \in Channels
            /\ newest[p] = j /\ j \notin shared
                  => live[p] = [id |-> j, secret |-> j]]_allVars
=============================================================================
