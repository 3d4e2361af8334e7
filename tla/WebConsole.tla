------------------------------ MODULE WebConsole ------------------------------
(***************************************************************************)
(* The web interface: its parts side by side.  They are components of one  *)
(* React application that share no state variable here, so that a run      *)
(* checks each of them by itself: a behaviour is one part's, and the other *)
(* parts stay as they begin, where no action that fairness speaks of can   *)
(* be taken.                                                               *)
(***************************************************************************)
EXTENDS ImWizard, InstallCard, WebSession, DeviceFeed, StatusPoller, BatchRun,
        ListPages, FileEditor

VARIABLE part   \* the part whose behaviour it is

Parts == {"wizard", "install", "session", "feed", "poller", "batch", "lists",
          "editor"}

webVars == <<part, promiseVars, wizardVars, cardVars, sessionVars, feedVars,
             pollerVars, batchVars, listVars, editorVars>>

WebInit ==
    /\ part \in Parts
    /\ PromiseInit /\ WizardInit /\ CardInit
    /\ SessionInit /\ FeedInit /\ PollerInit /\ BatchInit /\ ListInit /\ EditorInit
    \* one beginning for a part whose behaviour it is not
    /\ part # "feed" => ~seen
    /\ part # "poller" => card = "logs"
    /\ part # "lists" => kind = "filter"

Jobless == UNCHANGED <<part, sessionVars, feedVars, pollerVars, batchVars,
                       listVars, editorVars>>
NoJobs  == UNCHANGED <<part, promiseVars, wizardVars, cardVars>>

WebNext ==
    \/ /\ part = "wizard" /\ WizardNext
       /\ UNCHANGED cardVars /\ Jobless
    \/ /\ part = "install" /\ InstallNext
       /\ UNCHANGED wizardVars /\ Jobless
    \/ /\ part = "session" /\ SessionNext /\ NoJobs
       /\ UNCHANGED <<feedVars, pollerVars, batchVars, listVars, editorVars>>
    \/ /\ part = "feed" /\ FeedNext /\ NoJobs
       /\ UNCHANGED <<sessionVars, pollerVars, batchVars, listVars, editorVars>>
    \/ /\ part = "poller" /\ PollerNext /\ NoJobs
       /\ UNCHANGED <<sessionVars, feedVars, batchVars, listVars, editorVars>>
    \/ /\ part = "batch" /\ BatchNext /\ NoJobs
       /\ UNCHANGED <<sessionVars, feedVars, pollerVars, listVars, editorVars>>
    \/ /\ part = "lists" /\ ListNext /\ NoJobs
       /\ UNCHANGED <<sessionVars, feedVars, pollerVars, batchVars, editorVars>>
    \/ /\ part = "editor" /\ EditorNext /\ NoJobs
       /\ UNCHANGED <<sessionVars, feedVars, pollerVars, batchVars, listVars>>

\* Each part's own fairness; see there.
WebSpec ==
    /\ WebInit /\ [][WebNext]_webVars
    /\ WizardFairness /\ InstallFairness /\ SessionFairness /\ FeedFairness
    /\ PollerFairness /\ BatchFairness
-----------------------------------------------------------------------------
WebTypeOK ==
    /\ part \in Parts
    /\ WizardTypeOK /\ CardTypeOK /\ SessionTypeOK /\ FeedTypeOK
    /\ PollerTypeOK /\ BatchTypeOK /\ ListTypeOK /\ EditorTypeOK

(***************************************************************************)
(* Neither page that has a job run shows a success the device did not earn *)
(* with that job: IMConfigPage, OpenClawInstallCard.                       *)
(***************************************************************************)
SuccessesAreEarned == SuccessIsEarned /\ InstallSuccessIsEarned

(***************************************************************************)
(* Whatever the interface waits for, something is under way that will take *)
(* it further, and only one such thing where two would be in each other's  *)
(* way: the flow of a configuration, the chain of polls of an installation *)
(* or of a card, the call that ends the loading screen, the timer or poll  *)
(* of a batch, the socket of the feed.  That it is answered is fairness:   *)
(* the liveness properties of the parts rest on this invariant.            *)
(***************************************************************************)
WaitsAreAttended ==
    /\ RunningHasFlow /\ OpenJobHasOneChain
    /\ LoadingHasCall /\ BatchIsFollowed
    /\ OneSocket /\ OnePollChain
=============================================================================
