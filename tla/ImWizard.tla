------------------------------- MODULE ImWizard -------------------------------
(***************************************************************************)
(* The IM configuration page (IMConfigPage): four steps, of which the      *)
(* third starts a configuration job on the server and polls for it, and    *)
(* the fourth asks the device for the state of its channels until one is   *)
(* connected.  The server's jobs are what JobPromise says of them.         *)
(*                                                                         *)
(* Each call of runConfigureFlow is a process of its own.  It is cut off   *)
(* when the user leaves the page, or goes with the browser's history to    *)
(* the page of the other platform: React keeps the component and its state *)
(* then, and only the parameter in the URL changes.  A visit is a URL      *)
(* shown for a while; which platform it is for makes no difference here.   *)
(***************************************************************************)
EXTENDS JobPromise, Naturals, FiniteSets

CONSTANTS
    Flows,      \* calls of runConfigureFlow that may be under way at once
    MaxVisits,  \* how often a page of the wizard is opened
    Reports     \* what a device may say of its channels for the platform

\* Words a channel reports as its status.
StatusTexts == {"connected", "disconnected", "error", "starting"}

ASSUME WizardConstants ==
    /\ MaxVisits \in Nat \ {0}
    /\ Reports \subseteq SUBSET StatusTexts

VARIABLES
    page,     \* state of the component
    flow,     \* the calls of runConfigureFlow
    visit,    \* number of the current URL
    mountedAt,  \* the visit at which the current component was mounted
    cancelled,  \* components whose cancelledRef is set, by their mountedAt
    aborted,  \* AbortControllers that have aborted, by the visit they are of
    made,     \* history: the jobs the current component asked for
    heard,    \* history: the channel status the last verification looked at
    twice     \* history: the current component had two flows at once

component == <<visit, mountedAt, cancelled, aborted>>
wizardVars == <<page, flow, component, made, heard, twice>>
imVars == <<promiseVars, wizardVars>>

SuccessWords == {"connected", "ok", "healthy", "ready", "running", "active",
                 "success", "online"}

\* Words that contain one of the success words.
Compounds == {<<"disconnected", "connected">>, <<"inactive", "active">>,
              <<"unhealthy", "healthy">>}

\* String.includes
Includes(text, word) == text = word \/ <<text, word>> \in Compounds

IsSuccessStatusText(text) == \E w \in SuccessWords : Includes(text, w)

\* analyzeChannelStatus: of the channels that are the platform's, is one
\* successful?  Failure is looked for only if none is.
ChannelOk(reports) == \E text \in reports : IsSuccessStatusText(text)

PageStates == [step : 0 .. 3, drawn : BOOLEAN,
               configure : {"idle", "running", "success", "failed"},
               verify : {"idle", "running", "success", "failed"}]

\* "drawn": React has rendered the state; until then the user may still click
\* what was there before.
Fresh  == [step |-> 0, configure |-> "idle", verify |-> "idle", drawn |-> TRUE]
NoFlow == [at |-> "none", job |-> None, visit |-> 0, mount |-> 0]

WizardInit ==
    /\ page = Fresh
    /\ flow = [f \in Flows |-> NoFlow]
    /\ visit = 1
    /\ mountedAt = 1
    /\ cancelled = {} /\ aborted = {}
    /\ made = {}
    /\ heard = None
    /\ twice = FALSE

\* What a flow has to stop it: the signal that was the component's when it began
\* (its requests fail with an AbortError, which is caught and not shown), and
\* cancelledRef, which it shares with the other flows of its component and reads
\* after every answer and every wait.
Stopped(f) == flow[f].visit \in aborted \/ flow[f].mount \in cancelled

\* Mutant: a finished flow is not dropped.
ReturnAndStay(f) == flow' = [flow EXCEPT ![f].at = "returned"]

Return(f)     == flow' = [flow EXCEPT ![f] = NoFlow]
FlowAt(f, at) == flow' = [flow EXCEPT ![f].at = at]
-----------------------------------------------------------------------------
(* The user. *)

GoTo(step) ==
    /\ page.step \in {0, 1} /\ step = 1 - page.step
    /\ page' = [page EXCEPT !.step = step]
    /\ UNCHANGED <<promiseVars, flow, component, made, heard, twice>>

\* Bound: a job is left for every request under way (which another page may take
\* meanwhile: then the request can only fail).
RoomForJob == Cardinality({f \in Flows : flow[f].at = "posting"})
                  < Cardinality(Jobs \ used)

\* runConfigureFlow up to the request.
StartFlow(f) ==
    /\ flow[f].at = "none"
    /\ RoomForJob
    /\ flow' = [flow EXCEPT ![f] = [at |-> "posting", job |-> None,
                                    visit |-> visit, mount |-> mountedAt]]
    /\ twice' = (twice \/ \E g \in Flows : flow[g].at # "none" /\ ~Stopped(g))
    /\ page' = [page EXCEPT !.step = 2, !.configure = "running",
                            !.verify = "idle", !.drawn = FALSE]
    /\ UNCHANGED <<promiseVars, component, made, heard>>

\* handleSubmitCredential.  The button is there until the page is drawn again,
\* so a second click may start a second flow.
SubmitCredential(f) ==
    /\ \/ page.step = 1
       \/ page.step = 2 /\ ~page.drawn /\ page.configure = "running"
    /\ StartFlow(f)

Draw ==
    /\ ~page.drawn
    /\ page' = [page EXCEPT !.drawn = TRUE]
    /\ UNCHANGED <<promiseVars, flow, component, made, heard, twice>>

\* Buttons shown after a failure: change the credentials or try again.
BackToCredentials ==
    /\ page.step = 2 /\ page.configure = "failed"
    /\ page' = [page EXCEPT !.step = 1]
    /\ UNCHANGED <<promiseVars, flow, component, made, heard, twice>>

Retry(f) ==
    /\ page.step = 2 /\ page.configure = "failed"
    /\ StartFlow(f)

\* The page is left and, later, one of the wizard's is opened again, with refs of
\* its own; the cleanup of the effect for [id, platformParam] runs.
LeavePage ==
    /\ visit < MaxVisits
    /\ visit' = visit + 1
    /\ mountedAt' = visit + 1
    /\ cancelled' = cancelled \cup {mountedAt}
    /\ aborted' = aborted \cup {visit}
    /\ page' = Fresh
    /\ made' = {} /\ twice' = FALSE
    /\ heard' = None
    /\ UNCHANGED <<promiseVars, flow>>

\* Mutant: the cleanup relies on cancelledRef, and does not abort.
SwitchWithoutAbort ==
    /\ visit < MaxVisits
    /\ visit' = visit + 1
    /\ cancelled' = cancelled \ {mountedAt}
    /\ page' = [page EXCEPT !.verify = IF page.step = 3 /\ page.configure = "success"
                                       THEN "running" ELSE @]
    /\ heard' = None
    /\ UNCHANGED <<promiseVars, flow, mountedAt, aborted, made, twice>>

\* The history leads to the other platform's page; a verification that was
\* under way, or done, begins again for that platform.  The cleanup sets
\* cancelledRef and aborts; the effect, which is run at once for the new
\* platform, sets the same ref back and has another AbortController.
SwitchPlatform ==
    /\ visit < MaxVisits
    /\ visit' = visit + 1
    /\ cancelled' = cancelled \ {mountedAt}
    /\ aborted' = aborted \cup {visit}
    /\ page' = [page EXCEPT !.verify = IF page.step = 3 /\ page.configure = "success"
                                       THEN "running" ELSE @]
    /\ heard' = None
    /\ UNCHANGED <<promiseVars, flow, mountedAt, made, twice>>
-----------------------------------------------------------------------------
(* runConfigureFlow and the server's answers to it. *)

\* The server stores the job; its answer is under way.
PostHandled(f) ==
    /\ flow[f].at = "posting"
    /\ \E j \in Jobs :
          /\ Store(j)
          /\ flow' = [flow EXCEPT ![f].at = "posted", ![f].job = j]
          /\ made' = IF flow[f].mount # mountedAt THEN made ELSE made \cup {j}
    /\ UNCHANGED <<page, component, heard, twice>>

\* The job is there: its steps are shown, and the flow waits 1.5 s.
PostAnswered(f) ==
    /\ flow[f].at = "posted" /\ ~Stopped(f)
    /\ FlowAt(f, "sleeping")
    /\ UNCHANGED <<promiseVars, page, component, made, heard, twice>>

\* A poll finds the job's row.  At the end of the job the page goes on to the
\* verification or shows the failure.
Polled(f) ==
    LET answer == status[flow[f].job] IN
    /\ flow[f].at = "sleeping" /\ ~Stopped(f)
    /\ answer # "none"
    /\ CASE answer = "success" ->
              /\ page' = [page EXCEPT !.step = 3, !.configure = "success",
                            !.verify = IF /\ page.step = 3
                                          /\ page.configure = "success"
                                       THEN @ ELSE "running"]
              /\ Return(f)
         [] answer = "failed" ->
              /\ page' = [page EXCEPT !.configure = "failed"]
              /\ Return(f)
         [] OTHER -> UNCHANGED <<page, flow>>
    /\ UNCHANGED <<promiseVars, component, made, heard, twice>>

\* Mutant: a 404 is taken for a job that is not there yet.
PollAgain(f) ==
    /\ flow[f].at = "sleeping" /\ ~Stopped(f)
    /\ status[flow[f].job] = "none"
    /\ UNCHANGED imVars

\* The job's row is gone: 404.
PollNotFound(f) ==
    /\ flow[f].at = "sleeping" /\ ~Stopped(f)
    /\ status[flow[f].job] = "none"
    /\ page' = [page EXCEPT !.configure = "failed"]
    /\ Return(f)
    /\ UNCHANGED <<promiseVars, component, made, heard, twice>>

\* Mutant: the error is caught and not shown.
FlowFailsQuietly(f) ==
    /\ flow[f].at # "none" /\ ~Stopped(f)
    /\ Return(f)
    /\ UNCHANGED <<promiseVars, page, component, made, heard, twice>>

\* A request fails.
FlowFails(f) ==
    /\ flow[f].at # "none" /\ ~Stopped(f)
    /\ page' = [page EXCEPT !.configure = "failed"]
    /\ Return(f)
    /\ UNCHANGED <<promiseVars, component, made, heard, twice>>

\* The flow is aborted, or finds cancelledRef set: it ends and says nothing.
FlowCutOff(f) ==
    /\ flow[f].at # "none" /\ Stopped(f)
    /\ Return(f)
    /\ UNCHANGED <<promiseVars, page, component, made, heard, twice>>
-----------------------------------------------------------------------------
(* The verification: an effect of step 3. *)
Verifying == page.step = 3 /\ page.configure = "success" /\ page.verify = "running"

\* One round: the device lists its channels, the platform's among them or not.
VerifyRound(reports) ==
    /\ Verifying
    /\ page' = IF ChannelOk(reports) THEN [page EXCEPT !.verify = "success"]
               ELSE page
    /\ heard' = IF ChannelOk(reports) THEN reports ELSE heard
    /\ UNCHANGED <<promiseVars, flow, component, made, twice>>

\* A minute has passed, with failing commands or no connected channel.
VerifyTimesOut ==
    /\ Verifying
    /\ page' = [page EXCEPT !.verify = "failed"]
    /\ UNCHANGED <<promiseVars, flow, component, made, heard, twice>>

RetryVerify ==
    /\ page.step = 3 /\ page.verify = "failed"
    /\ page' = [page EXCEPT !.verify = IF page.configure = "success"
                                       THEN "running" ELSE "idle"]
    /\ UNCHANGED <<promiseVars, flow, component, made, heard, twice>>
-----------------------------------------------------------------------------
UserStep ==
    \/ \E step \in {0, 1} : GoTo(step)
    \/ \E f \in Flows : SubmitCredential(f) \/ Retry(f)
    \/ BackToCredentials
    \/ LeavePage
    \/ SwitchPlatform
    \/ RetryVerify

FlowStep(f) ==
    \/ PostHandled(f) \/ PostAnswered(f) \/ Polled(f) \/ PollNotFound(f)
    \/ FlowFails(f) \/ FlowCutOff(f)

PageStep ==
    \/ Draw
    \/ \E f \in Flows : FlowStep(f)
    \/ \E reports \in Reports : VerifyRound(reports)
    \/ VerifyTimesOut

\* The server goes on with a job, or stores one that another page asks for.
OthersJob(j) == (Store(j) \/ JobStep(j)) /\ UNCHANGED wizardVars

ImInit == PromiseInit /\ WizardInit
WizardNext ==
    \/ UserStep
    \/ PageStep
    \/ \E j \in Jobs : OthersJob(j)
WizardSpec == ImInit /\ [][WizardNext]_imVars

(***************************************************************************)
(* No job stays open for ever; the browser's requests are answered or      *)
(* fail, and its timers fire.  Nothing is assumed of the user.             *)
(***************************************************************************)
WizardFairness ==
    /\ \A j \in Jobs : WF_imVars(Closes(j) /\ UNCHANGED wizardVars)
    /\ \A f \in Flows :
          /\ WF_imVars(PostHandled(f) \/ (flow[f].at = "posting" /\ FlowFails(f)))
          /\ WF_imVars(PostAnswered(f))
          /\ WF_imVars(Polled(f))
          /\ WF_imVars(PollNotFound(f))
    /\ WF_imVars(VerifyTimesOut)

WizardFairSpec == WizardSpec /\ WizardFairness
-----------------------------------------------------------------------------
WizardTypeOK ==
    /\ status \in [Jobs -> JobStatus]
    /\ used \subseteq Jobs
    /\ configured \subseteq used
    /\ page \in PageStates
    /\ flow \in [Flows -> [at : {"none", "posting", "posted", "sleeping"},
                           job : Jobs \cup {None},
                           visit : 0 .. MaxVisits, mount : 0 .. MaxVisits]]
    /\ visit \in 1 .. MaxVisits
    /\ mountedAt \in 1 .. visit
    /\ cancelled \subseteq 1 .. visit /\ aborted \subseteq 1 .. visit
    /\ made \subseteq Jobs
    /\ heard \in Reports \cup {None}
    /\ twice \in BOOLEAN

(***************************************************************************)
(* The page shows that the configuration went well, or the channel is      *)
(* connected, only if a job it asked for has had the device run all the    *)
(* commands of the configuration: whatever polls of earlier visits, of a   *)
(* second flow or of a lost row bring.                                     *)
(***************************************************************************)
SuccessIsEarned ==
    page.configure = "success" \/ page.verify = "success" =>
        made \cap configured # {}

(***************************************************************************)
(* What a page shows of a configuration is decided by flows that began at  *)
(* its own URL, whatever flows of an earlier one were doing when it was    *)
(* changed.  (cancelledRef does not see to that: the effect for the new    *)
(* platform has set it back before an old flow reads it.)                  *)
(***************************************************************************)
OwnFlowDecides ==
    [][page'.configure # page.configure /\ page'.configure \in {"success", "failed"}
         => \E f \in Flows : flow[f].visit = visit /\ flow'[f] # flow[f]]_imVars

(***************************************************************************)
(* A page that shows a configuration as running has a flow that will say   *)
(* how it went: no flow of the page ends in silence, and none of an        *)
(* earlier visit is needed.  (What WizardEnds rests on.  After a change of *)
(* the URL without a new component it is not so.)                          *)
(***************************************************************************)
RunningHasFlow ==
    page.configure = "running" /\ visit = mountedAt =>
        \E f \in Flows : flow[f].at # "none" /\ flow[f].visit = visit

(***************************************************************************)
(* The page does not show "running" for ever: a configuration ends, also   *)
(* when the server is restarted under it or loses the job's last UPDATE    *)
(* (its row is collected after a day), and so does a verification.  Two    *)
(* cases are excused.  After a change of the URL without a new component   *)
(* the old flow is silenced and the page keeps its "running".  And of two  *)
(* flows at once, after a double click, one may fail when the other has    *)
(* succeeded: the verification is cut off, and still shown as running.     *)
(***************************************************************************)
WizardEnds ==
    /\ (page.configure = "running" /\ visit = mountedAt)
            ~> (page.configure # "running" \/ visit # mountedAt)
    /\ (page.step = 3 /\ page.verify = "running")
            ~> \/ page.step # 3 \/ page.verify # "running"
               \/ twice /\ page.configure = "failed"

(***************************************************************************)
(* docs/test-cases.md, TC-FE-IM-004: "Final success state only when IM     *)
(* status is `connected`; otherwise shows pending/failed."                 *)
(***************************************************************************)
FinalSuccessOnlyWhenConnected ==
    page.verify = "success" => "connected" \in heard
=============================================================================
