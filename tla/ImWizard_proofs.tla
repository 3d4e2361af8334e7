---------------------------- MODULE ImWizard_proofs ----------------------------
(***************************************************************************)
(* The IM configuration page, for every number of jobs, flows and visits:  *)
(* types, what its outcome rests on, and that a running flow is attended.  *)
(***************************************************************************)
EXTENDS ImWizard, TLAPS

(* The jobs, as JobPromise has them. *)

PromiseInv ==
    /\ status \in [Jobs -> JobStatus]
    /\ used \subseteq Jobs
    /\ configured \subseteq used
    /\ \A j \in Jobs : status[j] = "success" => j \in configured

LEMMA PromiseInvInit == PromiseInit => PromiseInv
  BY DEF PromiseInit, PromiseInv, JobStatus

\* Whatever happens to the jobs, a configured job stays one.
LEMMA PromiseInvStep ==
    ASSUME PromiseInv,
           \/ \E j \in Jobs : Store(j) \/ JobStep(j)
           \/ UNCHANGED promiseVars
    PROVE  PromiseInv' /\ configured \subseteq configured'
  <1> USE DEF PromiseInv, JobStatus
  <1>1. ASSUME NEW j \in Jobs, Store(j)
        PROVE  PromiseInv' /\ configured \subseteq configured'
    BY <1>1 DEF Store, Put
  <1>2. ASSUME NEW j \in Jobs, Configure(j)
        PROVE  PromiseInv' /\ configured \subseteq configured'
    BY <1>2 DEF Configure
  <1>3. ASSUME NEW j \in Jobs, Succeed(j)
        PROVE  PromiseInv' /\ configured \subseteq configured'
    BY <1>3 DEF Succeed, Put
  <1>4. ASSUME NEW j \in Jobs, Break(j)
        PROVE  PromiseInv' /\ configured \subseteq configured'
    BY <1>4 DEF Break, Put
  <1>5. ASSUME NEW j \in Jobs, Vanish(j)
        PROVE  PromiseInv' /\ configured \subseteq configured'
    BY <1>5 DEF Vanish, Put
  <1>6. CASE UNCHANGED promiseVars
    BY <1>6 DEF promiseVars
  <1> QED
    BY <1>1, <1>2, <1>3, <1>4, <1>5, <1>6 DEF JobStep
-----------------------------------------------------------------------------
(* The page. *)

\* Of the AbortControllers, those of the visits that are over have aborted;
\* cancelledRef of the component that is there is not set; and a flow of the
\* visit that is shown has the refs of the component that is there.
RefsInv ==
    /\ \A n \in aborted : n < visit
    /\ \A n \in 1 .. MaxVisits : n < visit => n \in aborted
    /\ mountedAt \notin cancelled
    /\ \A f \in Flows : flow[f].at # "none" =>
          /\ flow[f].visit \in 1 .. MaxVisits
          /\ flow[f].visit = visit => flow[f].mount = mountedAt

\* A flow that is not stopped polls for a job that its own page asked for.
WizardInv ==
    /\ PromiseInv
    /\ WizardTypeOK
    /\ SuccessIsEarned
    /\ RefsInv
    /\ \A f \in Flows :
          /\ flow[f].visit <= visit
          /\ flow[f].at \in {"posted", "sleeping"} =>
                /\ flow[f].job \in Jobs
                /\ flow[f].visit = visit => flow[f].job \in made

\* What stops a flow stops those of earlier visits, and no other.
LEMMA StoppedIsOld ==
    ASSUME WizardInv, NEW f \in Flows, flow[f].at # "none"
    PROVE  Stopped(f) <=> flow[f].visit # visit
  BY DEF WizardInv, WizardTypeOK, RefsInv, Stopped

LEMMA WizardInvInit == PromiseInit /\ WizardInit => WizardInv
  <1> SUFFICES ASSUME PromiseInit, WizardInit PROVE WizardInv
    OBVIOUS
  <1>1. PromiseInv
    BY PromiseInvInit
  <1>2. 1 \in 1 .. MaxVisits /\ 0 \in 0 .. MaxVisits
    BY WizardConstants
  <1>3. WizardTypeOK
    <2>1. visit \in 1 .. MaxVisits /\ mountedAt \in 1 .. visit
      BY <1>2 DEF WizardInit
    <2>4. twice \in BOOLEAN
      BY Zenon DEF WizardInit
    <2>2. flow \in [Flows -> [at : {"none", "posting", "posted", "sleeping"},
                             job : Jobs \cup {None}, visit : 0 .. MaxVisits,
                             mount : 0 .. MaxVisits]]
      BY <1>2 DEF WizardInit, NoFlow
    <2>3. page \in PageStates
      BY DEF WizardInit, Fresh, PageStates
    <2> QED
      BY <1>1, <2>1, <2>2, <2>3, <2>4 DEF WizardInit, WizardTypeOK, PromiseInv
  <1>4. SuccessIsEarned
    BY DEF WizardInit, SuccessIsEarned, Fresh
  <1>5. \A f \in Flows : flow[f].visit <= visit /\ flow[f].at = "none"
    BY DEF WizardInit, NoFlow
  <1>6. RefsInv
    BY <1>5 DEF WizardInit, RefsInv
  <1> QED
    BY <1>1, <1>3, <1>4, <1>5, <1>6 DEF WizardInv

\* Steps of the jobs alone.
LEMMA WizardInvJobs ==
    ASSUME WizardInv, UNCHANGED wizardVars,
           \/ \E j \in Jobs : Store(j) \/ JobStep(j)
           \/ UNCHANGED promiseVars
    PROVE  WizardInv'
  <1>1. PromiseInv' /\ configured \subseteq configured'
    BY PromiseInvStep DEF WizardInv
  <1> QED
    BY <1>1 DEF WizardInv, WizardTypeOK, SuccessIsEarned, PromiseInv, RefsInv,
                 wizardVars, component

LEMMA WizardInvStep ==
    ASSUME WizardInv, [WizardNext]_imVars
    PROVE  WizardInv'
  <1> USE WizardConstants
          DEF WizardInv, WizardTypeOK, PromiseInv, SuccessIsEarned, RefsInv,
              promiseVars, component, PageStates
  <1>1. ASSUME NEW step \in {0, 1}, GoTo(step) PROVE WizardInv'
    BY <1>1 DEF GoTo
  <1>2. ASSUME NEW f \in Flows, StartFlow(f) PROVE WizardInv'
    <2>1. /\ UNCHANGED <<status, used, configured, visit, mountedAt, cancelled,
                         aborted, made, heard>>
          /\ twice' \in BOOLEAN
      BY <1>2 DEF StartFlow
    <2>2. flow' \in [Flows -> [at : {"none", "posting", "posted", "sleeping"},
                              job : Jobs \cup {None}, visit : 0 .. MaxVisits,
                              mount : 0 .. MaxVisits]]
      BY <1>2 DEF StartFlow
    <2>3. /\ flow'[f].at = "posting" /\ flow'[f].visit = visit
          /\ flow'[f].mount = mountedAt
          /\ \A g \in Flows \ {f} : flow'[g] = flow[g]
      BY <1>2 DEF StartFlow
    <2>4. /\ page' \in PageStates
          /\ page'.configure = "running" /\ page'.verify = "idle"
      <3>1. page' = [step |-> 2, drawn |-> FALSE, configure |-> "running",
                     verify |-> "idle"]
        BY <1>2 DEF StartFlow, PageStates
      <3> QED
        BY <3>1 DEF PageStates
    <2> QED
      BY <2>1, <2>2, <2>3, <2>4
  <1>3. CASE Draw
    BY <1>3 DEF Draw
  <1>4. CASE BackToCredentials
    BY <1>4 DEF BackToCredentials
  <1>5. CASE LeavePage
    <2>1. /\ visit < MaxVisits /\ visit' = visit + 1 /\ mountedAt' = visit + 1
          /\ cancelled' = cancelled \cup {mountedAt}
          /\ aborted' = aborted \cup {visit}
          /\ made' = {} /\ heard' = None
          /\ UNCHANGED <<status, used, configured, flow>>
      BY <1>5 DEF LeavePage
    <2>2. page' \in PageStates /\ page'.configure = "idle" /\ page'.verify = "idle"
      BY <1>5 DEF LeavePage, Fresh
    <2>3. twice' \in BOOLEAN
      BY Zenon, <1>5 DEF LeavePage
    <2>4. WizardTypeOK'
      BY <2>1, <2>2, <2>3
    <2>5. RefsInv'
      BY <2>1
    <2> QED
      BY <2>1, <2>2, <2>4, <2>5
  <1>6. CASE SwitchPlatform
    BY <1>6 DEF SwitchPlatform
  <1>7. CASE RetryVerify
    BY <1>7 DEF RetryVerify
  <1>8. ASSUME NEW f \in Flows, PostHandled(f) PROVE WizardInv'
    <2>1. PICK j \in Jobs :
             /\ Store(j)
             /\ flow' = [flow EXCEPT ![f].at = "posted", ![f].job = j]
             /\ made' = IF flow[f].mount # mountedAt THEN made ELSE made \cup {j}
      BY <1>8 DEF PostHandled
    <2>2. PromiseInv' /\ configured' = configured
      BY <2>1, PromiseInvStep DEF Store
    <2>3. made' \subseteq Jobs /\ made \subseteq made'
      BY <2>1
    <2>4. UNCHANGED <<page, component, heard, twice>>
      BY <1>8 DEF PostHandled
    <2>5. /\ flow' \in [Flows -> [at : {"none", "posting", "posted", "sleeping"},
                                  job : Jobs \cup {None}, visit : 0 .. MaxVisits,
                                  mount : 0 .. MaxVisits]]
          /\ \A g \in Flows : /\ flow'[g].visit = flow[g].visit
                              /\ flow'[g].mount = flow[g].mount
                              /\ flow'[g].at # "none" => flow[g].at # "none"
          /\ flow'[f].job = j
          /\ \A g \in Flows \ {f} : flow'[g] = flow[g]
      <3>1. /\ flow[f].at = "posting"
            /\ \A g \in Flows :
                  flow[g] \in [at : {"none", "posting", "posted", "sleeping"},
                              job : Jobs \cup {None}, visit : 0 .. MaxVisits,
                              mount : 0 .. MaxVisits]
        BY <1>8 DEF PostHandled
      <3>2. /\ \A g \in Flows \ {f} : flow'[g] = flow[g]
            /\ flow'[f] = [flow[f] EXCEPT !.at = "posted", !.job = j]
            /\ flow' = [g \in Flows |-> flow'[g]]
        BY Zenon, <2>1, <3>1
      <3>3. flow'[f] = [at |-> "posted", job |-> j, visit |-> flow[f].visit,
                        mount |-> flow[f].mount]
        BY <3>1, <3>2
      <3>4. flow'[f] \in [at : {"none", "posting", "posted", "sleeping"},
                         job : Jobs \cup {None}, visit : 0 .. MaxVisits,
                         mount : 0 .. MaxVisits]
        BY <3>1, <3>3
      <3>5. \A g \in Flows :
               flow'[g] \in [at : {"none", "posting", "posted", "sleeping"},
                            job : Jobs \cup {None}, visit : 0 .. MaxVisits,
                            mount : 0 .. MaxVisits]
        BY <3>1, <3>2, <3>4
      <3>6. flow' \in [Flows -> [at : {"none", "posting", "posted", "sleeping"},
                                job : Jobs \cup {None}, visit : 0 .. MaxVisits,
                                mount : 0 .. MaxVisits]]
        BY Zenon, <3>2, <3>5
      <3> QED
        BY <3>1, <3>2, <3>3, <3>6
    <2>6. flow[f].visit = visit => j \in made'
      BY <1>8, <2>1 DEF PostHandled
    <2>7. WizardTypeOK'
      <3>1. twice' \in BOOLEAN
        BY Zenon, <2>4
      <3> QED
        BY <2>2, <2>3, <2>4, <2>5, <3>1
    <2>8. UNCHANGED <<page, visit, mountedAt, cancelled, aborted>>
      BY <2>4
    <2>9. RefsInv'
      <3>1. \A g \in Flows : flow'[g].at # "none" =>
               /\ flow'[g].visit \in 1 .. MaxVisits
               /\ flow'[g].visit = visit => flow'[g].mount = mountedAt
        BY <2>5
      <3> QED
        BY <2>8, <3>1
    <2>10. SuccessIsEarned'
      BY <2>2, <2>3, <2>8
    <2>11. \A g \in Flows :
              /\ flow'[g].visit <= visit'
              /\ flow'[g].at \in {"posted", "sleeping"} =>
                    /\ flow'[g].job \in Jobs
                    /\ flow'[g].visit = visit' => flow'[g].job \in made'
      BY <2>3, <2>5, <2>6, <2>8
    <2> QED
      BY <2>2, <2>7, <2>9, <2>10, <2>11
  <1>9. ASSUME NEW f \in Flows, PostAnswered(f) PROVE WizardInv'
    BY <1>9 DEF PostAnswered, FlowAt
  <1>10. ASSUME NEW f \in Flows, Polled(f) PROVE WizardInv'
    <2>1. /\ UNCHANGED <<status, used, configured, component, made, heard, twice>>
          /\ flow[f].at = "sleeping" /\ flow[f].visit = visit
      BY <1>10, StoppedIsOld DEF Polled
    <2>2. flow[f].job \in made
      BY <2>1
    <2>3. CASE status[flow[f].job] = "success"
      <3>1. made' \cap configured' # {}
        BY <2>1, <2>2, <2>3
      <3>2. /\ Return(f)
            /\ page' \in PageStates
        <4>1. PICK v \in {"idle", "running", "success", "failed"} :
                 page' = [page EXCEPT !.step = 3, !.configure = "success",
                                      !.verify = v]
          BY <1>10, <2>3 DEF Polled, PageStates
        <4>2. page' = [step |-> 3, drawn |-> page.drawn,
                       configure |-> "success", verify |-> v]
          BY <4>1 DEF PageStates
        <4>3. page.drawn \in BOOLEAN
          BY DEF PageStates
        <4>4. Return(f)
          BY <1>10, <2>3 DEF Polled
        <4> QED
          BY <4>2, <4>3, <4>4 DEF PageStates
      <3> QED
        BY <2>1, <3>1, <3>2 DEF Return, NoFlow
    <2>4. CASE status[flow[f].job] = "failed"
      <3>1. Return(f) /\ page' = [page EXCEPT !.configure = "failed"]
        BY <1>10, <2>4 DEF Polled
      <3> QED
        BY <2>1, <3>1 DEF Return, NoFlow
    <2>5. CASE status[flow[f].job] \notin {"success", "failed"}
      <3>1. UNCHANGED <<page, flow>>
        BY <1>10, <2>5 DEF Polled
      <3> QED
        BY <2>1, <3>1
    <2> QED
      BY <2>3, <2>4, <2>5
  <1>11. ASSUME NEW f \in Flows, PollNotFound(f) PROVE WizardInv'
    BY <1>11 DEF PollNotFound, Return, NoFlow
  <1>12. ASSUME NEW f \in Flows, FlowFails(f) PROVE WizardInv'
    BY <1>12 DEF FlowFails, Return, NoFlow
  <1>13. ASSUME NEW f \in Flows, FlowCutOff(f) PROVE WizardInv'
    BY <1>13 DEF FlowCutOff, Return, NoFlow
  <1>14. ASSUME NEW reports \in Reports, VerifyRound(reports) PROVE WizardInv'
    BY <1>14 DEF VerifyRound, Verifying
  <1>15. CASE VerifyTimesOut
    BY <1>15 DEF VerifyTimesOut, Verifying
  <1>16. ASSUME NEW j \in Jobs, OthersJob(j) PROVE WizardInv'
    BY <1>16, WizardInvJobs DEF OthersJob
  <1>17. CASE UNCHANGED imVars
    BY <1>17, WizardInvJobs DEF imVars
  <1> QED
    BY <1>1, <1>2, <1>3, <1>4, <1>5, <1>6, <1>7, <1>8, <1>9, <1>10, <1>11,
       <1>12, <1>13, <1>14, <1>15, <1>16, <1>17
       DEF WizardNext, UserStep, PageStep, FlowStep, SubmitCredential, Retry

\* To the jobs a step of the page is a step of one of them, or none.
LEMMA WizardJobSteps ==
    ASSUME [WizardNext]_imVars
    PROVE  \/ \E j \in Jobs : Store(j) \/ JobStep(j)
           \/ UNCHANGED promiseVars
  BY DEF WizardNext, UserStep, PageStep, FlowStep, OthersJob, imVars, promiseVars,
         GoTo, SubmitCredential, Retry, StartFlow, BackToCredentials, LeavePage,
         SwitchPlatform, RetryVerify, Draw, PostHandled, PostAnswered, Polled,
         PollNotFound, FlowFails, FlowCutOff, VerifyRound, VerifyTimesOut

\* A flow that ends, and is not stopped, says how the configuration went; one
\* that begins belongs to the URL at the time.
LEMMA RunningHasFlowStep ==
    ASSUME WizardInv, RunningHasFlow, [WizardNext]_imVars
    PROVE  RunningHasFlow'
  <1> USE DEF WizardInv, WizardTypeOK, RunningHasFlow, component
  <1>1. ASSUME NEW f \in Flows, StartFlow(f) PROVE RunningHasFlow'
    <2>1. flow'[f].at = "posting" /\ flow'[f].visit = visit'
      BY <1>1 DEF StartFlow
    <2> QED
      BY <2>1
  <1>2. CASE LeavePage
    BY <1>2 DEF LeavePage, Fresh
  <1>3. CASE SwitchPlatform
    <2>1. visit' # mountedAt'
      BY <1>3 DEF SwitchPlatform
    <2> QED
      BY <2>1
  <1>4. ASSUME NEW f \in Flows,
               PostHandled(f) \/ PostAnswered(f)
        PROVE  RunningHasFlow'
    <2>1. UNCHANGED <<page, visit, mountedAt>>
      BY <1>4 DEF PostHandled, PostAnswered
    <2>2. \A g \in Flows : /\ flow'[g].visit = flow[g].visit
                           /\ flow[g].at # "none" => flow'[g].at # "none"
      BY <1>4 DEF PostHandled, PostAnswered, FlowAt
    <2> QED
      BY <2>1, <2>2
  <1>5. ASSUME NEW f \in Flows,
               Polled(f) \/ PollNotFound(f) \/ FlowFails(f)
        PROVE  RunningHasFlow'
    <2>1. \/ page'.configure # "running"
          \/ UNCHANGED <<page, flow, visit, mountedAt>>
      <3>1. CASE PollNotFound(f) \/ FlowFails(f)
        BY <3>1 DEF PollNotFound, FlowFails, PageStates
      <3>2. CASE Polled(f)
        BY <3>2 DEF Polled, PageStates
      <3> QED
        BY <1>5, <3>1, <3>2
    <2> QED
      BY <2>1
  <1>6. ASSUME NEW f \in Flows, FlowCutOff(f) PROVE RunningHasFlow'
    <2>1. /\ flow[f].visit # visit /\ UNCHANGED <<page, visit, mountedAt>>
          /\ \A g \in Flows \ {f} : flow'[g] = flow[g]
      BY <1>6, StoppedIsOld DEF FlowCutOff, Return, component
    <2> QED
      BY <2>1
  <1>7. CASE \/ \E step \in {0, 1} : GoTo(step)
             \/ BackToCredentials
             \/ RetryVerify
             \/ Draw
             \/ \E reports \in Reports : VerifyRound(reports)
             \/ VerifyTimesOut
    <2>1. page'.configure = page.configure /\ UNCHANGED <<flow, visit, mountedAt>>
      BY <1>7 DEF GoTo, BackToCredentials, RetryVerify, Draw, VerifyRound,
                  VerifyTimesOut, PageStates
    <2> QED
      BY <2>1
  <1>8. CASE UNCHANGED wizardVars
    BY <1>8 DEF wizardVars, component
  <1> QED
    BY <1>1, <1>2, <1>3, <1>4, <1>5, <1>6, <1>7, <1>8
       DEF WizardNext, UserStep, PageStep, FlowStep, SubmitCredential, Retry,
           OthersJob, imVars

\* Only flows of the URL that is shown settle what the page says.
LEMMA OwnFlowDecidesStep ==
    ASSUME WizardInv, [WizardNext]_imVars,
           page'.configure # page.configure,
           page'.configure \in {"success", "failed"}
    PROVE  \E f \in Flows : flow[f].visit = visit /\ flow'[f] # flow[f]
  <1> USE DEF WizardInv, WizardTypeOK
  <1>1. ASSUME NEW f \in Flows,
               Polled(f) \/ PollNotFound(f) \/ FlowFails(f)
        PROVE  flow[f].visit = visit /\ flow'[f] # flow[f]
    <2>1. flow[f].at # "none" /\ flow[f].visit = visit
      BY <1>1, StoppedIsOld DEF Polled, PollNotFound, FlowFails
    <2>2. Return(f)
      BY <1>1 DEF Polled, PollNotFound, FlowFails
    <2>3. flow'[f].at = "none"
      BY <2>2 DEF Return, NoFlow
    <2> QED
      BY <2>1, <2>3
  <1>2. ASSUME NEW f \in Flows, StartFlow(f) PROVE page'.configure = "running"
    BY <1>2 DEF StartFlow, PageStates
  <1>3. ASSUME NEW f \in Flows,
               PostHandled(f) \/ PostAnswered(f) \/ FlowCutOff(f)
        PROVE  page' = page
    BY <1>3 DEF PostHandled, PostAnswered, FlowCutOff
  <1>4. CASE LeavePage
    BY <1>4 DEF LeavePage, Fresh
  <1>5. CASE \/ \E step \in {0, 1} : GoTo(step)
             \/ BackToCredentials
             \/ SwitchPlatform
             \/ RetryVerify
             \/ Draw
             \/ \E reports \in Reports : VerifyRound(reports)
             \/ VerifyTimesOut
    BY <1>5 DEF GoTo, BackToCredentials, SwitchPlatform, RetryVerify, Draw,
                VerifyRound, VerifyTimesOut, PageStates
  <1>6. CASE UNCHANGED wizardVars
    BY <1>6 DEF wizardVars, component
  <1> QED
    BY <1>1, <1>2, <1>3, <1>4, <1>5, <1>6
       DEF WizardNext, UserStep, PageStep, FlowStep, SubmitCredential, Retry,
           OthersJob, imVars

\* What holds of the page whoever else asks the server for jobs.
THEOREM WizardIsTrue ==
    WizardSpec => [](WizardTypeOK /\ SuccessIsEarned /\ RunningHasFlow)
  <1>1. ImInit => WizardInv /\ RunningHasFlow
    BY WizardInvInit DEF ImInit, WizardInit, Fresh, RunningHasFlow
  <1>2. WizardInv /\ RunningHasFlow /\ [WizardNext]_imVars
           => WizardInv' /\ RunningHasFlow'
    BY WizardInvStep, RunningHasFlowStep
  <1>3. WizardInv => WizardTypeOK /\ SuccessIsEarned
    BY DEF WizardInv
  <1> QED
    BY <1>1, <1>2, <1>3, PTL DEF WizardSpec
=============================================================================
