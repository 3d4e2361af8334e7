-------------------------- MODULE WizardOnJobs_proofs --------------------------
(***************************************************************************)
(* The wizard on the jobs, for every number of jobs, flows, visits and     *)
(* restarts: the page implements ImWizard, and its success is the device's. *)
(***************************************************************************)
EXTENDS WizardOnJobs, ConfigJobs_proofs

\* The jobs take no step they do not take without the page.
LEMMA JobsByThemselves == ComposedNext \/ UNCHANGED allVars => [Next]_vars
  BY PlatformSteps DEF ComposedNext, JobsAlone, PageAlone, Asked, Next, allVars

LEMMA ComposedJobs == ComposedSpec => Spec
  <1>1. ComposedInit => Init
    BY DEF ComposedInit
  <1>2. [ComposedNext]_allVars => [Next]_vars
    BY JobsByThemselves
  <1> QED
    BY <1>1, <1>2, PTL DEF ComposedSpec, Spec
-----------------------------------------------------------------------------
(* The refinement. *)

\* What JobPromise calls a step of a job the wizard takes for one.
LEMMA PromiseSeen ==
    ASSUME Promise!PromiseNext, UNCHANGED wizardVars
    PROVE  W!WizardNext
  <1>1. PICK j \in Jobs : Promise!Store(j) \/ Promise!JobStep(j)
    BY DEF Promise!PromiseNext
  <1>2. Promise!Store(j) => W!Store(j)
    BY DEF Promise!Store, W!Store, Promise!Put, W!Put
  <1>3. Promise!JobStep(j) => W!JobStep(j)
    BY DEF Promise!JobStep, W!JobStep, Promise!Configure, W!Configure,
           Promise!Succeed, W!Succeed, Promise!Break, W!Break,
           Promise!Vanish, W!Vanish, Promise!Put, W!Put
  <1>4. UNCHANGED W!wizardVars
    BY DEF wizardVars, W!wizardVars, W!component
  <1> QED
    BY <1>1, <1>2, <1>3, <1>4 DEF W!WizardNext, W!OthersJob

LEMMA WizardSteps ==
    ASSUME JobsInv, JobsInv', [ComposedNext]_allVars
    PROVE  [W!WizardNext]_(W!imVars)
  <1>1. CASE JobsAlone
    <2>1. [Promise!PromiseNext]_(Promise!promiseVars)
      BY <1>1, PromiseStep DEF JobsAlone
    <2>2. CASE Promise!PromiseNext
      BY <1>1, <2>2, PromiseSeen DEF JobsAlone
    <2>3. CASE UNCHANGED Promise!promiseVars
      BY <1>1, <2>3 DEF JobsAlone, wizardVars, Promise!promiseVars, W!imVars,
                        W!promiseVars, W!wizardVars, W!component
    <2> QED
      BY <2>1, <2>2, <2>3
  <1>2. CASE PageAlone
    BY <1>2 DEF PageAlone, W!WizardNext
  <1>3. ASSUME NEW f \in Flows, Asked(f) PROVE W!WizardNext
    BY <1>3 DEF Asked, W!WizardNext, W!PageStep, W!FlowStep
  <1>4. CASE UNCHANGED allVars
    <2>1. UNCHANGED <<row, runner, ran>> /\ UNCHANGED wizardVars
      BY <1>4 DEF allVars, vars
    <2>2. Done' = Done
      BY <2>1 DEF Done
    <2> QED
      BY <2>1, <2>2 DEF wizardVars, W!imVars, W!promiseVars, W!wizardVars, W!component
  <1> QED
    BY <1>1, <1>2, <1>3, <1>4 DEF ComposedNext

LEMMA WizardStart == ComposedInit => W!ImInit
  <1> SUFFICES ASSUME ComposedInit PROVE W!ImInit
    OBVIOUS
  <1>1. Promise!PromiseInit
    BY PromiseStart DEF ComposedInit
  <1>2. W!PromiseInit
    BY <1>1 DEF Promise!PromiseInit, W!PromiseInit
  <1> QED
    BY <1>2 DEF ComposedInit, W!ImInit

(***************************************************************************)
(* With the server's jobs and the device behind it the page is the one     *)
(* ImWizard describes: what is proved of that page holds of this one.      *)
(***************************************************************************)
THEOREM PageSeesPromise == ComposedSpec => RefinesWizard
  <1>1. ComposedInit => W!ImInit
    BY WizardStart
  <1>2. JobsInv /\ JobsInv' /\ [ComposedNext]_allVars => [W!WizardNext]_(W!imVars)
    BY WizardSteps
  <1> QED
    BY <1>1, <1>2, ComposedJobs, JobsInvAlways, PTL
       DEF ComposedSpec, RefinesWizard, W!WizardSpec
-----------------------------------------------------------------------------
(* Whose job a flow polls for. *)

FlowRecords == [at : {"none", "posting", "posted", "sleeping"},
                job : Jobs \cup {None}, visit : Nat, mount : Nat]

\* The visits that are over are aborted, and a flow of the one that is shown is
\* of the component that is there: so a flow that is not stopped polls for a job
\* its own component asked for.
FlowInv ==
    /\ page \in W!PageStates
    /\ visit \in Nat /\ 1 <= visit /\ mountedAt \in Nat /\ mountedAt <= visit
    /\ flow \in [Flows -> FlowRecords]
    /\ \A n \in Nat : 1 <= n /\ n < visit => n \in aborted
    /\ \A f \in Flows :
          /\ flow[f].visit <= visit
          /\ flow[f].at # "none" =>
                /\ 1 <= flow[f].visit
                /\ flow[f].visit = visit => flow[f].mount = mountedAt
          /\ flow[f].at \in {"posted", "sleeping"} =>
                /\ flow[f].job \in Jobs
                /\ runner[flow[f].job].platform \in Channels
                /\ flow[f].visit = visit => flow[f].job \in made

LEMMA FlowInvInit == ComposedInit => FlowInv
  <1> SUFFICES ASSUME ComposedInit PROVE FlowInv
    OBVIOUS
  <1>1. /\ page = W!Fresh /\ flow = [f \in Flows |-> W!NoFlow]
        /\ visit = 1 /\ mountedAt = 1
    BY DEF ComposedInit, W!WizardInit
  <1>2. page \in W!PageStates
    BY <1>1 DEF W!Fresh, W!PageStates
  <1>3. flow \in [Flows -> FlowRecords]
    BY <1>1 DEF W!NoFlow, FlowRecords
  <1>4. \A f \in Flows : flow[f].at = "none" /\ flow[f].visit = 0
    BY <1>1 DEF W!NoFlow
  <1> QED
    BY <1>1, <1>2, <1>3, <1>4 DEF FlowInv

\* The platform of a job that has one is the job's for good.
LEMMA PlatformStays ==
    ASSUME JobsInv, [Next]_vars, NEW j \in Jobs, runner[j].platform \in Channels
    PROVE  runner'[j].platform = runner[j].platform
  <1>1. TypeOK /\ Progress(j) /\ runner[j].platform # "none"
    BY PlatformSteps DEF JobsInv
  <1>2. ASSUME NEW i \in Jobs, NEW p \in Platforms, Create(i, p)
        PROVE  runner'[j] = runner[j]
    <2>1. runner[i].at = "idle" /\ runner[i].platform = "none"
      BY <1>2 DEF Create, JobsInv, Progress
    <2>2. PICK r : runner' = [runner EXCEPT ![i] = r]
      BY <1>2 DEF Create
    <2> QED
      BY <1>1, <2>1, <2>2 DEF TypeOK
  <1>3. CASE \/ \E i \in Jobs : StepBegins(i) \/ GiveUp(i) \/ JobEnds(i) \/ Collect(i)
             \/ Crash \/ Execute \/ LoseQueue
    BY <1>3, NothingStarts
  <1>4. CASE UNCHANGED vars
    BY <1>4 DEF vars
  <1> QED
    BY <1>2, <1>3, <1>4 DEF Next, RunnerStep

\* A flow that only goes on keeps its job and its visit.
Posting(f) ==
    /\ flow'[f].at = "posting"
    /\ 1 <= flow'[f].visit /\ flow'[f].visit <= visit
    /\ flow'[f].visit = visit => flow'[f].mount = mountedAt
Polling(f) ==
    /\ flow[f].at \in {"posted", "sleeping"}
    /\ flow'[f].job = flow[f].job
    /\ flow'[f].visit = flow[f].visit /\ flow'[f].mount = flow[f].mount
Kept(f) ==
    \/ flow'[f].at = "none" /\ flow'[f].visit <= visit
    \/ Posting(f)
    \/ Polling(f)

LEMMA FlowsKept ==
    ASSUME JobsInv, FlowInv, [Next]_vars, UNCHANGED W!component,
           page' \in W!PageStates, made \subseteq made',
           flow' \in [Flows -> FlowRecords],
           \A f \in Flows : Kept(f)
    PROVE  FlowInv'
  <1>c. UNCHANGED <<visit, mountedAt, aborted>>
    BY DEF W!component
  <1> SUFFICES ASSUME NEW f \in Flows
               PROVE  /\ flow'[f].visit <= visit
                      /\ flow'[f].at # "none" =>
                            /\ 1 <= flow'[f].visit
                            /\ flow'[f].visit = visit => flow'[f].mount = mountedAt
                      /\ flow'[f].at \in {"posted", "sleeping"} =>
                            /\ flow'[f].job \in Jobs
                            /\ runner'[flow'[f].job].platform \in Channels
                            /\ flow'[f].visit = visit => flow'[f].job \in made'
    BY <1>c DEF FlowInv
  <1>1. CASE flow'[f].at = "none" /\ flow'[f].visit <= visit
    BY <1>1
  <1>2. CASE Posting(f)
    BY <1>2 DEF Posting
  <1>3. CASE Polling(f)
    BY <1>3, PlatformStays DEF Polling, FlowInv
  <1> QED
    BY <1>1, <1>2, <1>3 DEF Kept

\* The page is on another URL: every flow there is belongs to an earlier one.
LEMMA FlowsLeft ==
    ASSUME FlowInv, visit' = visit + 1, mountedAt' \in {mountedAt, visit + 1},
           aborted' = aborted \cup {visit},
           page' \in W!PageStates, UNCHANGED <<flow, runner>>
    PROVE  FlowInv'
  <1>1. \A f \in Flows : flow[f].visit \in Nat /\ flow'[f].visit # visit'
    BY DEF FlowInv, FlowRecords
  <1>2. \A f \in Flows : flow'[f].visit <= visit'
    BY <1>1 DEF FlowInv
  <1>3. visit' \in Nat /\ 1 <= visit' /\ mountedAt' \in Nat /\ mountedAt' <= visit'
    BY DEF FlowInv
  <1>4. \A n \in Nat : 1 <= n /\ n < visit' => n \in aborted'
    BY DEF FlowInv
  <1> QED
    BY <1>1, <1>2, <1>3, <1>4 DEF FlowInv

LEMMA FlowInvPage ==
    ASSUME JobsInv, FlowInv, PageAlone
    PROVE  FlowInv'
  <1>v. UNCHANGED vars /\ [Next]_vars /\ runner' = runner
    BY DEF PageAlone, vars
  <1>p. /\ page \in W!PageStates /\ visit \in Nat /\ mountedAt \in Nat
        /\ mountedAt <= visit
        /\ flow \in [Flows -> FlowRecords]
        /\ \A f \in Flows : flow[f].visit <= visit
    BY DEF FlowInv
  \* Flows that the step leaves alone are kept.
  <1>k. ASSUME NEW g \in Flows, flow'[g] = flow[g] PROVE Kept(g)
    <2>1. flow[g].at \in {"none", "posting", "posted", "sleeping"}
      BY <1>p DEF FlowRecords
    <2> QED
      BY <1>k, <2>1 DEF FlowInv, Kept, Posting, Polling
  <1>s. ASSUME flow' = flow, UNCHANGED W!component, made' = made,
               page' \in W!PageStates
        PROVE  FlowInv'
    BY <1>v, <1>s DEF FlowInv, W!component
  <1>1. CASE \/ \E step \in {0, 1} : W!GoTo(step)
             \/ W!BackToCredentials \/ W!RetryVerify \/ W!Draw
             \/ \E reports \in Reports : W!VerifyRound(reports)
             \/ W!VerifyTimesOut
    <2>1. /\ flow' = flow /\ UNCHANGED W!component /\ made' = made
      BY <1>1 DEF W!GoTo, W!BackToCredentials, W!RetryVerify, W!Draw, W!VerifyRound,
                  W!VerifyTimesOut
    <2>2. page' \in W!PageStates
      <3>1. ASSUME NEW step \in {0, 1}, W!GoTo(step) PROVE page' \in W!PageStates
        BY <1>p, <3>1 DEF W!GoTo, W!PageStates
      <3>2. CASE W!BackToCredentials
        BY <1>p, <3>2 DEF W!BackToCredentials, W!PageStates
      <3>3. CASE W!RetryVerify
        BY <1>p, <3>3 DEF W!RetryVerify, W!PageStates
      <3>4. CASE W!Draw
        BY <1>p, <3>4 DEF W!Draw, W!PageStates
      <3>5. ASSUME NEW reports \in Reports, W!VerifyRound(reports)
            PROVE  page' \in W!PageStates
        BY <1>p, <3>5 DEF W!VerifyRound, W!PageStates
      <3>6. CASE W!VerifyTimesOut
        BY <1>p, <3>6 DEF W!VerifyTimesOut, W!PageStates
      <3> QED
        BY <1>1, <3>1, <3>2, <3>3, <3>4, <3>5, <3>6
    <2> QED
      BY <1>s, <2>1, <2>2
  <1>2. ASSUME NEW f \in Flows, W!StartFlow(f) PROVE FlowInv'
    <2>1. UNCHANGED W!component /\ made' = made
      BY <1>2 DEF W!StartFlow
    <2>2. page' \in W!PageStates
      <3>1. page' = [step |-> 2, drawn |-> FALSE, configure |-> "running",
                     verify |-> "idle"]
        BY <1>2, <1>p DEF W!StartFlow, W!PageStates
      <3> QED
        BY <3>1 DEF W!PageStates
    <2>3. PICK r \in FlowRecords :
             /\ flow' = [flow EXCEPT ![f] = r]
             /\ r.at = "posting" /\ r.visit = visit /\ r.mount = mountedAt
      <3>1. [at |-> "posting", job |-> None, visit |-> visit, mount |-> mountedAt]
                \in FlowRecords
        BY <1>p DEF FlowRecords
      <3> QED
        BY <1>2, <3>1 DEF W!StartFlow
    <2>4. flow' \in [Flows -> FlowRecords]
      BY <1>p, <2>3
    <2>5. flow'[f] = r /\ \A g \in Flows \ {f} : flow'[g] = flow[g]
      BY <1>p, <2>3
    <2>6. \A g \in Flows : Kept(g)
      <3>1. 1 <= visit
        BY DEF FlowInv
      <3>2. Kept(f)
        BY <1>p, <2>3, <2>5, <3>1 DEF Kept, Posting
      <3> QED
        BY <1>k, <2>5, <3>2
    <2> QED
      BY <1>v, <2>1, <2>2, <2>4, <2>6, FlowsKept
  <1>3. CASE W!LeavePage \/ W!SwitchPlatform
    <2>1. /\ visit' = visit + 1 /\ mountedAt' \in {mountedAt, visit + 1}
          /\ aborted' = aborted \cup {visit} /\ flow' = flow
      BY <1>3 DEF W!LeavePage, W!SwitchPlatform
    <2>2. page' \in W!PageStates
      <3>1. CASE W!LeavePage
        BY <3>1 DEF W!LeavePage, W!Fresh, W!PageStates
      <3>2. CASE W!SwitchPlatform
        <4>1. page.verify \in {"idle", "running", "success", "failed"}
          BY <1>p DEF W!PageStates
        <4>2. PICK v \in {"idle", "running", "success", "failed"} :
                 page' = [page EXCEPT !.verify = v]
          BY <3>2, <4>1 DEF W!SwitchPlatform
        <4> QED
          BY <1>p, <4>2 DEF W!PageStates
      <3> QED
        BY <1>3, <3>1, <3>2
    <2> QED
      BY <1>v, <2>1, <2>2, FlowsLeft
  <1>4. ASSUME NEW f \in Flows, W!PostHandled(f) PROVE FALSE
    BY <1>v, <1>4 DEF W!PostHandled, W!Store
  <1>5. ASSUME NEW f \in Flows, W!PostAnswered(f) PROVE FlowInv'
    <2>1. /\ UNCHANGED <<W!component, made, page>> /\ flow[f].at = "posted"
          /\ flow' = [flow EXCEPT ![f].at = "sleeping"]
      BY <1>5 DEF W!PostAnswered, W!FlowAt
    <2>2. flow' \in [Flows -> FlowRecords]
      BY <1>p, <2>1 DEF FlowRecords
    <2>3. \A g \in Flows : /\ flow'[g].job = flow[g].job
                           /\ flow'[g].visit = flow[g].visit
                           /\ flow'[g].mount = flow[g].mount
                           /\ g # f => flow'[g] = flow[g]
      BY <1>p, <2>1 DEF FlowRecords
    <2>4. \A g \in Flows : Kept(g)
      <3>1. Kept(f)
        BY <2>1, <2>3 DEF Kept, Polling
      <3> QED
        BY <1>k, <2>3, <3>1
    <2> QED
      BY <1>p, <1>v, <2>1, <2>2, <2>4, FlowsKept
  <1>6. ASSUME NEW f \in Flows,
               W!Polled(f) \/ W!PollNotFound(f) \/ W!FlowFails(f) \/ W!FlowCutOff(f)
        PROVE  FlowInv'
    <2>1. /\ UNCHANGED <<W!component, made>>
          /\ flow' = flow \/ flow' = [flow EXCEPT ![f] = W!NoFlow]
      BY <1>6 DEF W!Polled, W!PollNotFound, W!FlowFails, W!FlowCutOff, W!Return
    <2>2. page' \in W!PageStates
      <3>1. CASE W!Polled(f)
        <4>1. \/ page' = page
              \/ page' = [page EXCEPT !.configure = "failed"]
              \/ \E v \in {"idle", "running", "success", "failed"} :
                    page' = [page EXCEPT !.step = 3, !.configure = "success", !.verify = v]
          BY <1>p, <3>1 DEF W!Polled, W!PageStates
        <4>2. CASE page' = page \/ page' = [page EXCEPT !.configure = "failed"]
          BY <1>p, <4>2 DEF W!PageStates
        <4>3. ASSUME NEW v \in {"idle", "running", "success", "failed"},
                     page' = [page EXCEPT !.step = 3, !.configure = "success", !.verify = v]
              PROVE  page' \in W!PageStates
          <5>1. page' = [step |-> 3, drawn |-> page.drawn, configure |-> "success",
                         verify |-> v]
            BY <1>p, <4>3 DEF W!PageStates
          <5>2. page.drawn \in BOOLEAN
            BY <1>p DEF W!PageStates
          <5> QED
            BY <5>1, <5>2 DEF W!PageStates
        <4> QED
          BY <4>1, <4>2, <4>3
      <3>2. CASE W!PollNotFound(f) \/ W!FlowFails(f) \/ W!FlowCutOff(f)
        BY <1>p, <3>2 DEF W!PollNotFound, W!FlowFails, W!FlowCutOff, W!PageStates
      <3> QED
        BY <1>6, <3>1, <3>2
    <2>3. CASE flow' = flow
      BY <1>s, <2>1, <2>2, <2>3
    <2>4. CASE flow' = [flow EXCEPT ![f] = W!NoFlow]
      <3>1. W!NoFlow \in FlowRecords /\ W!NoFlow.at = "none" /\ W!NoFlow.visit = 0
        BY DEF W!NoFlow, FlowRecords
      <3>2. /\ flow' \in [Flows -> FlowRecords] /\ flow'[f] = W!NoFlow
            /\ \A g \in Flows \ {f} : flow'[g] = flow[g]
        BY <1>p, <2>4, <3>1
      <3>3. 0 <= visit
        BY <1>p
      <3>4. \A g \in Flows : Kept(g)
        <4>1. Kept(f)
          BY <3>1, <3>2, <3>3 DEF Kept
        <4> QED
          BY <1>k, <3>2, <4>1
      <3> QED
        BY <1>v, <2>1, <2>2, <3>2, <3>4, FlowsKept
    <2> QED
      BY <2>1, <2>3, <2>4
  <1> QED
    BY <1>1, <1>2, <1>3, <1>4, <1>5, <1>6
       DEF PageAlone, W!UserStep, W!PageStep, W!FlowStep, W!SubmitCredential, W!Retry

LEMMA FlowInvAsked ==
    ASSUME JobsInv, FlowInv, NEW f \in Flows, Asked(f)
    PROVE  FlowInv'
  <1>1. PICK j \in Jobs, p \in Channels : Create(j, p) /\ W!PostHandled(f)
    BY DEF Asked
  <1>2. PICK i \in Jobs :
           /\ W!Store(i)
           /\ flow' = [flow EXCEPT ![f].at = "posted", ![f].job = i]
           /\ made' = IF flow[f].mount # mountedAt THEN made ELSE made \cup {i}
    BY <1>1 DEF W!PostHandled
  <1>3. p \in Platforms /\ [Next]_vars
    BY <1>1, PlatformSteps DEF Next
  <1>4. runner[j].at = "idle" /\ runner \in [Jobs -> Runners]
    BY <1>1 DEF Create, JobsInv, TypeOK
  <1>5. PICK r : r = [at |-> "ready", key |-> FirstStep[p], platform |-> p]
    OBVIOUS
  <1>6. runner' = [runner EXCEPT ![j] = r]
    BY <1>1, <1>5 DEF Create
  <1>7. runner'[j].platform = p /\ runner'[j].at = "ready"
        /\ \A l \in Jobs \ {j} : runner'[l] = runner[l]
    BY <1>4, <1>5, <1>6
  <1>8. i = j
    <2>1. /\ i \notin {l \in Jobs : runner[l].at # "idle"}
          /\ {l \in Jobs : runner'[l].at # "idle"}
                = {l \in Jobs : runner[l].at # "idle"} \cup {i}
      BY <1>2 DEF W!Store
    <2>2. runner[i].at = "idle" /\ runner'[i].at # "idle"
      BY <2>1
    <2> QED
      BY <1>7, <2>2
  <1>9. /\ UNCHANGED <<page, visit, mountedAt, aborted>> /\ visit \in Nat /\ mountedAt \in Nat
        /\ mountedAt <= visit /\ flow \in [Flows -> FlowRecords] /\ page \in W!PageStates
    BY <1>1 DEF W!PostHandled, W!component, FlowInv
  <1>10. /\ flow' \in [Flows -> FlowRecords]
         /\ flow'[f].job = j /\ flow'[f].visit = flow[f].visit
         /\ flow'[f].mount = flow[f].mount
         /\ \A g \in Flows \ {f} : flow'[g] = flow[g]
    BY <1>2, <1>8, <1>9 DEF FlowRecords
  <1>a. flow[f].at = "posting"
    BY <1>1 DEF W!PostHandled
  <1>11. /\ 1 <= flow[f].visit
         /\ flow[f].visit = visit => flow[f].mount = mountedAt /\ j \in made'
    BY <1>2, <1>8, <1>9, <1>a DEF FlowInv
  <1>12. made \subseteq made'
    BY <1>2
  <1>13. ASSUME NEW g \in Flows, g # f
         PROVE  /\ flow'[g].visit <= visit
                /\ flow'[g].at # "none" =>
                      /\ 1 <= flow'[g].visit
                      /\ flow'[g].visit = visit => flow'[g].mount = mountedAt
                /\ flow'[g].at \in {"posted", "sleeping"} =>
                      /\ flow'[g].job \in Jobs
                      /\ runner'[flow'[g].job].platform \in Channels
                      /\ flow'[g].visit = visit => flow'[g].job \in made'
    BY <1>3, <1>10, <1>12, <1>13, PlatformStays DEF FlowInv
  <1>14. flow'[f].visit <= visit
    BY <1>10 DEF FlowInv
  <1> QED
    BY <1>7, <1>9, <1>10, <1>11, <1>13, <1>14 DEF FlowInv

LEMMA FlowInvStep ==
    ASSUME JobsInv, FlowInv, [ComposedNext]_allVars
    PROVE  FlowInv'
  <1>1. [Next]_vars
    BY JobsByThemselves
  <1>2. CASE UNCHANGED wizardVars
    BY <1>1, <1>2, PlatformStays DEF FlowInv, wizardVars
  <1> QED
    BY <1>2, FlowInvPage, FlowInvAsked DEF ComposedNext, JobsAlone, allVars
-----------------------------------------------------------------------------
(* The success that the page shows. *)

LEMMA SuccessIsPolled ==
    ASSUME FlowInv, [ComposedNext]_allVars,
           page.configure # "success", page'.configure = "success"
    PROVE  \E j \in made : /\ j \in Jobs
                           /\ row[j] = "success"
                           /\ runner[j].platform \in Channels
  <1>1. page \in W!PageStates
    BY DEF FlowInv
  <1>2. page' # page
    OBVIOUS
  <1>3. PageAlone
    BY <1>2 DEF ComposedNext, JobsAlone, Asked, W!PostHandled, allVars, wizardVars
  <1>4. ASSUME NEW f \in Flows, W!Polled(f)
        PROVE  /\ flow[f].job \in made /\ flow[f].job \in Jobs
               /\ row[flow[f].job] = "success"
               /\ runner[flow[f].job].platform \in Channels
    <2>1. flow[f].at = "sleeping" /\ flow[f].visit = visit
      BY <1>4 DEF W!Polled, W!Stopped, FlowInv, FlowRecords
    <2>2. CASE row[flow[f].job] = "success"
      BY <2>1, <2>2 DEF FlowInv
    <2>3. CASE row[flow[f].job] # "success"
      <3>1. page' = page \/ page' = [page EXCEPT !.configure = "failed"]
        BY <1>4, <2>3 DEF W!Polled
      <3> QED
        BY <1>1, <3>1 DEF W!PageStates
    <2> QED
      BY <2>2, <2>3
  <1>5. ASSUME NEW f \in Flows, W!StartFlow(f) PROVE FALSE
    BY <1>1, <1>5 DEF W!StartFlow, W!PageStates
  <1>6. ASSUME NEW f \in Flows,
               \/ W!PostHandled(f) \/ W!PostAnswered(f) \/ W!PollNotFound(f)
               \/ W!FlowFails(f) \/ W!FlowCutOff(f)
        PROVE  FALSE
    BY <1>1, <1>6 DEF W!PostHandled, W!PostAnswered, W!PollNotFound, W!FlowFails,
                      W!FlowCutOff, W!PageStates
  <1>7. CASE W!LeavePage
    BY <1>7 DEF W!LeavePage, W!Fresh
  <1>8. CASE \/ \E step \in {0, 1} : W!GoTo(step)
             \/ W!BackToCredentials \/ W!SwitchPlatform \/ W!RetryVerify \/ W!Draw
             \/ \E reports \in Reports : W!VerifyRound(reports)
             \/ W!VerifyTimesOut
    BY <1>1, <1>8 DEF W!GoTo, W!BackToCredentials, W!SwitchPlatform, W!RetryVerify,
                      W!Draw, W!VerifyRound, W!VerifyTimesOut, W!PageStates
  <1> QED
    BY <1>3, <1>4, <1>5, <1>6, <1>7, <1>8
       DEF PageAlone, W!UserStep, W!PageStep, W!FlowStep, W!SubmitCredential, W!Retry

(***************************************************************************)
(* From the page to the device: at the moment the user is told that the    *)
(* configuration went well the gateway runs with the credentials the page  *)
(* sent, unless another job for the platform is newer or ran alongside.    *)
(***************************************************************************)
THEOREM PageTellsOfTheDevice == ComposedSpec => SuccessIsLive
  <1> DEFINE Live(j) ==
               LET p == runner[j].platform IN
               /\ row[j] = "success" /\ p \in Channels
               /\ newest[p] = j /\ j \notin shared
                     => live[p] = [id |-> j, secret |-> j]
             Shown == page.configure # "success" /\ page'.configure = "success"
                         => \E j \in made : Live(j)
  <1>1. FlowInv /\ SuccessMeansConfigured /\ [ComposedNext]_allVars => Shown
    <2> SUFFICES ASSUME FlowInv, SuccessMeansConfigured, [ComposedNext]_allVars,
                        page.configure # "success", page'.configure = "success"
                 PROVE  \E j \in made : Live(j)
      OBVIOUS
    <2>1. PICK j \in made : /\ j \in Jobs /\ row[j] = "success"
                            /\ runner[j].platform \in Channels
      BY SuccessIsPolled
    <2>2. j # None
      BY <2>1, JobConstants
    <2>3. ASSUME newest[runner[j].platform] = j, j \notin shared
          PROVE  live[runner[j].platform] = [id |-> j, secret |-> j]
      BY <2>1, <2>2, <2>3 DEF SuccessMeansConfigured
    <2> QED
      BY <2>1, <2>3
  <1>2. ComposedSpec => []FlowInv
    <2>1. ComposedInit => FlowInv
      BY FlowInvInit
    <2>2. JobsInv /\ FlowInv /\ [ComposedNext]_allVars => FlowInv'
      BY FlowInvStep
    <2> QED
      BY <2>1, <2>2, ComposedJobs, JobsInvAlways, PTL DEF ComposedSpec
  <1>3. FlowInv /\ SuccessMeansConfigured /\ [ComposedNext]_allVars => [Shown]_allVars
    BY <1>1
  <1> QED
    BY <1>2, <1>3, ComposedJobs, SuccessIsConfigured, PTL
       DEF ComposedSpec, SuccessIsLive
=============================================================================
