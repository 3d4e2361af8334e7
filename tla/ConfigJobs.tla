------------------------------ MODULE ConfigJobs ------------------------------
(***************************************************************************)
(* Configuration jobs on the server and on one device: of an IM platform,  *)
(* or the installation of OpenClaw itself.                                 *)
(*                                                                         *)
(* The handlers store a job (a row of im_config_jobs) and start a          *)
(* goroutine that has the device run one command after the other; the row  *)
(* tells whoever polls for it how the job goes.  (The statuses of single   *)
(* steps are left out: the page only displays them.  So is the difference  *)
(* of "queued" and "running", which no reader makes: both are "open".      *)
(* What is run for "linger" before a gateway restart is part of that step.) *)
(* Nothing keeps two jobs for one device apart.  A command the server gave *)
(* up on may still be run, as it waits in the connection to the device; the *)
(* device runs commands in the order they were sent.                       *)
(***************************************************************************)
EXTENDS Sequences, FiniteSets, Naturals

CONSTANTS
    Jobs,        \* identifiers of jobs, each used at most once
    LostWrites,  \* TRUE: an UPDATE of a job may fail; its error is ignored
    MaxCrashes,  \* how often the server may crash and restart
    None

ASSUME JobConstants ==
    /\ LostWrites \in BOOLEAN
    /\ MaxCrashes \in Nat
    /\ None \notin Jobs

VARIABLES
    row,      \* table im_config_jobs
    runner,   \* the goroutine of each job and the step it is at
    queue,    \* commands sent to the device and not yet run
    conf,     \* whose credentials the device's configuration file holds
    live,     \* ... and the gateway, which read the file when it started
    installed,  \* where on the device OpenClaw is found
    ran,      \* history: the steps of each job the device has run well
    newest,   \* history: the last job stored for each platform
    shared,   \* history: jobs that ran while another of their platform did
    crashes

vars == <<row, runner, queue, conf, live, installed, ran, newest, shared, crashes>>

Channels  == {"dingtalk", "feishu"}
Platforms == Channels \cup {"openclaw"}

\* The steps, as runDingTalkConfigure, runFeishuConfigure and
\* runInstallOpenClawJob name them; the "path" ones repeat a command with
\* another path.
Plugins == {"install-plugin", "install-feishu", "install-lark"}
Probes  == {"check-existing", "check-path", "verify-version", "verify-path"}
Keys == Plugins \cup Probes
          \cup {"configure-plugin", "set-app-id", "set-app-secret",
                "restart-gateway", "run-installer", "enable-linger"}

\* Where a command may find OpenClaw: a login shell's PATH, or the directory
\* under $HOME the installation script has by default.
Places   == {"path", "home"}
Probed   == [k \in Probes |-> IF k \in {"check-existing", "verify-version"}
                             THEN "path" ELSE "home"]

FirstStep == [p \in Platforms |-> CASE p = "dingtalk" -> "install-plugin"
                                   [] p = "feishu"   -> "install-feishu"
                                   [] p = "openclaw" -> "check-existing"]

\* Mutant: the gateway is restarted before the secret is set.
RestartEarly ==
    [k \in Keys |->
        CASE k = "install-plugin"   -> "configure-plugin"
          [] k \in {"install-feishu", "install-lark"} -> "set-app-id"
          [] k \in {"configure-plugin", "set-app-id"} -> "restart-gateway"
          [] k = "restart-gateway"  -> "set-app-secret"
          [] OTHER                  -> "end"]

\* Mutant: a version that is not found anywhere has the installer run again.
RetryInstaller ==
    [k \in Keys |-> CASE k = "install-feishu" -> "install-lark"
                      [] k = "check-existing" -> "check-path"
                      [] k = "check-path"     -> "run-installer"
                      [] k = "verify-version" -> "verify-path"
                      [] k = "verify-path"    -> "run-installer"
                      [] OTHER                -> "fail"]

\* The step after one that went well; "end" after the last.
AfterSuccess ==
    [k \in Keys |->
        CASE k = "install-plugin"   -> "configure-plugin"
          [] k = "configure-plugin" -> "restart-gateway"
          [] k \in {"install-feishu", "install-lark"} -> "set-app-id"
          [] k = "set-app-id"       -> "set-app-secret"
          [] k = "set-app-secret"   -> "restart-gateway"
          [] k \in {"check-existing", "check-path", "run-installer"} ->
                "verify-version"
          [] k \in {"verify-version", "verify-path"} -> "enable-linger"
          [] k \in {"restart-gateway", "enable-linger"} -> "end"]

\* Mutant: only the failure of the last step ends the job.
GoOnAfterFailure ==
    [AfterSuccess EXCEPT !["restart-gateway"] = "fail", !["enable-linger"] = "fail"]

\* The step after one whose command failed: some have a substitute.
AfterFailure ==
    [k \in Keys |-> CASE k = "install-feishu" -> "install-lark"
                      [] k = "check-existing" -> "check-path"
                      [] k = "check-path"     -> "run-installer"
                      [] k = "verify-version" -> "verify-path"
                      [] OTHER                -> "fail"]

\* The step after one whose command was not sent, or not answered in time.
AfterError ==
    [k \in Keys |-> IF k \in {"check-existing", "check-path"} THEN "fail"
                    ELSE AfterFailure[k]]

\* What the device must have run for a platform to be configured.
Configures ==
    [p \in Platforms |->
        CASE p = "dingtalk" -> {"configure-plugin", "restart-gateway"}
          [] p = "feishu"   -> {"set-app-id", "set-app-secret", "restart-gateway"}
          [] p = "openclaw" -> {"verify-version", "enable-linger"}]

\* A step and its substitute count as one.
Counted(k) == IF k = "verify-path" THEN "verify-version" ELSE k

JobStatus == {"none", "open", "success", "failed"}

\* The goroutine: "ready" to send the command of a step, "waiting" for its
\* answer, or left with the job's status to write: "end" or "fail".
NoRunner == [at |-> "idle", key |-> "end", platform |-> "none"]
Running  == {"ready", "waiting", "ended"}

Init ==
    /\ row = [j \in Jobs |-> "none"]
    /\ runner = [j \in Jobs |-> NoRunner]
    /\ queue = <<>>
    /\ conf = [p \in Channels |-> [id |-> None, secret |-> None]]
    /\ live = conf
    /\ installed \in SUBSET Places
    /\ ran = [j \in Jobs |-> {}]
    /\ newest = [p \in Platforms |-> None]
    /\ shared = {}
    /\ crashes = 0

device == <<queue, conf, live, installed, ran>>

\* IMConfigJobStore.Update: a row that is gone stays gone, and the callers
\* ignore every error.
Written(old, new) ==
    IF old = "none" THEN {old}
    ELSE IF LostWrites THEN {old, new} ELSE {new}

MoveTo(j, at, key) ==
    runner' = [runner EXCEPT ![j].at = at, ![j].key = key]

\* runConfigureStep returns nil: on to the next step, or to the end.
StepSucceeds(j) ==
    LET next == AfterSuccess[runner[j].key] IN
    MoveTo(j, IF next = "end" THEN "ended" ELSE "ready", next)

\* runConfigureStep returns an error: the next step is the one given.
StepFails(j, next) ==
    MoveTo(j, IF next = "fail" THEN "ended" ELSE "ready", next)
-----------------------------------------------------------------------------
(* The server. *)

\* handleConfigureIM and handleInstallOpenClaw: INSERT, then the goroutine.
Create(j, p) ==
    /\ runner[j].at = "idle"
    /\ row' = [row EXCEPT ![j] = "open"]
    /\ runner' = [runner EXCEPT ![j] =
                     [at |-> "ready", key |-> FirstStep[p], platform |-> p]]
    /\ newest' = [newest EXCEPT ![p] = j]
    /\ LET others == {i \in Jobs : /\ runner[i].at \in Running
                                   /\ runner[i].platform = p}
       IN shared' = IF others = {} THEN shared ELSE shared \cup others \cup {j}
    /\ UNCHANGED <<device, crashes>>

\* runConfigureStep, dispatchAndWaitCommand: the step's command is sent to the
\* device, or the device is offline.
StepBegins(j) ==
    LET k == runner[j].key IN
    /\ runner[j].at = "ready"
    /\ \/ /\ queue' = Append(queue, [job |-> j, key |-> k])
          /\ MoveTo(j, "waiting", k)
       \/ StepFails(j, AfterError[k]) /\ UNCHANGED queue
    /\ UNCHANGED <<row, conf, live, installed, ran, newest, shared, crashes>>

\* dispatchAndWaitCommand: no answer in time; the command may still be run.
\* Its own deadline is an error; but the janitor of the hub may have marked the
\* command failed before, which reads like a failure on the device.
GiveUp(j) ==
    /\ runner[j].at = "waiting"
    /\ \/ StepFails(j, AfterError[runner[j].key])
       \/ StepFails(j, AfterFailure[runner[j].key])
    /\ UNCHANGED <<row, device, newest, shared, crashes>>

\* runConfigureIMJob and runInstallOpenClawJob: the job's final status.  The
\* latter writes the device's row before, which may fail.
JobEnds(j) ==
    LET verdicts == IF runner[j].key = "fail" THEN {"failed"}
                    ELSE IF runner[j].platform = "openclaw" /\ LostWrites
                    THEN {"success", "failed"} ELSE {"success"} IN
    /\ runner[j].at = "ended"
    /\ \E v \in verdicts : \E r \in Written(row[j], v) :
          row' = [row EXCEPT ![j] = r]
    /\ MoveTo(j, "done", "end")
    /\ UNCHANGED <<device, newest, shared, crashes>>

\* runGC: rows not updated for 24 hours.  No step of a job takes that long, so
\* the job's goroutine is done or died with the server.
Collect(j) ==
    /\ row[j] # "none"
    /\ runner[j].at \in {"done", "dead"}
    /\ row' = [row EXCEPT ![j] = "none"]
    /\ UNCHANGED <<runner, device, newest, shared, crashes>>

\* The server process dies and is started again: rows stay, goroutines do not.
Crash ==
    /\ crashes < MaxCrashes
    /\ crashes' = crashes + 1
    /\ runner' = [j \in Jobs |->
                     IF runner[j].at \in Running
                     THEN [runner[j] EXCEPT !.at = "dead", !.key = "end"]
                     ELSE runner[j]]
    /\ UNCHANGED <<row, device, newest, shared>>
-----------------------------------------------------------------------------
(* The device. *)

\* A probe that goes well has found OpenClaw.
GoesWell(k) == k \in Probes => Probed[k] \in installed

\* What a command that goes well does: the credentials are written to the
\* file, the gateway starts again and reads it.
Effect(j, k) ==
    LET p == runner[j].platform IN
    /\ conf' = CASE k = "configure-plugin" ->
                        [conf EXCEPT ![p] = [id |-> j, secret |-> j]]
                 [] k = "set-app-id"     -> [conf EXCEPT ![p].id = j]
                 [] k = "set-app-secret" -> [conf EXCEPT ![p].secret = j]
                 [] OTHER                -> conf
    /\ live' = IF k = "restart-gateway" THEN conf ELSE live
    /\ ran' = [ran EXCEPT ![j] = @ \cup ({Counted(k)} \cap Configures[p])]

\* The next command is run, well or not: the agent may also have killed it when
\* its time was over.  Its answer reaches the goroutine that waits for it, if
\* there is one, or is lost.  The installation script leaves OpenClaw anywhere,
\* or nowhere, whatever it reports.  A plugin that cannot be installed because
\* it is there already counts as installed.
Execute ==
    /\ queue # <<>>
    /\ queue' = Tail(queue)
    /\ LET j == Head(queue).job  k == Head(queue).key
           awaited == runner[j].at = "waiting" /\ runner[j].key = k
       IN /\ \E more \in SUBSET Places :
                installed' = IF k = "run-installer" THEN installed \cup more
                             ELSE installed
          /\ \/ GoesWell(k) /\ Effect(j, k) /\ awaited /\ StepSucceeds(j)
             \/ GoesWell(k) /\ Effect(j, k) /\ UNCHANGED runner
             \/ /\ UNCHANGED <<conf, live, ran>>
                /\ awaited
                /\ \/ StepFails(j, AfterFailure[k])
                   \/ k \in Plugins /\ StepSucceeds(j)
             \/ UNCHANGED <<conf, live, ran, runner>>
    /\ UNCHANGED <<row, newest, shared, crashes>>

\* The connection breaks: what the device had not read is lost.
LoseQueue ==
    /\ queue # <<>>
    /\ queue' = <<>>
    /\ UNCHANGED <<row, runner, conf, live, installed, ran, newest, shared, crashes>>
-----------------------------------------------------------------------------
RunnerStep(j) == StepBegins(j) \/ GiveUp(j) \/ JobEnds(j)

Next ==
    \/ \E j \in Jobs : \/ \E p \in Platforms : Create(j, p)
                       \/ RunnerStep(j)
                       \/ Collect(j)
    \/ Crash \/ Execute \/ LoseQueue

Spec == Init /\ [][Next]_vars

\* The goroutines of the server take their steps, and its GC collects old rows.
\* Nothing is assumed of the device.
FairSpec ==
    Spec /\ \A j \in Jobs : WF_vars(RunnerStep(j)) /\ WF_vars(Collect(j))
-----------------------------------------------------------------------------
Runners == [at : Running \cup {"idle", "done", "dead"},
            key : Keys \cup {"end", "fail"}, platform : Platforms \cup {"none"}]
Commands    == [job : Jobs, key : Keys]
Credentials == [id : Jobs \cup {None}, secret : Jobs \cup {None}]

TypeOK ==
    /\ row \in [Jobs -> JobStatus]
    /\ runner \in [Jobs -> Runners]
    /\ queue \in Seq(Commands)
    /\ conf \in [Channels -> Credentials]
    /\ live \in [Channels -> Credentials]
    /\ installed \subseteq Places
    /\ ran \in [Jobs -> SUBSET Keys]
    /\ newest \in [Platforms -> Jobs \cup {None}]
    /\ shared \subseteq Jobs
    /\ crashes \in 0 .. MaxCrashes

(***************************************************************************)
(* After the newest job of a platform succeeded the gateway runs with that *)
(* job's credentials, both of them, unless two jobs for the platform ran   *)
(* at the same time: commands of an earlier job that were given up on do   *)
(* not undo it.  After an installation that succeeded OpenClaw is there,   *)
(* whatever the script said, and wherever it put it.                       *)
(***************************************************************************)
SuccessMeansConfigured ==
    /\ \A p \in Channels :
          LET j == newest[p] IN
          /\ j # None
          /\ j \notin shared
          /\ row[j] = "success"
          => live[p] = [id |-> j, secret |-> j]
    /\ \A j \in Jobs :
          row[j] = "success" /\ runner[j].platform = "openclaw" => installed # {}

\* How many steps of a job there may be from one of them on, itself included.
StepsLeft ==
    [k \in Keys |->
        CASE k \in {"restart-gateway", "enable-linger"} -> 1
          [] k \in {"configure-plugin", "set-app-secret", "verify-path"} -> 2
          [] k \in {"install-plugin", "set-app-id", "verify-version"} -> 3
          [] k \in {"install-lark", "run-installer"} -> 4
          [] k \in {"install-feishu", "check-path"} -> 5
          [] k = "check-existing" -> 6]

\* How often the goroutine of a job may still move.
MovesLeft(r) ==
    CASE r.at = "idle"    -> 14
      [] r.at = "ready"   -> 2 * StepsLeft[r.key] + 1
      [] r.at = "waiting" -> 2 * StepsLeft[r.key]
      [] r.at = "ended"   -> 1
      [] OTHER            -> 0

(***************************************************************************)
(* A job only ever moves on, and after fourteen moves at most it is over:  *)
(* no substitute, late answer, command given up on or restart takes it     *)
(* back to a step it has been at, or has it send a command twice.  (What   *)
(* the liveness of JobPromise rests on: there, a job does not stay open.)  *)
(***************************************************************************)
JobsMoveForward ==
    [][\A j \in Jobs : runner'[j] # runner[j]
                         => MovesLeft(runner'[j]) < MovesLeft(runner[j])]_vars

\* Jobs whose configuring commands the device has all run.
Done == {j \in Jobs : /\ runner[j].platform # "none"
                      /\ Configures[runner[j].platform] \subseteq ran[j]}

Promise == INSTANCE JobPromise WITH
    status <- row,
    used <- {j \in Jobs : runner[j].at # "idle"},
    configured <- Done

(***************************************************************************)
(* To a reader of the row the jobs keep JobPromise: a job reported as a    *)
(* success has had the device run every command its configuration consists *)
(* of, a job's end is reported once and not taken back, and no row stays   *)
(* open for ever; against answers that come late, commands given up on,    *)
(* lost UPDATEs and restarts.                                              *)
(***************************************************************************)
KeepsPromise == Promise!PromiseSpec
=============================================================================
