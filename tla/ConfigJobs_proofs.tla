--------------------------- MODULE ConfigJobs_proofs ---------------------------
(***************************************************************************)
(* Configuration jobs, for any number of jobs and of restarts: types, that *)
(* the jobs implement JobPromise but for its fairness, and that a success  *)
(* means what it says.                                                     *)
(*                                                                         *)
(* The argument: a job that is at a step has had the device run what comes *)
(* before it (Progress).  The newest job of a platform, if it was never    *)
(* alongside another, is alone in sending commands for the platform, so    *)
(* that what earlier jobs left in the queue is in front of its own         *)
(* commands (Order), and gone when the first of its own has been answered. *)
(***************************************************************************)
EXTENDS ConfigJobs, SequenceTheorems, TLAPS

StepsOf ==
    [p \in Platforms |->
        CASE p = "dingtalk" -> {"install-plugin", "configure-plugin", "restart-gateway"}
          [] p = "feishu"   -> {"install-feishu", "install-lark", "set-app-id",
                                "set-app-secret", "restart-gateway"}
          [] p = "openclaw" -> Probes \cup {"run-installer", "enable-linger"}]

\* What the device has run when a job of p is at k, or at its good end.
Required(p, k) ==
    CASE k = "end" -> Configures[p]
      [] k \in {"restart-gateway", "enable-linger"} -> Configures[p] \ {k}
      [] k = "set-app-secret" -> {"set-app-id"}
      [] OTHER -> {}

Progress(j) ==
    LET r == runner[j] IN
    /\ r.at = "idle" => row[j] = "none" /\ ran[j] = {} /\ r.platform = "none"
    /\ r.at # "idle" => r.platform \in Platforms
    /\ r.at \in Running => row[j] = "open"
    /\ r.at \in {"ready", "waiting"} => r.key \in StepsOf[r.platform]
    /\ r.at = "ended" => r.key \in {"end", "fail"}
    /\ r.at \in Running /\ r.key # "fail" => Required(r.platform, r.key) \subseteq ran[j]
    /\ row[j] = "success" => Configures[r.platform] \subseteq ran[j]
    /\ "verify-version" \in ran[j] => installed # {}

QueueStarted == \A n \in DOMAIN queue : runner[queue[n].job].at # "idle"

JobsInv == TypeOK /\ (\A j \in Jobs : Progress(j)) /\ QueueStarted

\* A job has come past the installation of the plugin.
Reached(j) ==
    \/ runner[j].at \in {"ready", "waiting"} /\ runner[j].key \notin Plugins
    \/ runner[j].at = "ended" /\ runner[j].key = "end"
    \/ row[j] = "success"

\* The newest job of a platform, if it was always alone.
Sole(p, j) == j = newest[p] /\ j \in Jobs \ shared

\* Of the commands for the platform in the queue all are this job's.
AllMine(p, j) ==
    \A n \in DOMAIN queue : runner[queue[n].job].platform = p => queue[n].job = j

Order(p, j) ==
    /\ \A i \in Jobs \ {j} : runner[i].platform = p => runner[i].at \notin Running
    /\ \A m, n \in DOMAIN queue :
          m < n /\ queue[m].job = j /\ runner[queue[n].job].platform = p
             => queue[n].job = j
    /\ Reached(j) => AllMine(p, j)

Configuring(p, j) ==
    LET r == runner[j] IN
    /\ r.at \in {"ready", "waiting"} /\ r.key = "set-app-secret" => conf[p].id = j
    /\ r.at \in {"ready", "waiting"} /\ r.key = "restart-gateway"
          => conf[p].id = j /\ conf[p].secret = j
    /\ (r.at = "ended" /\ r.key = "end") \/ row[j] = "success"
          => /\ conf[p].id = j /\ conf[p].secret = j
             /\ live[p].id = j /\ live[p].secret = j

NewestInv ==
    /\ \A p \in Platforms : newest[p] # None =>
          runner[newest[p]].platform = p /\ runner[newest[p]].at # "idle"
    /\ \A p \in Channels, j \in Jobs :
          Sole(p, j) => Order(p, j) /\ Configuring(p, j)
-----------------------------------------------------------------------------
(* The steps of a job. *)

LEMMA PlatformSteps ==
    /\ Platforms = {"dingtalk", "feishu", "openclaw"}
    /\ Channels = {"dingtalk", "feishu"}
    /\ StepsOf["dingtalk"] = {"install-plugin", "configure-plugin", "restart-gateway"}
    /\ StepsOf["feishu"] = {"install-feishu", "install-lark", "set-app-id",
                           "set-app-secret", "restart-gateway"}
    /\ StepsOf["openclaw"] = {"check-existing", "check-path", "verify-version",
                             "verify-path", "run-installer", "enable-linger"}
    /\ Configures["dingtalk"] = {"configure-plugin", "restart-gateway"}
    /\ Configures["feishu"] = {"set-app-id", "set-app-secret", "restart-gateway"}
    /\ Configures["openclaw"] = {"verify-version", "enable-linger"}
  BY DEF Platforms, Channels, StepsOf, Probes, Configures

LEMMA StepsAreKeys == \A p \in Platforms : StepsOf[p] \subseteq Keys
  BY PlatformSteps DEF Keys, Plugins, Probes

LEMMA FirstIsAStep ==
    ASSUME NEW p \in Platforms
    PROVE  /\ FirstStep[p] \in StepsOf[p] /\ FirstStep[p] \in Keys
           /\ FirstStep[p] # "fail"
           /\ Required(p, FirstStep[p]) = {}
           /\ p \in Channels => FirstStep[p] \in Plugins
  <1>1. CASE p = "dingtalk"
    BY <1>1, PlatformSteps DEF FirstStep, Required, Keys, Plugins
  <1>2. CASE p = "feishu"
    BY <1>2, PlatformSteps DEF FirstStep, Required, Keys, Plugins
  <1>3. CASE p = "openclaw"
    BY <1>3, PlatformSteps DEF FirstStep, Required, Keys, Probes
  <1> QED
    BY <1>1, <1>2, <1>3, PlatformSteps

\* After a step that went well there is another, or the end, for which the device
\* has run what it needs.
LEMMA SuccessLeadsOn ==
    ASSUME NEW p \in Platforms, NEW k \in StepsOf[p]
    PROVE  /\ AfterSuccess[k] \in StepsOf[p] \cup {"end"}
           /\ AfterSuccess[k] # "fail"
           /\ Required(p, AfterSuccess[k])
                 \subseteq Required(p, k) \cup ({Counted(k)} \cap Configures[p])
           /\ k \in Plugins => Required(p, AfterSuccess[k]) = {}
  <1> USE PlatformSteps DEF AfterSuccess, Keys, Plugins, Probes, Required, Counted
  <1>1. CASE p = "dingtalk"
    BY <1>1
  <1>2. CASE p = "feishu"
    BY <1>2
  <1>3. CASE p = "openclaw"
    BY <1>3
  <1> QED
    BY <1>1, <1>2, <1>3

\* After a step that failed the substitute needs nothing more.
LEMMA FailureLeadsOn ==
    ASSUME NEW p \in Platforms, NEW k \in StepsOf[p],
           NEW next \in {AfterFailure[k], AfterError[k]}, next # "fail"
    PROVE  /\ next \in StepsOf[p]
           /\ Required(p, next) = {}
           /\ p \in Channels => next \in Plugins
  <1> USE PlatformSteps DEF AfterFailure, AfterError, Keys, Plugins, Probes, Required
  <1>1. CASE p = "dingtalk"
    BY <1>1
  <1>2. CASE p = "feishu"
    BY <1>2
  <1>3. CASE p = "openclaw"
    BY <1>3
  <1> QED
    BY <1>1, <1>2, <1>3
-----------------------------------------------------------------------------
(* Types and progress. *)

LEMMA JobsInvInit == Init => JobsInv
  <1> SUFFICES ASSUME Init PROVE JobsInv
    OBVIOUS
  <1>1. NoRunner \in Runners
    BY DEF NoRunner, Runners, Running
  <1>2. conf \in [Channels -> Credentials]
    BY DEF Init, Credentials
  <1>3. TypeOK
    BY <1>1, <1>2, JobConstants DEF Init, TypeOK, JobStatus
  <1>4. ASSUME NEW j \in Jobs PROVE Progress(j)
    BY DEF Init, Progress, NoRunner, Running
  <1>5. QueueStarted
    BY DEF Init, QueueStarted
  <1> QED
    BY <1>3, <1>4, <1>5 DEF JobsInv

\* The goroutine of a job that is at a step goes on.
LEMMA MovedTyped ==
    ASSUME TypeOK, NEW j \in Jobs,
           NEW at \in Running \cup {"idle", "done", "dead"},
           NEW key \in Keys \cup {"end", "fail"},
           MoveTo(j, at, key)
    PROVE  /\ runner' \in [Jobs -> Runners]
           /\ runner'[j].at = at /\ runner'[j].key = key
           /\ runner'[j].platform = runner[j].platform
           /\ \A i \in Jobs \ {j} : runner'[i] = runner[i]
  <1>1. runner[j] \in Runners /\ runner \in [Jobs -> Runners]
    BY DEF TypeOK
  <1>2. runner[j].platform \in Platforms \cup {"none"}
    BY <1>1 DEF Runners
  <1>3. PICK r : r = [runner[j] EXCEPT !.at = at]
    OBVIOUS
  <1>4. r = [at |-> at, key |-> runner[j].key, platform |-> runner[j].platform]
    BY <1>1, <1>3 DEF Runners
  <1>5. PICK q : q = [r EXCEPT !.key = key]
    OBVIOUS
  <1>6. q = [at |-> at, key |-> key, platform |-> runner[j].platform]
    BY <1>4, <1>5
  <1>7. q \in Runners
    BY <1>2, <1>6 DEF Runners
  <1>8. runner' = [[runner EXCEPT ![j] = r] EXCEPT ![j] = q]
    BY <1>1, <1>3, <1>5 DEF MoveTo
  <1> QED
    BY <1>1, <1>6, <1>7, <1>8

\* Nothing happens to a job.
LEMMA ProgressKept ==
    ASSUME NEW j \in Jobs, Progress(j),
           runner'[j] = runner[j], row'[j] = row[j], ran'[j] = ran[j],
           installed \subseteq installed'
    PROVE  Progress(j)'
  BY DEF Progress

\* The device has run more for a job that has started.
LEMMA ProgressGrown ==
    ASSUME NEW j \in Jobs, Progress(j),
           runner'[j] = runner[j], row'[j] = row[j], ran[j] \subseteq ran'[j],
           runner[j].at = "idle" => ran'[j] = ran[j],
           "verify-version" \in ran'[j] => installed' # {}
    PROVE  Progress(j)'
  <1> DEFINE r == runner[j]
  <1>1. /\ r.at = "idle" => row'[j] = "none" /\ ran'[j] = {} /\ r.platform = "none"
        /\ r.at # "idle" => r.platform \in Platforms
        /\ r.at \in Running => row'[j] = "open"
        /\ r.at \in {"ready", "waiting"} => r.key \in StepsOf[r.platform]
        /\ r.at = "ended" => r.key \in {"end", "fail"}
    BY DEF Progress
  <1>2. r.at \in Running /\ r.key # "fail" => Required(r.platform, r.key) \subseteq ran'[j]
    BY DEF Progress
  <1>3. row'[j] = "success" => Configures[r.platform] \subseteq ran'[j]
    BY DEF Progress
  <1> QED
    BY <1>1, <1>2, <1>3 DEF Progress

\* A step that failed: the job goes on with a substitute, or fails.
LEMMA FailedStep ==
    ASSUME JobsInv, NEW j \in Jobs, runner[j].at \in {"ready", "waiting"},
           NEW next, next \in {AfterFailure[runner[j].key], AfterError[runner[j].key]},
           StepFails(j, next),
           row' = row, ran' = ran, installed \subseteq installed'
    PROVE  /\ runner' \in [Jobs -> Runners]
           /\ \A i \in Jobs : Progress(i)'
           /\ \A i \in Jobs \ {j} : runner'[i] = runner[i]
           /\ runner'[j].platform = runner[j].platform
           /\ \/ runner'[j].at = "ended" /\ runner'[j].key = "fail"
              \/ /\ runner'[j].at = "ready" /\ runner'[j].key = next
                 /\ runner[j].platform \in Channels => next \in Plugins
  <1> DEFINE p == runner[j].platform
             k == runner[j].key
  <1>1. /\ TypeOK /\ Progress(j) /\ p \in Platforms /\ k \in StepsOf[p]
        /\ row[j] = "open" /\ \A i \in Jobs : Progress(i)
    BY DEF JobsInv, Progress, Running
  <1>2. next = "fail" \/ (next \in StepsOf[p] /\ Required(p, next) = {}
                          /\ (p \in Channels => next \in Plugins))
    BY <1>1, FailureLeadsOn
  <1>3. next \in Keys \cup {"end", "fail"}
    BY <1>1, <1>2, StepsAreKeys
  <1>4. /\ runner' \in [Jobs -> Runners]
        /\ runner'[j].at = (IF next = "fail" THEN "ended" ELSE "ready")
        /\ runner'[j].key = next /\ runner'[j].platform = p
        /\ \A i \in Jobs \ {j} : runner'[i] = runner[i]
    BY <1>1, <1>3, MovedTyped DEF StepFails, Running
  <1>5. Progress(j)'
    BY <1>1, <1>2, <1>4 DEF Progress, Running
  <1>6. \A i \in Jobs \ {j} : Progress(i)'
    BY <1>1, <1>4, ProgressKept
  <1> QED
    BY <1>2, <1>4, <1>5, <1>6

\* A step that went well, as the job that waited for it sees it.
LEMMA WellDoneStep ==
    ASSUME JobsInv, NEW j \in Jobs, runner[j].at = "waiting", StepSucceeds(j),
           row' = row, installed \subseteq installed',
           \A i \in Jobs \ {j} : ran'[i] = ran[i],
           ran[j] \subseteq ran'[j],
           \/ ran'[j] = ran[j] \cup ({Counted(runner[j].key)}
                                       \cap Configures[runner[j].platform])
           \/ runner[j].key \in Plugins,
           "verify-version" \in ran'[j] => installed' # {}
    PROVE  /\ runner' \in [Jobs -> Runners]
           /\ \A i \in Jobs : Progress(i)'
           /\ \A i \in Jobs \ {j} : runner'[i] = runner[i]
           /\ runner'[j].platform = runner[j].platform
           /\ runner'[j].key = AfterSuccess[runner[j].key]
           /\ runner'[j].at = (IF runner'[j].key = "end" THEN "ended" ELSE "ready")
  <1> DEFINE p == runner[j].platform
             k == runner[j].key
             next == AfterSuccess[k]
  <1>1. /\ TypeOK /\ Progress(j) /\ p \in Platforms /\ k \in StepsOf[p] /\ k # "fail"
        /\ row[j] = "open" /\ Required(p, k) \subseteq ran[j]
        /\ \A i \in Jobs : Progress(i)
    <2>1. TypeOK /\ (\A i \in Jobs : Progress(i))
      BY DEF JobsInv
    <2>2. p \in Platforms /\ k \in StepsOf[p] /\ row[j] = "open"
      BY <2>1 DEF Progress, Running
    <2>3. k # "fail"
      BY <2>2, StepsAreKeys DEF Keys, Plugins, Probes
    <2> QED
      BY <2>1, <2>2, <2>3 DEF Progress, Running
  <1>2. /\ next \in StepsOf[p] \cup {"end"} /\ next # "fail"
        /\ Required(p, next) \subseteq Required(p, k) \cup ({Counted(k)} \cap Configures[p])
        /\ k \in Plugins => Required(p, next) = {}
    BY <1>1, SuccessLeadsOn
  <1>3. next \in Keys \cup {"end", "fail"}
    BY <1>1, <1>2, StepsAreKeys
  <1>4. /\ runner' \in [Jobs -> Runners]
        /\ runner'[j].at = (IF next = "end" THEN "ended" ELSE "ready")
        /\ runner'[j].key = next /\ runner'[j].platform = p
        /\ \A i \in Jobs \ {j} : runner'[i] = runner[i]
    BY <1>1, <1>3, MovedTyped DEF StepSucceeds, Running
  <1>5. Required(p, next) \subseteq ran'[j]
    BY <1>1, <1>2
  <1>6. Progress(j)'
    BY <1>1, <1>2, <1>4, <1>5 DEF Progress, Running
  <1>7. \A i \in Jobs \ {j} : Progress(i)'
    BY <1>1, <1>4, ProgressKept
  <1> QED
    BY <1>4, <1>6, <1>7

\* What is in the queue was sent by a job that had started.
LEMMA QueueKept ==
    ASSUME TypeOK, QueueStarted,
           \A i \in Jobs : runner[i].at # "idle" => runner'[i].at # "idle",
           queue' = queue \/ queue' = <<>>
              \/ (queue # <<>> /\ queue' = Tail(queue))
    PROVE  queue' \in Seq(Commands) /\ QueueStarted'
  <1>1. queue \in Seq(Commands) /\ \A n \in DOMAIN queue : queue[n].job \in Jobs
    <2>1. queue \in Seq(Commands)
      BY DEF TypeOK
    <2>2. ASSUME NEW n \in DOMAIN queue PROVE queue[n].job \in Jobs
      <3>1. queue[n] \in Commands
        BY <2>1, <2>2
      <3> QED
        BY <3>1 DEF Commands
    <2> QED
      BY <2>1, <2>2
  <1>2. CASE queue' = queue
    BY <1>1, <1>2 DEF QueueStarted
  <1>3. CASE queue' = <<>>
    BY <1>3 DEF QueueStarted
  <1>4. CASE queue # <<>> /\ queue' = Tail(queue)
    <2>1. /\ queue' \in Seq(Commands) /\ Len(queue') = Len(queue) - 1
          /\ \A n \in 1 .. Len(queue') : queue'[n] = queue[n + 1]
      BY <1>1, <1>4, HeadTailProperties
    <2>2. \A n \in DOMAIN queue' : n + 1 \in DOMAIN queue /\ queue'[n] = queue[n + 1]
      BY <1>1, <2>1
    <2> QED
      BY <1>1, <2>1, <2>2 DEF QueueStarted
  <1> QED
    BY <1>2, <1>3, <1>4

LEMMA CreateKeepsInv ==
    ASSUME JobsInv, NEW j \in Jobs, NEW p \in Platforms, Create(j, p)
    PROVE  JobsInv'
  <1>1. /\ TypeOK /\ QueueStarted /\ \A i \in Jobs : Progress(i)
        /\ row[j] = "none" /\ ran[j] = {}
    BY DEF JobsInv, Create, Progress
  <1>2. PICK r : r = [at |-> "ready", key |-> FirstStep[p], platform |-> p]
    OBVIOUS
  <1>3. r \in Runners
    BY <1>2, FirstIsAStep DEF Runners, Running
  <1>4. runner' = [runner EXCEPT ![j] = r] /\ row' = [row EXCEPT ![j] = "open"]
    BY <1>2 DEF Create
  <1>5. /\ runner' \in [Jobs -> Runners] /\ row' \in [Jobs -> JobStatus]
        /\ runner'[j] = r /\ row'[j] = "open"
        /\ \A i \in Jobs \ {j} : runner'[i] = runner[i] /\ row'[i] = row[i]
    BY <1>1, <1>3, <1>4 DEF TypeOK, JobStatus
  <1>6. newest' \in [Platforms -> Jobs \cup {None}] /\ shared' \subseteq Jobs
    BY <1>1 DEF Create, TypeOK
  <1>7. TypeOK'
    BY <1>1, <1>5, <1>6 DEF Create, device, TypeOK
  <1>8. Progress(j)'
    <2>1. Required(p, r.key) = {} /\ r.key \in StepsOf[p]
      BY <1>2, FirstIsAStep
    <2>2. ran'[j] = {}
      BY <1>1 DEF Create, device
    <2> QED
      BY <1>2, <1>5, <2>1, <2>2 DEF Progress, Running
  <1>9. \A i \in Jobs \ {j} : Progress(i)'
    BY <1>1, <1>5, ProgressKept DEF Create, device
  <1>10. QueueStarted'
    BY <1>1, <1>2, <1>5, QueueKept DEF Create, device
  <1> QED
    BY <1>7, <1>8, <1>9, <1>10 DEF JobsInv

LEMMA StepBeginsKeepsInv ==
    ASSUME JobsInv, NEW j \in Jobs, StepBegins(j)
    PROVE  JobsInv'
  <1> DEFINE k == runner[j].key
             c == [job |-> j, key |-> k]
  <1>1. /\ TypeOK /\ QueueStarted /\ Progress(j) /\ runner[j].at = "ready"
        /\ \A i \in Jobs : Progress(i)
    BY DEF JobsInv, StepBegins
  <1>2. /\ runner[j].platform \in Platforms /\ k \in StepsOf[runner[j].platform]
        /\ k \in Keys
    BY <1>1, StepsAreKeys DEF Progress
  <1>3. CASE queue' = Append(queue, c) /\ MoveTo(j, "waiting", k)
    <2>1. /\ runner' \in [Jobs -> Runners]
          /\ runner'[j].at = "waiting" /\ runner'[j].key = k
          /\ runner'[j].platform = runner[j].platform
          /\ \A i \in Jobs \ {j} : runner'[i] = runner[i]
      BY <1>1, <1>2, <1>3, MovedTyped DEF Running
    <2>2. c \in Commands
      BY <1>2 DEF Commands
    <2>3. queue \in Seq(Commands)
      BY <1>1 DEF TypeOK
    <2>4. /\ queue' \in Seq(Commands) /\ Len(queue') = Len(queue) + 1
          /\ \A n \in 1 .. Len(queue) : queue'[n] = queue[n]
          /\ queue'[Len(queue) + 1] = c
      BY <1>3, <2>2, <2>3, AppendProperties
    <2>5. TypeOK'
      BY <1>1, <2>1, <2>4 DEF StepBegins, TypeOK
    <2>6. QueueStarted'
      <3> SUFFICES ASSUME NEW n \in DOMAIN queue'
                   PROVE  runner'[queue'[n].job].at # "idle"
        BY DEF QueueStarted
      <3>1. CASE n \in DOMAIN queue
        <4>1. queue[n] \in Commands /\ queue'[n] = queue[n]
          BY <2>3, <2>4, <3>1
        <4>2. queue[n].job \in Jobs /\ runner[queue[n].job].at # "idle"
          BY <1>1, <3>1, <4>1 DEF QueueStarted, Commands
        <4> QED
          BY <2>1, <4>1, <4>2
      <3>2. CASE n \notin DOMAIN queue
        <4>1. n = Len(queue) + 1
          BY <2>3, <2>4, <3>2
        <4> QED
          BY <2>1, <2>4, <4>1
      <3> QED
        BY <3>1, <3>2
    <2>7. Progress(j)'
      BY <1>1, <2>1 DEF StepBegins, Progress, Running
    <2>8. \A i \in Jobs \ {j} : Progress(i)'
      BY <1>1, <2>1, ProgressKept DEF StepBegins
    <2> QED
      BY <2>5, <2>6, <2>7, <2>8 DEF JobsInv
  <1>4. CASE StepFails(j, AfterError[k]) /\ queue' = queue
    <2>1. /\ runner' \in [Jobs -> Runners]
          /\ \A i \in Jobs : Progress(i)'
          /\ \A i \in Jobs \ {j} : runner'[i] = runner[i]
          /\ runner'[j].at \in {"ready", "ended"}
      BY <1>1, <1>4, FailedStep DEF StepBegins
    <2>2. queue' \in Seq(Commands) /\ QueueStarted'
      BY <1>1, <1>4, <2>1, QueueKept
    <2>3. TypeOK'
      BY <1>1, <2>1, <2>2 DEF StepBegins, TypeOK
    <2> QED
      BY <2>1, <2>2, <2>3 DEF JobsInv
  <1> QED
    BY <1>3, <1>4 DEF StepBegins

\* A command given up on has failed, one way or the other.
LEMMA GivenUp ==
    ASSUME NEW j \in Jobs, GiveUp(j)
    PROVE  /\ runner[j].at = "waiting"
           /\ row' = row /\ ran' = ran /\ installed \subseteq installed'
           /\ \E next \in {AfterFailure[runner[j].key], AfterError[runner[j].key]} :
                 StepFails(j, next)
  BY DEF GiveUp, device

LEMMA GiveUpKeepsInv ==
    ASSUME JobsInv, NEW j \in Jobs, GiveUp(j)
    PROVE  JobsInv'
  <1>1. TypeOK /\ QueueStarted /\ runner[j].at = "waiting"
    BY DEF JobsInv, GiveUp
  <1>2. /\ runner' \in [Jobs -> Runners]
        /\ \A i \in Jobs : Progress(i)'
        /\ \A i \in Jobs \ {j} : runner'[i] = runner[i]
        /\ runner'[j].at \in {"ready", "ended"}
    BY <1>1, FailedStep, GivenUp
  <1>3. queue' \in Seq(Commands) /\ QueueStarted'
    BY <1>1, <1>2, QueueKept DEF GiveUp, device
  <1>4. TypeOK'
    BY <1>1, <1>2, <1>3 DEF GiveUp, device, TypeOK
  <1> QED
    BY <1>2, <1>3, <1>4 DEF JobsInv

\* What JobEnds leaves in the row.
LEMMA JobEndsRow ==
    ASSUME JobsInv, NEW j \in Jobs, JobEnds(j)
    PROVE  /\ row[j] = "open" /\ runner[j].platform \in Platforms
           /\ \E r \in {"open", "success", "failed"} :
                 /\ row' = [row EXCEPT ![j] = r]
                 /\ r = "success" => /\ runner[j].key = "end"
                                     /\ Configures[runner[j].platform] \subseteq ran[j]
  <1>1. Progress(j) /\ runner[j].at = "ended"
    BY DEF JobsInv, JobEnds
  <1>2. row[j] = "open" /\ runner[j].platform \in Platforms
    BY <1>1 DEF Progress, Running
  <1>3. PICK v \in {"success", "failed"} :
           /\ v = "success" => runner[j].key # "fail"
           /\ \E r \in Written(row[j], v) : row' = [row EXCEPT ![j] = r]
    BY DEF JobEnds
  <1>4. PICK r \in Written(row[j], v) : row' = [row EXCEPT ![j] = r]
    BY <1>3
  <1>5. r \in {"open", v}
    BY <1>2, <1>4 DEF Written
  <1>6. runner[j].key # "fail" =>
           runner[j].key = "end" /\ Configures[runner[j].platform] \subseteq ran[j]
    BY <1>1 DEF Progress, Running, Required
  <1> QED
    BY <1>2, <1>3, <1>4, <1>5, <1>6

LEMMA JobEndsKeepsInv ==
    ASSUME JobsInv, NEW j \in Jobs, JobEnds(j)
    PROVE  JobsInv'
  <1>1. TypeOK /\ QueueStarted /\ \A i \in Jobs : Progress(i)
    BY DEF JobsInv
  <1>2. row[j] = "open" /\ runner[j].platform \in Platforms
    BY JobEndsRow
  <1>3. PICK r \in {"open", "success", "failed"} :
           /\ row' = [row EXCEPT ![j] = r]
           /\ r = "success" => Configures[runner[j].platform] \subseteq ran[j]
    BY JobEndsRow
  <1>4. /\ row' \in [Jobs -> JobStatus] /\ row'[j] = r
        /\ \A i \in Jobs \ {j} : row'[i] = row[i]
    BY <1>1, <1>3 DEF TypeOK, JobStatus
  <1>5. /\ runner' \in [Jobs -> Runners]
        /\ runner'[j].at = "done" /\ runner'[j].platform = runner[j].platform
        /\ \A i \in Jobs \ {j} : runner'[i] = runner[i]
    BY <1>1, MovedTyped DEF JobEnds
  <1>6. Progress(j)'
    BY <1>1, <1>2, <1>3, <1>4, <1>5 DEF JobEnds, device, Progress, Running
  <1>7. \A i \in Jobs \ {j} : Progress(i)'
    BY <1>1, <1>4, <1>5, ProgressKept DEF JobEnds, device
  <1>8. queue' \in Seq(Commands) /\ QueueStarted'
    BY <1>1, <1>5, QueueKept DEF JobEnds, device
  <1>9. TypeOK'
    BY <1>1, <1>4, <1>5, <1>8 DEF JobEnds, device, TypeOK
  <1> QED
    BY <1>6, <1>7, <1>8, <1>9 DEF JobsInv

LEMMA CollectKeepsInv ==
    ASSUME JobsInv, NEW j \in Jobs, Collect(j)
    PROVE  JobsInv'
  <1>1. TypeOK /\ QueueStarted /\ \A i \in Jobs : Progress(i)
    BY DEF JobsInv
  <1>2. /\ row' \in [Jobs -> JobStatus] /\ row'[j] = "none"
        /\ \A i \in Jobs \ {j} : row'[i] = row[i]
    BY <1>1 DEF Collect, TypeOK, JobStatus
  <1>3. Progress(j)'
    BY <1>1, <1>2 DEF Collect, device, Progress, Running
  <1>4. \A i \in Jobs \ {j} : Progress(i)'
    BY <1>1, <1>2, ProgressKept DEF Collect, device
  <1>5. queue' \in Seq(Commands) /\ QueueStarted'
    BY <1>1, QueueKept DEF Collect, device
  <1>6. TypeOK'
    BY <1>1, <1>2, <1>5 DEF Collect, device, TypeOK
  <1> QED
    BY <1>3, <1>4, <1>5, <1>6 DEF JobsInv

\* Goroutines that run are gone after a restart, the others are as they were.
LEMMA CrashedRunner ==
    ASSUME TypeOK, Crash, NEW i \in Jobs
    PROVE  /\ runner'[i] \in Runners
           /\ runner'[i].platform = runner[i].platform
           /\ runner[i].at \in Running => runner'[i].at = "dead"
           /\ runner[i].at \notin Running => runner'[i] = runner[i]
           /\ runner'[i].at \notin Running
  <1>1. runner[i] \in Runners
    BY DEF TypeOK
  <1>2. PICK r : r = [runner[i] EXCEPT !.at = "dead", !.key = "end"]
    OBVIOUS
  <1>3. r = [at |-> "dead", key |-> "end", platform |-> runner[i].platform]
    BY <1>1, <1>2 DEF Runners
  <1>4. r \in Runners
    BY <1>1, <1>3 DEF Runners
  <1>5. runner'[i] = IF runner[i].at \in Running THEN r ELSE runner[i]
    BY <1>2 DEF Crash
  <1> QED
    BY <1>1, <1>3, <1>4, <1>5 DEF Running

LEMMA CrashKeepsInv ==
    ASSUME JobsInv, Crash
    PROVE  JobsInv'
  <1>1. TypeOK /\ QueueStarted /\ \A i \in Jobs : Progress(i)
    BY DEF JobsInv
  <1>2. \A i \in Jobs : runner'[i] \in Runners
    BY <1>1, CrashedRunner
  <1>3. runner' = [i \in Jobs |-> runner'[i]]
    BY DEF Crash
  <1>4. runner' \in [Jobs -> Runners]
    BY <1>2, <1>3
  <1>5. ASSUME NEW i \in Jobs PROVE Progress(i)'
    <2>1. CASE runner[i].at \in Running
      BY <1>1, <2>1, CrashedRunner DEF Crash, device, Progress, Running
    <2>2. CASE runner[i].at \notin Running
      BY <1>1, <2>2, CrashedRunner, ProgressKept DEF Crash, device
    <2> QED
      BY <2>1, <2>2
  <1>6. \A i \in Jobs : runner[i].at # "idle" => runner'[i].at # "idle"
    BY <1>1, CrashedRunner
  <1>7. queue' \in Seq(Commands) /\ QueueStarted'
    BY <1>1, <1>6, QueueKept DEF Crash, device
  <1>8. crashes' \in 0 .. MaxCrashes
    <2>1. crashes \in 0 .. MaxCrashes /\ MaxCrashes \in Nat
      BY <1>1, JobConstants DEF TypeOK
    <2>2. crashes < MaxCrashes /\ crashes' = crashes + 1
      BY DEF Crash
    <2> QED
      BY <2>1, <2>2
  <1>9. TypeOK'
    BY <1>1, <1>4, <1>7, <1>8 DEF Crash, device, TypeOK
  <1> QED
    BY <1>5, <1>7, <1>9 DEF JobsInv

LEMMA LoseQueueKeepsInv ==
    ASSUME JobsInv, LoseQueue
    PROVE  JobsInv'
  <1>1. TypeOK /\ QueueStarted /\ \A i \in Jobs : Progress(i)
    BY DEF JobsInv
  <1>2. queue' \in Seq(Commands) /\ QueueStarted'
    BY <1>1, QueueKept DEF LoseQueue
  <1>3. TypeOK'
    BY <1>1, <1>2 DEF LoseQueue, TypeOK
  <1>4. \A i \in Jobs : Progress(i)'
    BY <1>1, ProgressKept DEF LoseQueue
  <1> QED
    BY <1>2, <1>3, <1>4 DEF JobsInv

\* The command that is run, and what is left of the queue.
LEMMA ExecuteHead ==
    ASSUME JobsInv, Execute
    PROVE  /\ Head(queue) \in Commands
           /\ Head(queue).job \in Jobs /\ Head(queue).key \in Keys
           /\ runner[Head(queue).job].platform \in Platforms
           /\ queue' = Tail(queue) /\ queue # <<>> /\ queue \in Seq(Commands)
  <1>1. queue \in Seq(Commands) /\ queue # <<>> /\ queue' = Tail(queue)
    BY DEF JobsInv, TypeOK, Execute
  <1>2. Head(queue) \in Commands /\ Head(queue) = queue[1] /\ 1 \in DOMAIN queue
    BY <1>1
  <1>3. Head(queue).job \in Jobs /\ Head(queue).key \in Keys
    BY <1>2 DEF Commands
  <1>4. runner[Head(queue).job].at # "idle"
    BY <1>2 DEF JobsInv, QueueStarted
  <1> QED
    BY <1>1, <1>2, <1>3, <1>4 DEF JobsInv, Progress

\* What a command does to the device.
LEMMA EffectOnFile ==
    ASSUME TypeOK, NEW j \in Jobs, NEW k \in Keys, Effect(j, k)
    PROVE  /\ conf' \in [Channels -> Credentials]
           /\ \A p \in Channels \ {runner[j].platform} : conf'[p] = conf[p]
           /\ runner[j].platform \in Channels =>
                 /\ conf'[runner[j].platform].id =
                       IF k \in {"configure-plugin", "set-app-id"} THEN j
                       ELSE conf[runner[j].platform].id
                 /\ conf'[runner[j].platform].secret =
                       IF k \in {"configure-plugin", "set-app-secret"} THEN j
                       ELSE conf[runner[j].platform].secret
  <1> DEFINE p == runner[j].platform
  <1>1. conf \in [Channels -> Credentials]
    BY DEF TypeOK
  <1>2. CASE k = "configure-plugin"
    <2>1. PICK c : c = [id |-> j, secret |-> j]
      OBVIOUS
    <2>2. c \in Credentials
      BY <2>1 DEF Credentials
    <2>3. conf' = [conf EXCEPT ![p] = c]
      BY <1>2, <2>1 DEF Effect
    <2> QED
      BY <1>1, <1>2, <2>1, <2>2, <2>3
  <1>3. CASE k = "set-app-id"
    <2>1. conf' = [conf EXCEPT ![p].id = j]
      BY <1>3 DEF Effect
    <2>2. CASE p \in Channels
      <3>1. PICK c : c = [conf[p] EXCEPT !.id = j]
        OBVIOUS
      <3>2. conf[p] \in Credentials
        BY <1>1, <2>2
      <3>3. c = [id |-> j, secret |-> conf[p].secret]
        BY <3>1, <3>2 DEF Credentials
      <3>4. c \in Credentials
        BY <3>2, <3>3 DEF Credentials
      <3>5. conf' = [conf EXCEPT ![p] = c]
        BY <2>1, <3>1
      <3> QED
        BY <1>1, <1>3, <2>2, <3>3, <3>4, <3>5
    <2>3. CASE p \notin Channels
      BY <1>1, <2>1, <2>3
    <2> QED
      BY <2>2, <2>3
  <1>4. CASE k = "set-app-secret"
    <2>1. conf' = [conf EXCEPT ![p].secret = j]
      BY <1>4 DEF Effect
    <2>2. CASE p \in Channels
      <3>1. PICK c : c = [conf[p] EXCEPT !.secret = j]
        OBVIOUS
      <3>2. conf[p] \in Credentials
        BY <1>1, <2>2
      <3>3. c = [id |-> conf[p].id, secret |-> j]
        BY <3>1, <3>2 DEF Credentials
      <3>4. c \in Credentials
        BY <3>2, <3>3 DEF Credentials
      <3>5. conf' = [conf EXCEPT ![p] = c]
        BY <2>1, <3>1
      <3> QED
        BY <1>1, <1>4, <2>2, <3>3, <3>4, <3>5
    <2>3. CASE p \notin Channels
      BY <1>1, <2>1, <2>3
    <2> QED
      BY <2>2, <2>3
  <1>5. CASE k \notin {"configure-plugin", "set-app-id", "set-app-secret"}
    <2>1. conf' = conf
      BY <1>5 DEF Effect
    <2> QED
      BY <1>1, <1>5, <2>1
  <1> QED
    BY <1>2, <1>3, <1>4, <1>5

LEMMA EffectOnDevice ==
    ASSUME TypeOK, NEW j \in Jobs, NEW k \in Keys, Effect(j, k), GoesWell(k),
           runner[j].platform \in Platforms, installed \subseteq installed',
           \A i \in Jobs : "verify-version" \in ran[i] => installed # {}
    PROVE  /\ live' \in [Channels -> Credentials]
           /\ ran' \in [Jobs -> SUBSET Keys]
           /\ \A i \in Jobs \ {j} : ran'[i] = ran[i]
           /\ ran'[j] = ran[j] \cup ({Counted(k)} \cap Configures[runner[j].platform])
           /\ \A i \in Jobs : "verify-version" \in ran'[i] => installed' # {}
  <1> DEFINE new == {Counted(k)} \cap Configures[runner[j].platform]
  <1>1. /\ conf \in [Channels -> Credentials] /\ live \in [Channels -> Credentials]
        /\ ran \in [Jobs -> SUBSET Keys]
    BY DEF TypeOK
  <1>2. live' \in [Channels -> Credentials]
    BY <1>1 DEF Effect
  <1>5. ran' = [ran EXCEPT ![j] = ran[j] \cup new]
    BY DEF Effect
  <1>6. Counted(k) \in Keys
    BY DEF Counted, Keys, Probes
  <1>7. /\ ran' \in [Jobs -> SUBSET Keys] /\ ran'[j] = ran[j] \cup new
        /\ \A i \in Jobs \ {j} : ran'[i] = ran[i]
    <2>1. ran[j] \cup new \in SUBSET Keys
      BY <1>1, <1>6
    <2> QED
      BY <1>1, <1>5, <2>1
  <1>8. "verify-version" \in new => installed # {}
    BY DEF Counted, GoesWell, Probes
  <1>9. \A i \in Jobs : "verify-version" \in ran'[i] => installed' # {}
    BY <1>7, <1>8
  <1> QED
    BY <1>2, <1>7, <1>9

\* The ways in which a command is run and its answer is taken.
LEMMA ExecuteKinds ==
    ASSUME JobsInv, Execute,
           NEW j, j = Head(queue).job, NEW k, k = Head(queue).key
    PROVE  /\ row' = row /\ newest' = newest /\ shared' = shared /\ crashes' = crashes
           /\ installed' \subseteq Places /\ installed \subseteq installed'
           /\ \/ GoesWell(k) /\ Effect(j, k)
              \/ conf' = conf /\ live' = live /\ ran' = ran
           /\ \/ runner' = runner
              \/ /\ runner[j].at = "waiting" /\ runner[j].key = k
                 /\ \/ GoesWell(k) /\ Effect(j, k) /\ StepSucceeds(j)
                    \/ ran' = ran /\ live' = live /\ conf' = conf
                       /\ StepFails(j, AfterFailure[k])
                    \/ ran' = ran /\ live' = live /\ conf' = conf
                       /\ k \in Plugins /\ StepSucceeds(j)
  <1>1. PICK more \in SUBSET Places :
           installed' = IF k = "run-installer" THEN installed \cup more ELSE installed
    BY DEF Execute
  <1>2. installed' \subseteq Places /\ installed \subseteq installed'
    BY <1>1 DEF JobsInv, TypeOK
  <1> QED
    BY <1>2 DEF Execute

LEMMA ExecuteKeepsInv ==
    ASSUME JobsInv, Execute
    PROVE  JobsInv'
  <1> DEFINE j == Head(queue).job
             k == Head(queue).key
  <1>1. /\ TypeOK /\ QueueStarted /\ \A i \in Jobs : Progress(i)
        /\ \A i \in Jobs : "verify-version" \in ran[i] => installed # {}
    BY DEF JobsInv, Progress
  <1>2. /\ j \in Jobs /\ k \in Keys /\ runner[j].platform \in Platforms
        /\ queue' = Tail(queue) /\ queue # <<>>
    BY ExecuteHead
  <1>3. /\ conf' \in [Channels -> Credentials] /\ live' \in [Channels -> Credentials]
        /\ installed' \subseteq Places /\ installed \subseteq installed'
        /\ ran' \in [Jobs -> SUBSET Keys]
        /\ \A i \in Jobs \ {j} : ran'[i] = ran[i]
        /\ ran[j] \subseteq ran'[j]
        /\ \A i \in Jobs : "verify-version" \in ran'[i] => installed' # {}
    <2>1. CASE GoesWell(k) /\ Effect(j, k)
      BY <1>1, <1>2, <2>1, EffectOnFile, EffectOnDevice, ExecuteKinds DEF TypeOK
    <2>2. CASE conf' = conf /\ live' = live /\ ran' = ran
      BY <1>1, <2>2, ExecuteKinds DEF TypeOK
    <2> QED
      BY <2>1, <2>2, ExecuteKinds
  <1>4. /\ runner' \in [Jobs -> Runners]
        /\ \A i \in Jobs : Progress(i)'
        /\ \A i \in Jobs : runner[i].at # "idle" => runner'[i].at # "idle"
    <2>1. CASE runner' = runner
      <3>1. runner[j].at # "idle"
        <4>1. "none" \notin Platforms
          BY PlatformSteps
        <4> QED
          BY <1>1, <1>2, <4>1 DEF Progress
      <3>2. ASSUME NEW i \in Jobs PROVE Progress(i)'
        <4>1. /\ Progress(i) /\ runner'[i] = runner[i] /\ row'[i] = row[i]
              /\ ran[i] \subseteq ran'[i]
              /\ "verify-version" \in ran'[i] => installed' # {}
          BY <1>1, <1>3, <2>1, ExecuteKinds
        <4>2. runner[i].at = "idle" => ran'[i] = ran[i]
          BY <1>3, <3>1
        <4> QED
          BY <4>1, <4>2, ProgressGrown
      <3> QED
        BY <1>1, <2>1, <3>2 DEF TypeOK
    <2>2. CASE /\ runner[j].at = "waiting" /\ runner[j].key = k
               /\ GoesWell(k) /\ Effect(j, k) /\ StepSucceeds(j)
      <3>1. ran'[j] = ran[j] \cup ({Counted(k)} \cap Configures[runner[j].platform])
        BY <1>1, <1>2, <1>3, <2>2, EffectOnDevice
      <3> QED
        BY <1>2, <1>3, <2>2, <3>1, WellDoneStep, ExecuteKinds
    <2>3. CASE /\ runner[j].at = "waiting" /\ runner[j].key = k
               /\ ran' = ran
               /\ StepFails(j, AfterFailure[k])
      BY <1>2, <2>3, FailedStep, ExecuteKinds
    <2>4. CASE /\ runner[j].at = "waiting" /\ runner[j].key = k
               /\ k \in Plugins /\ StepSucceeds(j)
      BY <1>2, <1>3, <2>4, WellDoneStep, ExecuteKinds
    <2> QED
      BY <2>1, <2>2, <2>3, <2>4, ExecuteKinds
  <1>5. queue' \in Seq(Commands) /\ QueueStarted'
    BY <1>1, <1>2, <1>4, QueueKept
  <1>6. TypeOK'
    BY <1>1, <1>3, <1>4, <1>5, ExecuteKinds DEF TypeOK
  <1> QED
    BY <1>4, <1>5, <1>6 DEF JobsInv

LEMMA JobsInvStep == JobsInv /\ [Next]_vars => JobsInv'
  <1> SUFFICES ASSUME JobsInv, [Next]_vars PROVE JobsInv'
    OBVIOUS
  <1>1. CASE UNCHANGED vars
    <2>1. TypeOK'
      BY <1>1 DEF JobsInv, TypeOK, vars
    <2>2. \A i \in Jobs : Progress(i)'
      BY <1>1, ProgressKept DEF JobsInv, vars
    <2>3. QueueStarted'
      BY <1>1 DEF JobsInv, QueueStarted, vars
    <2> QED
      BY <2>1, <2>2, <2>3 DEF JobsInv
  <1>2. CASE Next
    BY <1>2, CreateKeepsInv, StepBeginsKeepsInv, GiveUpKeepsInv, JobEndsKeepsInv,
       CollectKeepsInv, CrashKeepsInv, ExecuteKeepsInv, LoseQueueKeepsInv
       DEF Next, RunnerStep
  <1> QED
    BY <1>1, <1>2

\* The strengthening is an invariant, for any number of jobs.
THEOREM JobsInvAlways == Spec => []JobsInv
  BY JobsInvInit, JobsInvStep, PTL DEF Spec

(***************************************************************************)
(* The values of the server's rows and goroutines and of the device's      *)
(* files are of their types, whatever the jobs and the restarts.           *)
(***************************************************************************)
THEOREM JobsTyped == Spec => []TypeOK
  <1>1. JobsInv => TypeOK
    BY DEF JobsInv
  <1> QED
    BY <1>1, JobsInvAlways, PTL
-----------------------------------------------------------------------------
(* No job goes back. *)

\* Fewer steps are left after a step, however it went.
LEMMA FewerStepsLeft ==
    ASSUME NEW k \in Keys,
           NEW next \in {AfterSuccess[k], AfterFailure[k], AfterError[k]}
    PROVE  /\ StepsLeft[k] \in 1 .. 6
           /\ next \in {"end", "fail"} \/ (next \in Keys /\ StepsLeft[next] < StepsLeft[k])
  <1> USE DEF AfterSuccess, AfterFailure, AfterError, StepsLeft, Keys, Plugins, Probes
  <1>1. CASE k \in {"install-plugin", "configure-plugin", "restart-gateway"}
    BY <1>1
  <1>2. CASE k \in {"install-feishu", "install-lark", "set-app-id", "set-app-secret"}
    BY <1>2
  <1>3. CASE k \in {"check-existing", "check-path", "run-installer"}
    BY <1>3
  <1>4. CASE k \in {"verify-version", "verify-path", "enable-linger"}
    BY <1>4
  <1> QED
    BY <1>1, <1>2, <1>3, <1>4

\* A job that was at a step is at the next, or at its end.
LEMMA MovedOn ==
    ASSUME TypeOK, NEW j \in Jobs, runner[j].at \in {"ready", "waiting"},
           runner[j].key \in Keys,
           NEW next \in {AfterSuccess[runner[j].key], AfterFailure[runner[j].key],
                         AfterError[runner[j].key]},
           \/ next \in {"end", "fail"} /\ MoveTo(j, "ended", next)
           \/ next \notin {"end", "fail"} /\ MoveTo(j, "ready", next)
    PROVE  /\ MovesLeft(runner'[j]) < MovesLeft(runner[j])
           /\ \A i \in Jobs \ {j} : runner'[i] = runner[i]
  <1> DEFINE k == runner[j].key
  <1>1. /\ StepsLeft[k] \in 1 .. 6
        /\ next \in {"end", "fail"} \/ (next \in Keys /\ StepsLeft[next] < StepsLeft[k])
    BY FewerStepsLeft
  <1>2. next \in Keys => StepsLeft[next] \in 1 .. 6
    BY FewerStepsLeft
  <1>3. CASE next \in {"end", "fail"}
    <2>1. /\ runner'[j].at = "ended"
          /\ \A i \in Jobs \ {j} : runner'[i] = runner[i]
      BY <1>3, MovedTyped DEF Running
    <2> QED
      BY <1>1, <2>1 DEF MovesLeft
  <1>4. CASE next \notin {"end", "fail"}
    <2>1. next \in Keys /\ MoveTo(j, "ready", next)
      BY <1>1, <1>4
    <2>2. /\ runner'[j].at = "ready" /\ runner'[j].key = next
          /\ \A i \in Jobs \ {j} : runner'[i] = runner[i]
      BY <2>1, MovedTyped DEF Running
    <2> QED
      BY <1>1, <1>2, <1>4, <2>2 DEF MovesLeft
  <1> QED
    BY <1>3, <1>4

LEMMA MovesForward ==
    ASSUME JobsInv, Next, NEW i \in Jobs, runner'[i] # runner[i]
    PROVE  MovesLeft(runner'[i]) < MovesLeft(runner[i])
  <1>t. TypeOK
    BY DEF JobsInv
  <1>k. ASSUME NEW j \in Jobs, runner[j].at \in {"ready", "waiting"}
        PROVE  runner[j].key \in Keys
    <2>1. /\ runner[j].platform \in Platforms
          /\ runner[j].key \in StepsOf[runner[j].platform]
      BY <1>k DEF JobsInv, Progress
    <2> QED
      BY <2>1, StepsAreKeys
  <1>f. ASSUME NEW j \in Jobs, runner[j].at \in {"ready", "waiting"},
               NEW next \in {AfterFailure[runner[j].key], AfterError[runner[j].key]},
               StepFails(j, next)
        PROVE  MovesLeft(runner'[i]) < MovesLeft(runner[i])
    <2>1. next # "end"
      BY <1>k, <1>f DEF AfterFailure, AfterError
    <2>2. /\ MovesLeft(runner'[j]) < MovesLeft(runner[j])
          /\ \A l \in Jobs \ {j} : runner'[l] = runner[l]
      BY <1>t, <1>k, <1>f, <2>1, MovedOn DEF StepFails
    <2> QED
      BY <2>2
  <1>1. ASSUME NEW j \in Jobs, NEW p \in Platforms, Create(j, p)
        PROVE  MovesLeft(runner'[i]) < MovesLeft(runner[i])
    <2>1. PICK r : r = [at |-> "ready", key |-> FirstStep[p], platform |-> p]
      OBVIOUS
    <2>2. runner' = [runner EXCEPT ![j] = r] /\ runner[j].at = "idle"
      BY <1>1, <2>1 DEF Create
    <2>3. i = j /\ runner'[j] = r
      BY <1>t, <2>2 DEF TypeOK
    <2>4. FirstStep[p] \in Keys
      BY FirstIsAStep
    <2>5. StepsLeft[FirstStep[p]] \in 1 .. 6
      BY <2>4, FewerStepsLeft
    <2> QED
      BY <2>1, <2>2, <2>3, <2>5 DEF MovesLeft
  <1>2. ASSUME NEW j \in Jobs, StepBegins(j)
        PROVE  MovesLeft(runner'[i]) < MovesLeft(runner[i])
    <2>1. runner[j].at = "ready" /\ runner[j].key \in Keys
      BY <1>2, <1>k DEF StepBegins
    <2>2. CASE MoveTo(j, "waiting", runner[j].key)
      <3>1. /\ runner'[j].at = "waiting" /\ runner'[j].key = runner[j].key
            /\ \A l \in Jobs \ {j} : runner'[l] = runner[l]
        BY <1>t, <2>1, <2>2, MovedTyped DEF Running
      <3>2. StepsLeft[runner[j].key] \in 1 .. 6
        BY <2>1, FewerStepsLeft
      <3> QED
        BY <2>1, <3>1, <3>2 DEF MovesLeft
    <2>3. CASE StepFails(j, AfterError[runner[j].key])
      BY <1>f, <2>1, <2>3
    <2> QED
      BY <1>2, <2>2, <2>3 DEF StepBegins
  <1>3. ASSUME NEW j \in Jobs, GiveUp(j)
        PROVE  MovesLeft(runner'[i]) < MovesLeft(runner[i])
    BY <1>3, <1>f, GivenUp
  <1>4. ASSUME NEW j \in Jobs, JobEnds(j)
        PROVE  MovesLeft(runner'[i]) < MovesLeft(runner[i])
    <2>1. /\ runner[j].at = "ended" /\ runner'[j].at = "done"
          /\ \A l \in Jobs \ {j} : runner'[l] = runner[l]
      BY <1>t, <1>4, MovedTyped DEF JobEnds
    <2> QED
      BY <2>1 DEF MovesLeft
  <1>5. CASE Crash
    <2>1. runner[i].at \in Running /\ runner'[i].at = "dead"
      BY <1>t, <1>5, CrashedRunner
    <2>2. runner[i].at \in {"ready", "waiting"} => StepsLeft[runner[i].key] \in 1 .. 6
      BY <1>k, FewerStepsLeft
    <2> QED
      BY <2>1, <2>2 DEF MovesLeft, Running
  <1>6. CASE Execute
    <2> DEFINE j == Head(queue).job
               k == Head(queue).key
    <2>1. j \in Jobs /\ k \in Keys
      BY <1>6, ExecuteHead
    <2>2. runner' # runner
      OBVIOUS
    <2>3. /\ runner[j].at = "waiting" /\ runner[j].key = k
          /\ StepSucceeds(j) \/ StepFails(j, AfterFailure[k])
      BY <1>6, <2>2, ExecuteKinds
    <2>4. CASE StepSucceeds(j)
      <3>1. AfterSuccess[k] # "fail"
        BY <2>1 DEF AfterSuccess, Keys, Plugins, Probes
      <3>2. /\ MovesLeft(runner'[j]) < MovesLeft(runner[j])
            /\ \A l \in Jobs \ {j} : runner'[l] = runner[l]
        <4>1. PICK next : next = AfterSuccess[runner[j].key]
          OBVIOUS
        <4>2. \/ next \in {"end", "fail"} /\ MoveTo(j, "ended", next)
              \/ next \notin {"end", "fail"} /\ MoveTo(j, "ready", next)
          BY <2>3, <2>4, <3>1, <4>1 DEF StepSucceeds
        <4> HIDE DEF j, k
        <4>3. runner[j].key \in Keys /\ runner[j].at \in {"ready", "waiting"}
          BY <2>1, <2>3
        <4> QED
          BY <1>t, <2>1, <4>1, <4>2, <4>3, MovedOn
      <3> QED
        BY <2>1, <3>2
    <2>5. CASE StepFails(j, AfterFailure[k])
      BY <1>f, <2>1, <2>3, <2>5
    <2> QED
      BY <2>3, <2>4, <2>5
  <1>7. CASE LoseQueue \/ \E j \in Jobs : Collect(j)
    BY <1>7 DEF LoseQueue, Collect
  <1> QED
    BY <1>1, <1>2, <1>3, <1>4, <1>5, <1>6, <1>7 DEF Next, RunnerStep

\* A job ends after fourteen moves of its goroutine at most, for any number of
\* jobs, commands given up on and restarts (runConfigureIMJob,
\* runInstallOpenClawJob).
THEOREM JobsGoForward == Spec => JobsMoveForward
  <1>1. JobsInv /\ [Next]_vars
           => [\A j \in Jobs : runner'[j] # runner[j]
                                => MovesLeft(runner'[j]) < MovesLeft(runner[j])]_vars
    BY MovesForward
  <1> QED
    BY <1>1, JobsInvAlways, PTL DEF Spec, JobsMoveForward
-----------------------------------------------------------------------------
(* The refinement. *)

Started == {j \in Jobs : runner[j].at # "idle"}

\* But for Create no job starts, and none starts again.
LEMMA NothingStarts ==
    ASSUME JobsInv,
           \/ \E j \in Jobs : StepBegins(j) \/ GiveUp(j) \/ JobEnds(j) \/ Collect(j)
           \/ Crash \/ Execute \/ LoseQueue
    PROVE  \A i \in Jobs : /\ runner'[i].platform = runner[i].platform
                           /\ runner'[i].at = "idle" <=> runner[i].at = "idle"
                           /\ runner'[i].at \in Running => runner[i].at \in Running
  <1>1. TypeOK /\ \A i \in Jobs : Progress(i)
    BY DEF JobsInv
  <1>2. ASSUME NEW j \in Jobs, runner[j].at \in Running,
               NEW at \in Running \cup {"done"}, NEW key \in Keys \cup {"end", "fail"},
               MoveTo(j, at, key)
        PROVE  \A i \in Jobs : /\ runner'[i].platform = runner[i].platform
                               /\ runner'[i].at = "idle" <=> runner[i].at = "idle"
                               /\ runner'[i].at \in Running => runner[i].at \in Running
    BY <1>1, <1>2, MovedTyped DEF Running
  <1>3. CASE \E j \in Jobs : StepBegins(j) \/ GiveUp(j)
    <2>1. PICK j \in Jobs : StepBegins(j) \/ GiveUp(j)
      BY <1>3
    <2> DEFINE k == runner[j].key
    <2>2. runner[j].at \in {"ready", "waiting"}
      BY <2>1 DEF StepBegins, GiveUp
    <2>3. runner[j].platform \in Platforms /\ k \in StepsOf[runner[j].platform]
      BY <1>1, <2>2 DEF Progress
    <2>4. /\ k \in Keys /\ AfterError[k] \in Keys \cup {"end", "fail"}
          /\ AfterFailure[k] \in Keys \cup {"end", "fail"}
      BY <2>3, FailureLeadsOn, StepsAreKeys
    <2>5. \E at \in Running \cup {"done"}, key \in Keys \cup {"end", "fail"} :
             MoveTo(j, at, key)
      BY <2>1, <2>4 DEF StepBegins, GiveUp, StepFails, Running
    <2> QED
      BY <1>2, <2>2, <2>5 DEF Running
  <1>4. CASE \E j \in Jobs : JobEnds(j)
    BY <1>2, <1>4 DEF JobEnds, Running
  <1>5. CASE (\E j \in Jobs : Collect(j)) \/ LoseQueue
    BY <1>5 DEF Collect, LoseQueue
  <1>6. CASE Crash
    BY <1>1, <1>6, CrashedRunner DEF Running
  <1>7. CASE Execute
    <2> DEFINE j == Head(queue).job
               k == Head(queue).key
    <2>1. j \in Jobs /\ k \in Keys
      BY <1>7, ExecuteHead
    <2>2. CASE runner' = runner
      BY <2>2
    <2>3. CASE /\ runner[j].at = "waiting" /\ runner[j].key = k
               /\ StepSucceeds(j) \/ StepFails(j, AfterFailure[k])
      <3>1. runner[j].platform \in Platforms /\ k \in StepsOf[runner[j].platform]
        BY <1>1, <2>1, <2>3 DEF Progress
      <3>2. AfterSuccess[k] \in Keys \cup {"end", "fail"}
        BY <3>1, SuccessLeadsOn, StepsAreKeys
      <3>3. AfterFailure[k] \in Keys \cup {"end", "fail"}
        BY <3>1, FailureLeadsOn, StepsAreKeys
      <3>4. \E at \in Running \cup {"done"}, key \in Keys \cup {"end", "fail"} :
               MoveTo(j, at, key)
        BY <2>3, <3>2, <3>3 DEF StepSucceeds, StepFails, Running
      <3> QED
        BY <1>2, <2>1, <2>3, <3>4 DEF Running
    <2> QED
      BY <1>7, <2>2, <2>3, ExecuteKinds
  <1> QED
    BY <1>3, <1>4, <1>5, <1>6, <1>7

\* A step after which the same jobs have started and been configured.
LEMMA SameJobs ==
    ASSUME \A i \in Jobs : /\ runner'[i].at = "idle" <=> runner[i].at = "idle"
                           /\ runner'[i].platform = runner[i].platform
                           /\ ran'[i] = ran[i]
    PROVE  Started' = Started /\ Done' = Done
  BY DEF Started, Done

LEMMA CreateStores ==
    ASSUME JobsInv, NEW j \in Jobs, NEW p \in Platforms, Create(j, p)
    PROVE  Promise!Store(j)
  <1>1. /\ runner[j].at = "idle" /\ ran[j] = {} /\ runner[j].platform = "none"
        /\ ran' = ran
    BY DEF JobsInv, Progress, Create, device
  <1>2. PICK r : r = [at |-> "ready", key |-> FirstStep[p], platform |-> p]
    OBVIOUS
  <1>3. runner' = [runner EXCEPT ![j] = r] /\ runner \in [Jobs -> Runners]
    BY <1>2 DEF Create, JobsInv, TypeOK
  <1>4. runner'[j] = r /\ \A i \in Jobs \ {j} : runner'[i] = runner[i]
    BY <1>3
  <1>5. j \notin Started /\ Started' = Started \cup {j}
    BY <1>1, <1>2, <1>4 DEF Started
  <1>6. Configures[p] # {}
    BY PlatformSteps
  <1>7. j \notin Done
    BY <1>1 DEF Done
  <1>8. j \notin Done'
    BY <1>1, <1>2, <1>4, <1>6 DEF Done
  <1>9. \A i \in Jobs \ {j} : i \in Done' <=> i \in Done
    BY <1>1, <1>4 DEF Done
  <1>10. Done' = Done
    BY <1>7, <1>8, <1>9 DEF Done
  <1>11. row' = [row EXCEPT ![j] = "open"]
    BY DEF Create
  <1> QED
    BY <1>5, <1>10, <1>11 DEF Promise!Store, Promise!Put, Started

LEMMA JobEndsReports ==
    ASSUME JobsInv, NEW j \in Jobs, JobEnds(j)
    PROVE  Promise!Succeed(j) \/ Promise!Break(j) \/ row' = row
  <1>1. row[j] = "open" /\ runner[j].platform \in Platforms
    BY JobEndsRow
  <1>2. PICK r \in {"open", "success", "failed"} :
           /\ row' = [row EXCEPT ![j] = r]
           /\ r = "success" => Configures[runner[j].platform] \subseteq ran[j]
    BY JobEndsRow
  <1>3. row \in [Jobs -> JobStatus]
    BY DEF JobsInv, TypeOK
  <1>6. Started' = Started /\ Done' = Done
    BY NothingStarts, SameJobs DEF JobEnds, device
  <1>7. CASE r = "open"
    BY <1>1, <1>2, <1>3, <1>7
  <1>8. CASE r = "failed"
    BY <1>1, <1>2, <1>6, <1>8 DEF Promise!Break, Promise!Put, Started
  <1>9. CASE r = "success"
    <2>1. j \in Done
      <3>1. runner[j].platform # "none"
        BY <1>1, PlatformSteps
      <3> QED
        BY <1>2, <1>9, <3>1 DEF Done
    <2> QED
      BY <1>1, <1>2, <1>6, <1>9, <2>1 DEF Promise!Succeed, Promise!Put, Started
  <1> QED
    BY <1>7, <1>8, <1>9

LEMMA ExecuteConfigures ==
    ASSUME JobsInv, JobsInv', Execute
    PROVE  \/ \E j \in Jobs : Promise!Configure(j)
           \/ row' = row /\ Started' = Started /\ Done' = Done
  <1> DEFINE j == Head(queue).job
             k == Head(queue).key
  <1>1. /\ TypeOK /\ j \in Jobs /\ k \in Keys /\ runner[j].platform \in Platforms
        /\ row' = row
        /\ \A i \in Jobs : "verify-version" \in ran[i] => installed # {}
    BY ExecuteHead, ExecuteKinds DEF JobsInv, Progress
  <1>2. /\ \A i \in Jobs \ {j} : ran'[i] = ran[i]
        /\ ran[j] \subseteq ran'[j]
    <2>1. CASE GoesWell(k) /\ Effect(j, k)
      BY <1>1, <2>1, EffectOnDevice, ExecuteKinds
    <2>2. CASE ran' = ran
      BY <1>1, <2>2
    <2> QED
      BY <2>1, <2>2, ExecuteKinds
  <1>3. \A i \in Jobs : /\ runner'[i].at = "idle" <=> runner[i].at = "idle"
                        /\ runner'[i].platform = runner[i].platform
    BY NothingStarts
  <1>4. Started' = Started
    BY <1>3 DEF Started
  <1>5. Done \subseteq Done' /\ Done' \subseteq Done \cup {j}
    BY <1>2, <1>3 DEF Done
  <1>6. CASE j \in Done' /\ j \notin Done
    <2>1. Done' = Done \cup {j}
      BY <1>5, <1>6
    <2>2. j \in Started
      <3>1. runner[j].at # "idle"
        <4>1. "none" \notin Platforms
          BY PlatformSteps
        <4> QED
          BY <1>1, <4>1 DEF JobsInv, Progress
      <3> QED
        BY <1>1, <3>1 DEF Started
    <2>3. Promise!Configure(j)
      BY <1>1, <1>4, <1>6, <2>1, <2>2 DEF Promise!Configure, Started
    <2> QED
      BY <1>1, <2>3
  <1>7. CASE ~(j \in Done' /\ j \notin Done)
    BY <1>1, <1>4, <1>5, <1>7
  <1> QED
    BY <1>6, <1>7

LEMMA PromiseStep ==
    ASSUME JobsInv, JobsInv', [Next]_vars
    PROVE  [Promise!PromiseNext]_(Promise!promiseVars)
  <1> DEFINE same == row' = row /\ Started' = Started /\ Done' = Done
  <1>1. same => UNCHANGED Promise!promiseVars
    BY DEF Promise!promiseVars, Started
  <1>2. CASE UNCHANGED vars
    BY <1>1, <1>2, SameJobs DEF vars
  <1>3. ASSUME NEW j \in Jobs, NEW p \in Platforms, Create(j, p)
        PROVE  Promise!PromiseNext
    BY <1>3, CreateStores DEF Promise!PromiseNext
  <1>4. ASSUME NEW j \in Jobs, StepBegins(j) \/ GiveUp(j)
        PROVE  same
    BY <1>4, NothingStarts, SameJobs DEF StepBegins, GiveUp, device
  <1>5. ASSUME NEW j \in Jobs, JobEnds(j)
        PROVE  Promise!PromiseNext \/ same
    <2>1. CASE Promise!Succeed(j) \/ Promise!Break(j)
      BY <2>1 DEF Promise!PromiseNext, Promise!JobStep
    <2>2. CASE row' = row
      BY <1>5, <2>2, NothingStarts, SameJobs DEF JobEnds, device
    <2> QED
      BY <1>5, <2>1, <2>2, JobEndsReports
  <1>6. ASSUME NEW j \in Jobs, Collect(j)
        PROVE  Promise!PromiseNext
    <2>1. Started' = Started /\ Done' = Done
      BY <1>6, NothingStarts, SameJobs DEF Collect, device
    <2>2. Promise!Vanish(j)
      BY <1>6, <2>1 DEF Collect, Promise!Vanish, Promise!Put, Started
    <2> QED
      BY <2>2 DEF Promise!PromiseNext, Promise!JobStep
  <1>7. CASE Crash \/ LoseQueue
    <2>1. ran' = ran /\ row' = row
      BY <1>7 DEF Crash, LoseQueue, device
    <2>2. \A i \in Jobs : /\ runner'[i].platform = runner[i].platform
                          /\ runner'[i].at = "idle" <=> runner[i].at = "idle"
      BY <1>7, NothingStarts
    <2>3. Started' = Started /\ Done' = Done
      BY <2>1, <2>2, SameJobs
    <2> QED
      BY <1>1, <2>1, <2>3
  <1>8. CASE Execute
    BY <1>1, <1>8, ExecuteConfigures DEF Promise!PromiseNext, Promise!JobStep
  <1> QED
    BY <1>1, <1>2, <1>3, <1>4, <1>5, <1>6, <1>7, <1>8 DEF Next, RunnerStep

LEMMA PromiseStart == Init => Promise!PromiseInit
  <1> SUFFICES ASSUME Init PROVE Promise!PromiseInit
    OBVIOUS
  <1>1. \A j \in Jobs : runner[j].at = "idle" /\ runner[j].platform = "none"
    BY DEF Init, NoRunner
  <1>2. Started = {} /\ Done = {}
    BY <1>1 DEF Started, Done
  <1> QED
    BY <1>2 DEF Init, Promise!PromiseInit, Started

(***************************************************************************)
(* What is stored of the jobs only changes as JobPromise allows: a job is  *)
(* reported as a success only when the device has run every command its    *)
(* configuration consists of, and a reported end is not taken back.  (That *)
(* no job stays open for ever is KeepsPromise's other half, for TLC.)      *)
(***************************************************************************)
THEOREM JobsKeepPromise == Spec => Promise!PromiseSafety
  <1>1. Init => Promise!PromiseInit
    BY PromiseStart
  <1>2. JobsInv /\ JobsInv' /\ [Next]_vars
           => [Promise!PromiseNext]_(Promise!promiseVars)
    BY PromiseStep
  <1> QED
    BY <1>1, <1>2, JobsInvAlways, PTL DEF Spec, Promise!PromiseSafety
-----------------------------------------------------------------------------
(* What a success means. *)

\* Commands are only taken from the front of the queue.
LEMMA QueueShift ==
    ASSUME queue \in Seq(Commands),
           queue' = queue \/ queue' = <<>> \/ (queue # <<>> /\ queue' = Tail(queue))
    PROVE  \E d \in Nat : \A n \in DOMAIN queue' :
              n \in Nat /\ n + d \in DOMAIN queue /\ queue'[n] = queue[n + d]
  <1>1. CASE queue' = queue
    <2>1. \A n \in DOMAIN queue : n \in Nat /\ n + 0 = n
      OBVIOUS
    <2> QED
      BY <1>1, <2>1
  <1>2. CASE queue' = <<>>
    BY <1>2
  <1>3. CASE queue # <<>> /\ queue' = Tail(queue)
    <2>1. /\ queue' \in Seq(Commands) /\ Len(queue') = Len(queue) - 1
          /\ \A n \in 1 .. Len(queue') : queue'[n] = queue[n + 1]
      BY <1>3, HeadTailProperties
    <2>2. \A n \in DOMAIN queue' :
             n \in Nat /\ n + 1 \in DOMAIN queue /\ queue'[n] = queue[n + 1]
      BY <2>1
    <2> QED
      BY <2>2
  <1> QED
    BY <1>1, <1>2, <1>3

LEMMA QueuedJobs ==
    ASSUME TypeOK, NEW n \in DOMAIN queue
    PROVE  n \in Nat /\ queue[n] \in Commands /\ queue[n].job \in Jobs
  <1>1. queue \in Seq(Commands)
    BY DEF TypeOK
  <1>2. n \in Nat /\ queue[n] \in Commands
    BY <1>1
  <1> QED
    BY <1>2 DEF Commands

\* The order is kept by a step that sends nothing ...
LEMMA OrderShifted ==
    ASSUME TypeOK, NEW p \in Platforms, NEW j \in Jobs, Order(p, j),
           queue' = queue \/ queue' = <<>> \/ (queue # <<>> /\ queue' = Tail(queue)),
           \A i \in Jobs : /\ runner'[i].platform = runner[i].platform
                           /\ runner'[i].at \in Running => runner[i].at \in Running,
           Reached(j)' => Reached(j) \/ AllMine(p, j)'
    PROVE  Order(p, j)'
  <1>1. PICK d \in Nat : \A n \in DOMAIN queue' :
           n \in Nat /\ n + d \in DOMAIN queue /\ queue'[n] = queue[n + d]
    BY QueueShift DEF TypeOK
  <1>2. \A n \in DOMAIN queue' :
           /\ queue'[n].job = queue[n + d].job
           /\ runner'[queue'[n].job].platform = runner[queue[n + d].job].platform
    BY <1>1, QueuedJobs
  <1>3. \A i \in Jobs \ {j} : runner'[i].platform = p => runner'[i].at \notin Running
    BY DEF Order
  <1>4. ASSUME NEW m \in DOMAIN queue', NEW n \in DOMAIN queue',
               m < n, queue'[m].job = j, runner'[queue'[n].job].platform = p
        PROVE  queue'[n].job = j
    <2>1. m \in Nat /\ n \in Nat /\ m + d \in DOMAIN queue /\ n + d \in DOMAIN queue
      BY <1>1
    <2>2. m + d < n + d
      BY <1>4, <2>1
    <2>3. queue[m + d].job = j /\ runner[queue[n + d].job].platform = p
      BY <1>2, <1>4
    <2>4. queue[n + d].job = j
      BY <2>1, <2>2, <2>3 DEF Order
    <2> QED
      BY <1>2, <2>4
  <1>5. Reached(j)' => AllMine(p, j)'
    <2>1. CASE Reached(j)
      <3>1. AllMine(p, j)
        BY <2>1 DEF Order
      <3> QED
        BY <1>1, <1>2, <3>1 DEF AllMine
    <2> QED
      BY <2>1
  <1> QED
    BY <1>3, <1>4, <1>5 DEF Order

\* ... and by one that sends a command of the job, or of another platform.
LEMMA OrderAppended ==
    ASSUME TypeOK, NEW p \in Platforms, NEW j \in Jobs, Order(p, j),
           NEW c \in Commands, queue' = Append(queue, c),
           runner[c.job].platform = p => c.job = j,
           \A i \in Jobs : /\ runner'[i].platform = runner[i].platform
                           /\ runner'[i].at \in Running => runner[i].at \in Running,
           Reached(j)' => Reached(j)
    PROVE  Order(p, j)'
  <1>1. /\ queue \in Seq(Commands) /\ queue' \in Seq(Commands)
        /\ Len(queue) \in Nat /\ Len(queue') = Len(queue) + 1
        /\ \A n \in 1 .. Len(queue) : queue'[n] = queue[n]
        /\ queue'[Len(queue) + 1] = c
    <2>1. queue \in Seq(Commands)
      BY DEF TypeOK
    <2> QED
      BY <2>1, AppendProperties
  <1>2. c.job \in Jobs
    BY DEF Commands
  <1>3. ASSUME NEW n \in DOMAIN queue'
        PROVE  /\ n \in Nat
               /\ \/ /\ n \in DOMAIN queue /\ queue'[n] = queue[n]
                     /\ runner'[queue'[n].job].platform = runner[queue[n].job].platform
                  \/ /\ n = Len(queue) + 1
                     /\ runner'[queue'[n].job].platform = p => queue'[n].job = j
    <2>1. n \in 1 .. Len(queue) + 1
      BY <1>1
    <2>2. CASE n \in 1 .. Len(queue)
      <3>1. n \in DOMAIN queue /\ queue'[n] = queue[n]
        BY <1>1, <2>2
      <3> QED
        BY <3>1, QueuedJobs
    <2>3. CASE n = Len(queue) + 1
      BY <1>1, <1>2, <2>3
    <2> QED
      BY <1>1, <2>1, <2>2, <2>3
  <1>4. \A i \in Jobs \ {j} : runner'[i].platform = p => runner'[i].at \notin Running
    BY DEF Order
  <1>5. ASSUME NEW m \in DOMAIN queue', NEW n \in DOMAIN queue',
               m < n, queue'[m].job = j, runner'[queue'[n].job].platform = p
        PROVE  queue'[n].job = j
    <2>1. CASE n \in DOMAIN queue
      <3>1. n \in 1 .. Len(queue)
        BY <1>1, <2>1
      <3>2. m \in 1 .. Len(queue)
        <4>1. m \in 1 .. Len(queue')
          BY <1>1
        <4> QED
          BY <1>1, <1>5, <3>1, <4>1
      <3>3. m \in DOMAIN queue /\ queue[m].job = j
        BY <1>1, <1>5, <3>2
      <3>4. runner[queue[n].job].platform = p
        BY <1>1, <1>3, <1>5, <3>1
      <3>5. queue[n].job = j
        BY <1>5, <2>1, <3>3, <3>4 DEF Order
      <3> QED
        BY <1>1, <3>1, <3>5
    <2>2. CASE n \notin DOMAIN queue
      BY <1>3, <1>5, <2>2
    <2> QED
      BY <2>1, <2>2
  <1>6. Reached(j)' => AllMine(p, j)'
    <2> SUFFICES ASSUME Reached(j), NEW n \in DOMAIN queue',
                        runner'[queue'[n].job].platform = p
                 PROVE  queue'[n].job = j
      BY DEF AllMine
    <2>1. AllMine(p, j)
      BY DEF Order
    <2> QED
      BY <1>3, <2>1 DEF AllMine
  <1> QED
    BY <1>4, <1>5, <1>6 DEF Order

\* A job stays at its step, or falls back to another plugin, or fails.
LEMMA StayedOrFailed ==
    ASSUME NEW p \in Channels, NEW j \in Jobs, Progress(j), Configuring(p, j),
           row'[j] = row[j], conf' = conf, live' = live,
           \/ runner'[j] = runner[j]
           \/ /\ runner[j].at = "ready" /\ runner'[j].at = "waiting"
              /\ runner'[j].key = runner[j].key
           \/ /\ runner[j].at \in {"ready", "waiting"}
              /\ \/ runner'[j].at = "ended" /\ runner'[j].key = "fail"
                 \/ runner'[j].at = "ready" /\ runner'[j].key \in Plugins
    PROVE  Configuring(p, j)' /\ (Reached(j)' => Reached(j))
  <1>1. CASE runner'[j] = runner[j]
    BY <1>1 DEF Configuring, Reached
  <1>2. CASE /\ runner[j].at = "ready" /\ runner'[j].at = "waiting"
             /\ runner'[j].key = runner[j].key
    BY <1>2 DEF Configuring, Reached
  <1>3. CASE /\ runner[j].at \in {"ready", "waiting"}
             /\ \/ runner'[j].at = "ended" /\ runner'[j].key = "fail"
                \/ runner'[j].at = "ready" /\ runner'[j].key \in Plugins
    <2>1. row'[j] = "open"
      BY <1>3 DEF Progress, Running
    <2> QED
      BY <1>3, <2>1 DEF Configuring, Reached, Plugins
  <1> QED
    BY <1>1, <1>2, <1>3

LEMMA StepBeginsKeepsSole ==
    ASSUME JobsInv, NEW p \in Channels, NEW j \in Jobs, runner[j].platform = p,
           Order(p, j), Configuring(p, j), NEW i \in Jobs, StepBegins(i)
    PROVE  Order(p, j)' /\ Configuring(p, j)'
  <1> DEFINE k == runner[i].key
             c == [job |-> i, key |-> k]
  <1>1. /\ TypeOK /\ Progress(j) /\ runner[i].at = "ready" /\ p \in Platforms
        /\ row' = row /\ conf' = conf /\ live' = live
        /\ ran' = ran /\ installed' = installed
    BY PlatformSteps DEF JobsInv, StepBegins
  <1>2. \A l \in Jobs : /\ runner'[l].platform = runner[l].platform
                        /\ runner'[l].at \in Running => runner[l].at \in Running
    BY NothingStarts
  <1>3. k \in Keys
    <2>1. runner[i].platform \in Platforms /\ k \in StepsOf[runner[i].platform]
      BY <1>1 DEF JobsInv, Progress
    <2> QED
      BY <2>1, StepsAreKeys
  <1>4. CASE queue' = Append(queue, c) /\ MoveTo(i, "waiting", k)
    <2>1. /\ runner'[i].at = "waiting" /\ runner'[i].key = k
          /\ \A l \in Jobs \ {i} : runner'[l] = runner[l]
      BY <1>1, <1>3, <1>4, MovedTyped DEF Running
    <2>2. Configuring(p, j)' /\ (Reached(j)' => Reached(j))
      BY <1>1, <2>1, StayedOrFailed
    <2>3. runner[c.job].platform = p => c.job = j
      BY <1>1 DEF Order, Running
    <2>4. c \in Commands
      BY <1>3 DEF Commands
    <2> QED
      BY <1>1, <1>2, <1>4, <2>2, <2>3, <2>4, OrderAppended
  <1>5. CASE queue' = queue /\ StepFails(i, AfterError[k])
    <2>1. /\ \A l \in Jobs \ {i} : runner'[l] = runner[l]
          /\ \/ runner'[i].at = "ended" /\ runner'[i].key = "fail"
             \/ /\ runner'[i].at = "ready"
                /\ runner[i].platform \in Channels => runner'[i].key \in Plugins
      BY <1>1, <1>5, FailedStep
    <2>2. Configuring(p, j)' /\ (Reached(j)' => Reached(j))
      BY <1>1, <2>1, StayedOrFailed
    <2> QED
      BY <1>1, <1>2, <1>5, <2>2, OrderShifted
  <1> QED
    BY <1>4, <1>5 DEF StepBegins

LEMMA GiveUpKeepsSole ==
    ASSUME JobsInv, NEW p \in Channels, NEW j \in Jobs, runner[j].platform = p,
           Order(p, j), Configuring(p, j), NEW i \in Jobs, GiveUp(i)
    PROVE  Order(p, j)' /\ Configuring(p, j)'
  <1>1. /\ TypeOK /\ Progress(j) /\ runner[i].at = "waiting" /\ p \in Platforms
        /\ row' = row /\ conf' = conf /\ live' = live /\ queue' = queue
        /\ ran' = ran /\ installed' = installed
        /\ \E next \in {AfterFailure[runner[i].key], AfterError[runner[i].key]} :
              StepFails(i, next)
    BY PlatformSteps, GivenUp DEF JobsInv, GiveUp, device
  <1>2. \A l \in Jobs : /\ runner'[l].platform = runner[l].platform
                        /\ runner'[l].at \in Running => runner[l].at \in Running
    BY NothingStarts
  <1>3. /\ \A l \in Jobs \ {i} : runner'[l] = runner[l]
        /\ \/ runner'[i].at = "ended" /\ runner'[i].key = "fail"
           \/ /\ runner'[i].at = "ready"
              /\ runner[i].platform \in Channels => runner'[i].key \in Plugins
    BY <1>1, FailedStep
  <1>4. Configuring(p, j)' /\ (Reached(j)' => Reached(j))
    BY <1>1, <1>3, StayedOrFailed
  <1> QED
    BY <1>1, <1>2, <1>4, OrderShifted

LEMMA JobEndsKeepsSole ==
    ASSUME JobsInv, NEW p \in Channels, NEW j \in Jobs, runner[j].platform = p,
           Order(p, j), Configuring(p, j), NEW i \in Jobs, JobEnds(i)
    PROVE  Order(p, j)' /\ Configuring(p, j)'
  <1>1. /\ TypeOK /\ Progress(j) /\ runner[i].at = "ended" /\ p \in Platforms
        /\ conf' = conf /\ live' = live /\ queue' = queue
    BY PlatformSteps DEF JobsInv, JobEnds, device
  <1>2. \A l \in Jobs : /\ runner'[l].platform = runner[l].platform
                        /\ runner'[l].at \in Running => runner[l].at \in Running
    BY NothingStarts
  <1>3. PICK r \in {"open", "success", "failed"} :
           /\ row' = [row EXCEPT ![i] = r]
           /\ r = "success" => runner[i].key = "end"
    BY JobEndsRow
  <1>4. /\ runner'[i].at = "done" /\ row'[i] = r
        /\ \A l \in Jobs \ {i} : runner'[l] = runner[l] /\ row'[l] = row[l]
    <2>1. row'[i] = r /\ \A l \in Jobs \ {i} : row'[l] = row[l]
      BY <1>1, <1>3 DEF TypeOK
    <2>2. runner'[i].at = "done" /\ \A l \in Jobs \ {i} : runner'[l] = runner[l]
      BY <1>1, MovedTyped DEF JobEnds
    <2> QED
      BY <2>1, <2>2
  <1>5. Configuring(p, j)' /\ (Reached(j)' => Reached(j))
    <2>1. CASE i = j
      BY <1>1, <1>3, <1>4, <2>1 DEF Configuring, Reached
    <2>2. CASE i # j
      BY <1>1, <1>4, <2>2, StayedOrFailed
    <2> QED
      BY <2>1, <2>2
  <1> QED
    BY <1>1, <1>2, <1>5, OrderShifted

LEMMA CollectKeepsSole ==
    ASSUME JobsInv, NEW p \in Channels, NEW j \in Jobs, runner[j].platform = p,
           Order(p, j), Configuring(p, j), NEW i \in Jobs, Collect(i)
    PROVE  Order(p, j)' /\ Configuring(p, j)'
  <1>1. /\ TypeOK /\ Progress(j) /\ runner[i].at \in {"done", "dead"} /\ p \in Platforms
        /\ conf' = conf /\ live' = live /\ queue' = queue /\ runner' = runner
    BY PlatformSteps DEF JobsInv, Collect, device
  <1>2. row'[i] = "none" /\ \A l \in Jobs \ {i} : row'[l] = row[l]
    BY <1>1 DEF Collect, TypeOK
  <1>3. Configuring(p, j)' /\ (Reached(j)' => Reached(j))
    <2>1. CASE i = j
      BY <1>1, <1>2, <2>1 DEF Configuring, Reached
    <2>2. CASE i # j
      BY <1>1, <1>2, <2>2, StayedOrFailed
    <2> QED
      BY <2>1, <2>2
  <1> QED
    BY <1>1, <1>3, OrderShifted

LEMMA CrashKeepsSole ==
    ASSUME JobsInv, NEW p \in Channels, NEW j \in Jobs, runner[j].platform = p,
           Order(p, j), Configuring(p, j), Crash \/ LoseQueue
    PROVE  Order(p, j)' /\ Configuring(p, j)'
  <1>1. /\ TypeOK /\ Progress(j) /\ p \in Platforms
        /\ conf' = conf /\ live' = live /\ row' = row
        /\ queue' = queue \/ queue' = <<>>
    BY PlatformSteps DEF JobsInv, Crash, LoseQueue, device
  <1>2. \A l \in Jobs : /\ runner'[l].platform = runner[l].platform
                        /\ runner'[l].at \in Running => runner[l].at \in Running
    BY NothingStarts
  <1>3. Configuring(p, j)' /\ (Reached(j)' => Reached(j))
    <2>1. CASE runner'[j] = runner[j]
      BY <1>1, <2>1, StayedOrFailed
    <2>2. CASE runner[j].at \in Running /\ runner'[j].at = "dead"
      <3>1. row'[j] = "open"
        BY <1>1, <2>2 DEF Progress
      <3> QED
        BY <2>2, <3>1 DEF Configuring, Reached
    <2>3. CASE LoseQueue
      BY <2>1, <2>3 DEF LoseQueue
    <2>4. CASE Crash
      BY <1>1, <2>1, <2>2, <2>4, CrashedRunner
    <2> QED
      BY <2>3, <2>4
  <1> QED
    BY <1>1, <1>2, <1>3, OrderShifted

\* What is set to the job's credentials stays so, once the job is past the plugin.
LEMMA HeldKept ==
    ASSUME JobsInv, Execute, NEW p \in Channels, NEW j \in Jobs, AllMine(p, j)
    PROVE  /\ conf[p].id = j => conf'[p].id = j
           /\ conf[p].secret = j => conf'[p].secret = j
           /\ conf[p].id = j /\ conf[p].secret = j /\ live[p].id = j /\ live[p].secret = j
                 => live'[p].id = j /\ live'[p].secret = j
  <1> DEFINE i == Head(queue).job
             k == Head(queue).key
  <1>1. /\ TypeOK /\ i \in Jobs /\ k \in Keys
        /\ queue # <<>> /\ queue \in Seq(Commands)
    BY ExecuteHead DEF JobsInv
  <1>2. 1 \in DOMAIN queue /\ Head(queue) = queue[1]
    BY <1>1
  <1>3. runner[i].platform = p => i = j
    BY <1>2 DEF AllMine
  <1>4. CASE conf' = conf /\ live' = live
    BY <1>4
  <1>5. CASE Effect(i, k)
    <2>1. runner[i].platform # p => conf'[p] = conf[p]
      BY <1>1, <1>5, EffectOnFile
    <2>2. runner[i].platform = p =>
             /\ conf'[p].id = IF k \in {"configure-plugin", "set-app-id"} THEN j
                              ELSE conf[p].id
             /\ conf'[p].secret = IF k \in {"configure-plugin", "set-app-secret"} THEN j
                                  ELSE conf[p].secret
      BY <1>1, <1>3, <1>5, EffectOnFile
    <2>3. live' = conf \/ live' = live
      BY <1>5 DEF Effect
    <2> QED
      BY <2>1, <2>2, <2>3
  <1> QED
    BY <1>4, <1>5, ExecuteKinds

\* The job itself goes on: the device has done what its next step relies on.
LEMMA ConfiguredStep ==
    ASSUME JobsInv, NEW p \in Channels, NEW j \in Jobs, runner[j].platform = p,
           NEW k, k = Head(queue).key, j = Head(queue).job, Execute,
           runner[j].at = "waiting", runner[j].key = k, StepSucceeds(j),
           Effect(j, k) \/ k \in Plugins,
           Order(p, j), Configuring(p, j)
    PROVE  Configuring(p, j)'
  <1>1. /\ TypeOK /\ k \in StepsOf[p] /\ k \in Keys /\ p \in Platforms
        /\ row' = row /\ row[j] = "open"
    BY ExecuteHead, ExecuteKinds, PlatformSteps DEF JobsInv, Progress, Running
  <1>2. AfterSuccess[k] \in Keys \cup {"end", "fail"}
    BY <1>1, SuccessLeadsOn, StepsAreKeys
  <1>3. /\ runner'[j].at = (IF AfterSuccess[k] = "end" THEN "ended" ELSE "ready")
        /\ runner'[j].key = AfterSuccess[k]
    BY <1>1, <1>2, MovedTyped DEF StepSucceeds, Running
  <1>4. CASE k \in Plugins
    <2>1. AfterSuccess[k] \in {"configure-plugin", "set-app-id"}
      BY <1>4 DEF AfterSuccess, Plugins, Keys
    <2> QED
      BY <1>1, <1>3, <2>1 DEF Configuring
  <1>5. CASE k \notin Plugins /\ Effect(j, k)
    <2>1. Reached(j) /\ AllMine(p, j)
      BY <1>5 DEF Reached, Order
    <2>2. /\ conf'[p].id = IF k \in {"configure-plugin", "set-app-id"} THEN j
                           ELSE conf[p].id
          /\ conf'[p].secret = IF k \in {"configure-plugin", "set-app-secret"} THEN j
                               ELSE conf[p].secret
      BY <1>1, <1>5, EffectOnFile
    <2>3. k \in {"configure-plugin", "set-app-id", "set-app-secret", "restart-gateway"}
      BY <1>1, <1>5, PlatformSteps DEF Plugins
    <2>4. CASE k = "configure-plugin"
      <3>1. AfterSuccess[k] = "restart-gateway"
        BY <2>4 DEF AfterSuccess, Keys
      <3> QED
        BY <1>1, <1>3, <2>2, <2>4, <3>1 DEF Configuring
    <2>5. CASE k = "set-app-id"
      <3>1. AfterSuccess[k] = "set-app-secret"
        BY <2>5 DEF AfterSuccess, Keys
      <3> QED
        BY <1>1, <1>3, <2>2, <2>5, <3>1 DEF Configuring
    <2>6. CASE k = "set-app-secret"
      <3>1. AfterSuccess[k] = "restart-gateway" /\ conf[p].id = j
        BY <2>6 DEF AfterSuccess, Keys, Configuring
      <3> QED
        BY <1>1, <1>3, <2>2, <2>6, <3>1 DEF Configuring
    <2>7. CASE k = "restart-gateway"
      <3>1. /\ AfterSuccess[k] = "end" /\ conf[p].id = j /\ conf[p].secret = j
            /\ live' = conf
        BY <2>7, <1>5 DEF AfterSuccess, Keys, Configuring, Effect
      <3> QED
        BY <1>1, <1>3, <2>2, <2>7, <3>1 DEF Configuring
    <2> QED
      BY <2>3, <2>4, <2>5, <2>6, <2>7
  <1> QED
    BY <1>4, <1>5

LEMMA ExecuteKeepsSole ==
    ASSUME JobsInv, NEW p \in Channels, NEW j \in Jobs, runner[j].platform = p,
           Order(p, j), Configuring(p, j), Execute
    PROVE  Order(p, j)' /\ Configuring(p, j)'
  <1> DEFINE i == Head(queue).job
             k == Head(queue).key
  <1>1. /\ TypeOK /\ Progress(j) /\ p \in Platforms /\ i \in Jobs /\ k \in Keys
        /\ row' = row /\ queue # <<>> /\ queue' = Tail(queue)
    BY ExecuteHead, ExecuteKinds, PlatformSteps DEF JobsInv
  <1>2. \A l \in Jobs : /\ runner'[l].platform = runner[l].platform
                        /\ runner'[l].at \in Running => runner[l].at \in Running
    BY NothingStarts
  <1>3. Reached(j) => AllMine(p, j)
    BY DEF Order
  <1>4. i = j => AllMine(p, j)'
    <2> SUFFICES ASSUME i = j, NEW n \in DOMAIN queue',
                        runner'[queue'[n].job].platform = p
                 PROVE  queue'[n].job = j
      BY DEF AllMine
    <2>1. /\ queue \in Seq(Commands) /\ Len(queue') = Len(queue) - 1
          /\ queue' \in Seq(Commands)
          /\ \A m \in 1 .. Len(queue') : queue'[m] = queue[m + 1]
      <3>1. queue \in Seq(Commands)
        BY <1>1 DEF TypeOK
      <3> QED
        BY <1>1, <3>1, HeadTailProperties
    <2>2. /\ n \in Nat /\ 1 \in DOMAIN queue /\ n + 1 \in DOMAIN queue /\ 1 < n + 1
          /\ queue'[n] = queue[n + 1] /\ queue[1].job = j
      BY <1>1, <2>1
    <2>3. queue[n + 1].job \in Jobs
      BY <1>1, <2>2, QueuedJobs
    <2>4. runner[queue[n + 1].job].platform = p
      BY <1>2, <2>2, <2>3
    <2> QED
      BY <2>2, <2>4 DEF Order
  <1>5. runner'[j] = runner[j] => (Reached(j)' <=> Reached(j))
    BY <1>1 DEF Reached
  <1>6. CASE runner'[j] = runner[j]
    <2>1. Order(p, j)'
      BY <1>1, <1>2, <1>5, <1>6, OrderShifted
    <2>2. Configuring(p, j)'
      <3>1. CASE Reached(j)
        <4>1. AllMine(p, j)
          BY <1>3, <3>1
        <4>2. /\ conf[p].id = j => conf'[p].id = j
              /\ conf[p].secret = j => conf'[p].secret = j
              /\ conf[p].id = j /\ conf[p].secret = j
                    /\ live[p].id = j /\ live[p].secret = j
                    => live'[p].id = j /\ live'[p].secret = j
          BY <4>1, HeldKept
        <4> QED
          BY <1>1, <1>6, <4>2 DEF Configuring
      <3>2. CASE ~Reached(j)
        BY <1>1, <1>6, <3>2 DEF Configuring, Reached, Plugins
      <3> QED
        BY <3>1, <3>2
    <2> QED
      BY <2>1, <2>2
  <1>7. CASE runner'[j] # runner[j]
    <2>1. /\ runner[i].at = "waiting" /\ runner[i].key = k
          /\ \/ Effect(i, k) /\ StepSucceeds(i)
             \/ /\ ran' = ran /\ conf' = conf /\ live' = live
                /\ StepFails(i, AfterFailure[k])
             \/ k \in Plugins /\ StepSucceeds(i)
      BY <1>7, ExecuteKinds
    <2>2. i = j
      <3>1. CASE StepFails(i, AfterFailure[k]) /\ ran' = ran
        BY <1>1, <1>7, <2>1, <3>1, FailedStep, ExecuteKinds
      <3>2. CASE StepSucceeds(i)
        <4>1. runner[i].platform \in Platforms /\ k \in StepsOf[runner[i].platform]
          BY <1>1, <2>1 DEF JobsInv, Progress
        <4>2. AfterSuccess[k] \in Keys \cup {"end", "fail"}
          BY <4>1, SuccessLeadsOn, StepsAreKeys
        <4> QED
          BY <1>1, <1>7, <2>1, <3>2, <4>2, MovedTyped DEF StepSucceeds, Running
      <3> QED
        BY <2>1, <3>1, <3>2
    <2>3. Order(p, j)'
      BY <1>1, <1>2, <1>4, <2>2, OrderShifted
    <2>4. Configuring(p, j)'
      <3>1. CASE StepSucceeds(j) /\ (Effect(j, k) \/ k \in Plugins)
        BY <2>1, <2>2, <3>1, ConfiguredStep
      <3>2. CASE /\ ran' = ran /\ conf' = conf /\ live' = live
                 /\ StepFails(j, AfterFailure[k])
        <4>1. \/ runner'[j].at = "ended" /\ runner'[j].key = "fail"
              \/ runner'[j].at = "ready" /\ runner'[j].key \in Plugins
          BY <1>1, <2>1, <2>2, <3>2, FailedStep, ExecuteKinds
        <4> QED
          BY <1>1, <2>1, <2>2, <3>2, <4>1, StayedOrFailed
      <3> QED
        BY <2>1, <2>2, <3>1, <3>2
    <2> QED
      BY <2>3, <2>4
  <1> QED
    BY <1>6, <1>7

\* A job stored for the platform is alone, or is counted as shared.
LEMMA CreateKeepsSole ==
    ASSUME JobsInv, NewestInv, NEW i \in Jobs, NEW q \in Platforms, Create(i, q),
           NEW p \in Channels, NEW j \in Jobs, Sole(p, j)'
    PROVE  Order(p, j)' /\ Configuring(p, j)'
  <1>1. /\ TypeOK /\ Progress(i) /\ runner[i].at = "idle" /\ p \in Platforms
        /\ conf' = conf /\ live' = live /\ queue' = queue
    BY PlatformSteps DEF JobsInv, Create, device
  <1>2. row[i] = "none"
    BY <1>1 DEF Progress
  <1>3. PICK r : r = [at |-> "ready", key |-> FirstStep[q], platform |-> q]
    OBVIOUS
  <1>4. /\ runner' = [runner EXCEPT ![i] = r] /\ row' = [row EXCEPT ![i] = "open"]
        /\ newest' = [newest EXCEPT ![q] = i]
    BY <1>3 DEF Create
  <1>5. /\ runner'[i] = r /\ row'[i] = "open"
        /\ \A l \in Jobs \ {i} : runner'[l] = runner[l] /\ row'[l] = row[l]
    BY <1>1, <1>4 DEF TypeOK
  <1>6. newest'[q] = i /\ \A o \in Platforms \ {q} : newest'[o] = newest[o]
    BY <1>1, <1>4 DEF TypeOK
  <1> DEFINE others == {l \in Jobs : runner[l].at \in Running /\ runner[l].platform = q}
  <1>7. shared' = IF others = {} THEN shared ELSE shared \cup others \cup {i}
    BY DEF Create
  <1>8. \A n \in DOMAIN queue : queue[n].job \in Jobs /\ queue[n].job # i
    <2> TAKE n \in DOMAIN queue
    <2>1. queue[n].job \in Jobs
      BY <1>1, QueuedJobs
    <2>2. runner[queue[n].job].at # "idle"
      BY DEF JobsInv, QueueStarted
    <2> QED
      BY <1>1, <2>1, <2>2
  <1>9. j = newest'[p] /\ j \notin shared'
    BY DEF Sole
  <1>10. CASE q = p
    <2>1. j = i /\ others = {}
      BY <1>6, <1>7, <1>9, <1>10
    <2>2. \A l \in Jobs \ {j} : runner'[l].platform = p => runner'[l].at \notin Running
      BY <1>5, <1>10, <2>1
    <2>3. runner'[j].at = "ready" /\ runner'[j].key \in Plugins /\ row'[j] = "open"
      BY <1>3, <1>5, <1>10, <2>1, FirstIsAStep
    <2>4. ~Reached(j)' /\ Configuring(p, j)'
      BY <2>3 DEF Reached, Configuring, Plugins
    <2>5. Order(p, j)'
      BY <1>1, <1>8, <2>1, <2>2, <2>4 DEF Order
    <2> QED
      BY <2>4, <2>5
  <1>11. CASE q # p
    <2>1. j = newest[p] /\ j \notin shared
      BY <1>1, <1>6, <1>7, <1>9, <1>11
    <2>2. newest[p] # None
      BY <2>1, JobConstants
    <2>3. Sole(p, j) /\ runner[j].at # "idle"
      BY <1>1, <2>1, <2>2 DEF Sole, NewestInv
    <2>4. j # i /\ Order(p, j) /\ Configuring(p, j)
      BY <1>1, <2>3 DEF NewestInv
    <2>5. runner'[j] = runner[j] /\ row'[j] = row[j]
      BY <1>5, <2>4
    <2>6. Configuring(p, j)' /\ (Reached(j)' <=> Reached(j))
      BY <1>1, <2>4, <2>5 DEF Configuring, Reached
    <2>7. \A l \in Jobs \ {j} : runner'[l].platform = p => runner'[l].at \notin Running
      <3> TAKE l \in Jobs \ {j}
      <3>1. CASE l = i
        BY <1>3, <1>5, <1>11, <3>1
      <3>2. CASE l # i
        BY <1>5, <2>4, <3>2 DEF Order
      <3> QED
        BY <3>1, <3>2
    <2>8. \A n \in DOMAIN queue : runner'[queue[n].job] = runner[queue[n].job]
      BY <1>5, <1>8
    <2>9. AllMine(p, j)' <=> AllMine(p, j)
      BY <1>1, <2>8 DEF AllMine
    <2>10. \A m, n \in DOMAIN queue' :
              m < n /\ queue'[m].job = j /\ runner'[queue'[n].job].platform = p
                 => queue'[n].job = j
      BY <1>1, <2>4, <2>8 DEF Order
    <2>11. Reached(j)' => AllMine(p, j)'
      BY <2>4, <2>6, <2>9 DEF Order
    <2> QED
      BY <2>6, <2>7, <2>10, <2>11 DEF Order
  <1> QED
    BY <1>10, <1>11

LEMMA NewestInvInit == Init => NewestInv
  <1> SUFFICES ASSUME Init PROVE NewestInv
    OBVIOUS
  <1>1. \A p \in Platforms : newest[p] = None
    BY DEF Init
  <1>2. \A p \in Channels, j \in Jobs : ~Sole(p, j)
    BY <1>1, JobConstants, PlatformSteps DEF Sole
  <1> QED
    BY <1>1, <1>2 DEF NewestInv

\* The job that is newest for a platform is one of this platform.
LEMMA NewestIsOfItsPlatform ==
    ASSUME JobsInv, NewestInv, Next, NEW p \in Platforms, newest'[p] # None
    PROVE  runner'[newest'[p]].platform = p /\ runner'[newest'[p]].at # "idle"
  <1>1. TypeOK
    BY DEF JobsInv
  <1>2. ASSUME NEW i \in Jobs, NEW q \in Platforms, Create(i, q)
        PROVE  runner'[newest'[p]].platform = p /\ runner'[newest'[p]].at # "idle"
    <2>1. PICK r : r = [at |-> "ready", key |-> FirstStep[q], platform |-> q]
      OBVIOUS
    <2>2. /\ runner' = [runner EXCEPT ![i] = r] /\ newest' = [newest EXCEPT ![q] = i]
          /\ runner[i].at = "idle"
      BY <1>2, <2>1 DEF Create
    <2>3. /\ runner'[i] = r /\ \A l \in Jobs \ {i} : runner'[l] = runner[l]
          /\ newest'[q] = i /\ \A o \in Platforms \ {q} : newest'[o] = newest[o]
          /\ newest[p] \in Jobs \cup {None}
      BY <1>1, <2>2 DEF TypeOK
    <2>4. CASE p = q
      BY <2>1, <2>3, <2>4
    <2>5. CASE p # q
      <3>1. newest'[p] = newest[p] /\ newest[p] \in Jobs
        BY <2>3, <2>5
      <3>2. runner[newest[p]].platform = p /\ runner[newest[p]].at # "idle"
        BY <3>1 DEF NewestInv
      <3>3. newest[p] # i
        BY <2>2, <3>2
      <3> QED
        BY <2>3, <3>1, <3>2, <3>3
    <2> QED
      BY <2>4, <2>5
  <1>3. CASE \/ \E j \in Jobs : StepBegins(j) \/ GiveUp(j) \/ JobEnds(j) \/ Collect(j)
             \/ Crash \/ Execute \/ LoseQueue
    <2>1. newest' = newest
      BY <1>3 DEF StepBegins, GiveUp, JobEnds, Collect, Crash, Execute, LoseQueue
    <2>2. newest[p] \in Jobs
      BY <1>1, <2>1 DEF TypeOK
    <2>3. runner[newest[p]].platform = p /\ runner[newest[p]].at # "idle"
      BY <2>1 DEF NewestInv
    <2>4. /\ runner'[newest[p]].platform = runner[newest[p]].platform
          /\ runner'[newest[p]].at = "idle" <=> runner[newest[p]].at = "idle"
      BY <1>3, <2>2, NothingStarts
    <2> QED
      BY <2>1, <2>3, <2>4
  <1> QED
    BY <1>2, <1>3 DEF Next, RunnerStep

LEMMA SoleStep ==
    ASSUME JobsInv, NewestInv, Next, NEW p \in Channels, NEW j \in Jobs, Sole(p, j)'
    PROVE  Order(p, j)' /\ Configuring(p, j)'
  <1>1. CASE \E i \in Jobs, q \in Platforms : Create(i, q)
    BY <1>1, CreateKeepsSole
  <1>2. CASE \/ \E i \in Jobs : StepBegins(i) \/ GiveUp(i) \/ JobEnds(i) \/ Collect(i)
             \/ Crash \/ Execute \/ LoseQueue
    <2>1. newest' = newest /\ shared' = shared
      BY <1>2 DEF StepBegins, GiveUp, JobEnds, Collect, Crash, Execute, LoseQueue
    <2>2. Sole(p, j) /\ newest[p] # None /\ p \in Platforms
      BY <2>1, JobConstants, PlatformSteps DEF Sole
    <2>3. runner[j].platform = p /\ Order(p, j) /\ Configuring(p, j)
      BY <2>2 DEF NewestInv, Sole
    <2> QED
      BY <1>2, <2>3, StepBeginsKeepsSole, GiveUpKeepsSole, JobEndsKeepsSole,
         CollectKeepsSole, CrashKeepsSole, ExecuteKeepsSole
  <1> QED
    BY <1>1, <1>2 DEF Next, RunnerStep

LEMMA NewestInvStep == JobsInv /\ NewestInv /\ [Next]_vars => NewestInv'
  <1> SUFFICES ASSUME JobsInv, NewestInv, [Next]_vars PROVE NewestInv'
    OBVIOUS
  <1>1. CASE UNCHANGED vars
    <2>1. \A p \in Channels, j \in Jobs : Sole(p, j)' => Order(p, j)' /\ Configuring(p, j)'
      BY <1>1 DEF vars, NewestInv, Sole, Order, AllMine, Reached, Configuring
    <2> QED
      BY <1>1, <2>1 DEF NewestInv, vars
  <1>2. CASE Next
    <2>1. \A p \in Platforms : newest'[p] # None =>
             runner'[newest'[p]].platform = p /\ runner'[newest'[p]].at # "idle"
      BY <1>2, NewestIsOfItsPlatform
    <2>2. \A p \in Channels, j \in Jobs : Sole(p, j)' => Order(p, j)' /\ Configuring(p, j)'
      BY <1>2, SoleStep
    <2> QED
      BY <2>1, <2>2 DEF NewestInv
  <1> QED
    BY <1>1, <1>2

LEMMA NewestIsConfigured == JobsInv /\ NewestInv => SuccessMeansConfigured
  <1> SUFFICES ASSUME JobsInv, NewestInv PROVE SuccessMeansConfigured
    OBVIOUS
  <1>1. TypeOK
    BY DEF JobsInv
  <1>2. ASSUME NEW p \in Channels, newest[p] # None, newest[p] \notin shared,
               row[newest[p]] = "success"
        PROVE  live[p] = [id |-> newest[p], secret |-> newest[p]]
    <2>1. newest[p] \in Jobs /\ live[p] \in Credentials
      BY <1>1, <1>2, PlatformSteps DEF TypeOK
    <2>2. Configuring(p, newest[p])
      BY <1>2, <2>1 DEF NewestInv, Sole
    <2>3. live[p].id = newest[p] /\ live[p].secret = newest[p]
      BY <1>2, <2>2 DEF Configuring
    <2> QED
      BY <2>1, <2>3 DEF Credentials
  <1>3. ASSUME NEW j \in Jobs, row[j] = "success", runner[j].platform = "openclaw"
        PROVE  installed # {}
    <2>1. Configures["openclaw"] \subseteq ran[j]
      BY <1>3 DEF JobsInv, Progress
    <2> QED
      BY <2>1, PlatformSteps DEF JobsInv, Progress
  <1> QED
    BY <1>2, <1>3 DEF SuccessMeansConfigured

(***************************************************************************)
(* A job reported as a success has configured the device: the gateway runs *)
(* with its credentials as long as it is the newest of its platform and    *)
(* was never alongside another, whatever was left of earlier ones.         *)
(***************************************************************************)
THEOREM SuccessIsConfigured == Spec => []SuccessMeansConfigured
  <1>1. Spec => []NewestInv
    BY NewestInvInit, NewestInvStep, JobsInvAlways, PTL DEF Spec
  <1> QED
    BY <1>1, NewestIsConfigured, JobsInvAlways, PTL
=============================================================================
