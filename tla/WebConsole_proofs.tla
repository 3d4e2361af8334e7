--------------------------- MODULE WebConsole_proofs ---------------------------
(***************************************************************************)
(* The parts of the web interface, for every value of the constants: what  *)
(* the run web_console checks of them on small instances, but for          *)
(* liveness.                                                               *)
(*                                                                         *)
(* Each part has an inductive invariant of its own, over its own           *)
(* variables; as a step of WebNext is a step of one part and leaves the    *)
(* others alone (WebSteps), they hold side by side.                        *)
(***************************************************************************)
EXTENDS WebConsole, ImWizard_proofs, SequenceTheorems, TLAPS

\* A step is each part's step or leaves it alone.
LEMMA WebSteps ==
    ASSUME [WebNext]_webVars
    PROVE  /\ \/ [WizardNext]_imVars /\ UNCHANGED cardVars
              \/ [InstallNext]_installVars /\ UNCHANGED wizardVars
           /\ [SessionNext]_sessionVars
           /\ [FeedNext]_feedVars
           /\ [PollerNext]_pollerVars
           /\ [BatchNext]_batchVars
           /\ [ListNext]_listVars
           /\ [EditorNext]_editorVars
  BY DEF WebNext, webVars, Jobless, NoJobs, imVars, installVars
-----------------------------------------------------------------------------
(* Who is logged in. *)

\* While the login page waits nobody is logged in.
SessionInv ==
    /\ SessionTypeOK
    /\ SessionAgrees
    /\ signIn => token = Nobody

LEMMA SessionInvInit == SessionInit => SessionInv
  BY SessionConstants DEF SessionInit, SessionInv, SessionTypeOK, SessionAgrees, Inside

LEMMA SessionInvStep ==
    ASSUME SessionInv, [SessionNext]_sessionVars
    PROVE  SessionInv'
  <1> USE SessionConstants
          DEF SessionInv, SessionTypeOK, SessionAgrees, Inside
  <1>1. CASE Reload
    <2>1. stored # Nobody => [token |-> stored, by |-> "effect"] \in Calls
      BY DEF Calls
    <2>2. me' \subseteq Calls
      BY <1>1, <2>1 DEF Reload
    <2> QED
      BY <1>1, <2>2 DEF Reload
  <1>2. CASE SubmitLogin
    BY <1>2 DEF SubmitLogin
  <1>3. CASE LoginFails
    BY <1>3 DEF LoginFails, SessionGone
  <1>4. CASE Logout
    BY <1>4 DEF Logout, SessionGone, Undisturbed
  <1>5. CASE PageAsks
    BY <1>5 DEF PageAsks
  <1>6. CASE SubmitPassword
    BY <1>6 DEF SubmitPassword
  <1>7. CASE PasswordChanged
    <2>1. [token |-> renewal, by |-> "refresh"] \in Calls
      BY <1>7 DEF PasswordChanged, Calls
    <2>2. me' \subseteq Calls
      BY <1>7, <2>1 DEF PasswordChanged, RefreshMe
    <2> QED
      BY <1>7, <2>2 DEF PasswordChanged, SessionGone, Undisturbed, Crosses
  <1>8. CASE PasswordRefused
    <2>1. [token |-> renewal, by |-> "refresh"] \in Calls
      BY <1>8 DEF PasswordRefused, Calls
    <2>2. me' \subseteq Calls
      BY <1>8, <2>1 DEF PasswordRefused, HandleUnauthorized, RefreshMe
    <2>3. asked' \subseteq Tokens
      BY <1>8 DEF PasswordRefused, HandleUnauthorized
    <2>4. renewal' \in Tokens \cup {Nobody} /\ crossed' \in BOOLEAN
      BY <1>8 DEF PasswordRefused, HandleUnauthorized, Crosses
    <2>5. CASE UNCHANGED <<stored, token, user, entering, signIn, crossed>>
      BY <1>8, <2>2, <2>3, <2>4, <2>5 DEF PasswordRefused
    <2>6. CASE SessionGone /\ entering' = Undisturbed
      <3>1. signIn' \in BOOLEAN
        BY <1>8 DEF PasswordRefused, HandleUnauthorized
      <3>2. signIn' => token' = Nobody
        BY <2>6 DEF SessionGone
      <3>3. entering' \in BOOLEAN
        BY <2>6 DEF Undisturbed
      <3> QED
        BY <1>8, <2>2, <2>3, <2>4, <2>6, <3>1, <3>2, <3>3
           DEF PasswordRefused, SessionGone
    <2> QED
      BY <1>8, <2>5, <2>6 DEF PasswordRefused, HandleUnauthorized
  <1>9. ASSUME NEW t \in Tokens, LoginAnswered(t) PROVE SessionInv'
    <2>1. [token |-> t, by |-> "effect"] \in Calls
      BY DEF Calls
    <2>2. me' \subseteq Calls
      BY <1>9, <2>1 DEF LoginAnswered, Entered
    <2> QED
      BY <1>9, <2>2 DEF LoginAnswered, Entered
  <1>10. ASSUME NEW t \in Tokens, PageAnswered(t) PROVE SessionInv'
    <2>1. asked' \subseteq Tokens
      BY <1>10 DEF PageAnswered, HandleUnauthorized
    <2>2. CASE UNCHANGED <<stored, token, user, entering, signIn, me, renewal, crossed>>
      BY <1>10, <2>1, <2>2 DEF PageAnswered
    <2>3. CASE /\ HandleUnauthorized(me, asked \ {t}, renewal)
               /\ entering' = Undisturbed
               /\ Crosses(t)
      BY <1>10, <2>1, <2>3
         DEF PageAnswered, HandleUnauthorized, SessionGone, Undisturbed, Crosses
    <2> QED
      BY <1>10, <2>2, <2>3 DEF PageAnswered
  <1>11. ASSUME NEW t \in Tokens, Expire(t) PROVE SessionInv'
    BY <1>11 DEF Expire
  <1>12. ASSUME NEW c \in Calls, MeAnswered(c) PROVE SessionInv'
    BY <1>12 DEF MeAnswered, Crosses, Calls
  <1>13. ASSUME NEW c \in Calls, MeUnauthorized(c) PROVE SessionInv'
    BY <1>13 DEF MeUnauthorized, HandleUnauthorized, SessionGone, Undisturbed, Crosses
  <1>14. ASSUME NEW c \in Calls, MeFails(c) PROVE SessionInv'
    BY <1>14 DEF MeFails, SessionGone, Crosses
  <1>15. CASE UNCHANGED sessionVars
    BY <1>15 DEF sessionVars
  <1> QED
    BY <1>1, <1>2, <1>3, <1>4, <1>5, <1>6, <1>7, <1>8, <1>9, <1>10, <1>11,
       <1>12, <1>13, <1>14, <1>15 DEF SessionNext

\* What takes the loading screen away: a call that goes away without an end of
\* the loading is not the effect's.
LEMMA LoadingHasCallStep ==
    ASSUME LoadingHasCall, [SessionNext]_sessionVars
    PROVE  LoadingHasCall'
  <1> USE DEF LoadingHasCall
  <1>1. CASE Reload
    BY <1>1 DEF Reload
  <1>2. CASE SubmitLogin
    BY <1>2 DEF SubmitLogin
  <1>3. CASE LoginFails
    BY <1>3 DEF LoginFails, SessionGone
  <1>4. CASE Logout
    BY <1>4 DEF Logout, SessionGone, Undisturbed
  <1>5. CASE PageAsks
    BY <1>5 DEF PageAsks
  <1>6. CASE SubmitPassword
    BY <1>6 DEF SubmitPassword
  <1>7. CASE PasswordChanged
    BY <1>7 DEF PasswordChanged, RefreshMe, Undisturbed
  <1>8. CASE PasswordRefused
    <2>1. \/ UNCHANGED <<entering, signIn>> /\ me \subseteq me'
          \/ ~entering'
      BY <1>8 DEF PasswordRefused, RefreshMe, HandleUnauthorized, Undisturbed
    <2> QED
      BY <2>1
  <1>9. ASSUME NEW t \in Tokens, LoginAnswered(t) PROVE LoadingHasCall'
    <2>1. [token |-> t, by |-> "effect"] \in me'
      BY <1>9 DEF LoginAnswered, Entered
    <2> QED
      BY <2>1
  <1>10. ASSUME NEW t \in Tokens, PageAnswered(t) PROVE LoadingHasCall'
    <2>1. UNCHANGED <<entering, signIn, me>> \/ ~entering'
      BY <1>10 DEF PageAnswered, HandleUnauthorized, Undisturbed
    <2> QED
      BY <2>1
  <1>11. ASSUME NEW t \in Tokens, Expire(t) PROVE LoadingHasCall'
    BY <1>11 DEF Expire
  <1>12. ASSUME NEW c \in Calls, MeAnswered(c) PROVE LoadingHasCall'
    <2>1. CASE c.by = "effect"
      BY <1>12, <2>1 DEF MeAnswered
    <2>2. CASE c.by # "effect"
      BY <1>12, <2>2 DEF MeAnswered
    <2> QED
      BY <2>1, <2>2
  <1>13. ASSUME NEW c \in Calls, MeUnauthorized(c) PROVE LoadingHasCall'
    <2>1. CASE c.by = "effect"
      BY <1>13, <2>1 DEF MeUnauthorized
    <2>2. CASE c.by # "effect"
      <3>1. ~entering' \/ (UNCHANGED <<entering, signIn>> /\ me' = me \ {c})
        BY <1>13, <2>2 DEF MeUnauthorized, HandleUnauthorized, Undisturbed
      <3> QED
        BY <2>2, <3>1
    <2> QED
      BY <2>1, <2>2
  <1>14. ASSUME NEW c \in Calls, MeFails(c) PROVE LoadingHasCall'
    <2>1. CASE c.by = "effect"
      BY <1>14, <2>1 DEF MeFails, SessionGone
    <2>2. CASE c.by # "effect"
      BY <1>14, <2>2 DEF MeFails
    <2> QED
      BY <2>1, <2>2
  <1>15. CASE UNCHANGED sessionVars
    BY <1>15 DEF sessionVars
  <1> QED
    BY <1>1, <1>2, <1>3, <1>4, <1>5, <1>6, <1>7, <1>8, <1>9, <1>10, <1>11,
       <1>12, <1>13, <1>14, <1>15 DEF SessionNext

\* The loading screen always has a login or a call that will end it
\* (AuthProvider, RequireAuth).
LEMMA LoadingIsAttended == WebSpec => []LoadingHasCall
  <1>1. WebInit => LoadingHasCall
    BY DEF WebInit, SessionInit, LoadingHasCall
  <1>2. LoadingHasCall /\ [WebNext]_webVars => LoadingHasCall'
    BY LoadingHasCallStep, WebSteps
  <1> QED
    BY <1>1, <1>2, PTL DEF WebSpec

\* What is stored, what the requests carry and what is shown belong to one
\* session, unless an answer to an earlier one came in between (AuthProvider).
THEOREM SessionsAgree == WebSpec => []SessionAgrees
  <1>1. WebInit => SessionInv
    BY SessionInvInit DEF WebInit
  <1>2. SessionInv /\ [WebNext]_webVars => SessionInv'
    BY SessionInvStep, WebSteps
  <1>3. SessionInv => SessionAgrees
    BY DEF SessionInv
  <1> QED
    BY <1>1, <1>2, <1>3, PTL DEF WebSpec
-----------------------------------------------------------------------------
(* The feed of the devices. *)

FeedInv == FeedTypeOK /\ OneSocket

LEMMA NothingOnTheWire == <<>> \in Seq(Views) /\ Len(<<>>) <= MaxWire
  BY FeedConstants

LEMMA FeedInvInit == FeedInit => FeedInv
  BY NothingOnTheWire DEF FeedInit, FeedInv, FeedTypeOK, OneSocket

LEMMA ViewTyped == View \in Views
  BY DEF View, Views

LEMMA FeedInvStep ==
    ASSUME FeedInv, [FeedNext]_feedVars
    PROVE  FeedInv'
  <1> USE FeedConstants DEF FeedInv, FeedTypeOK, OneSocket
  <1>1. CASE DeviceConnects
    BY <1>1 DEF DeviceConnects, browser, Views
  <1>2. CASE Heartbeat
    BY <1>2 DEF Heartbeat, browser, Views
  <1>3. CASE DeviceDrops
    BY <1>3, ViewTyped DEF DeviceDrops, browser
  <1>4. CASE OldDrops
    BY <1>4, ViewTyped DEF OldDrops, browser
  <1>5. CASE Age
    <2>1. seen' = FALSE
          /\ UNCHANGED <<device, event, old, served, wire, mounted, socket, timer,
                         connected, shown, refresh>>
      BY <1>5 DEF Age, browser
    <2>2. FeedTypeOK'
      BY ZenonT(60), <2>1
    <2> QED
      BY <2>1, <2>2
  <1>6. CASE WriteEvent
    BY <1>6 DEF WriteEvent, Written, browser
  <1>7. CASE WriteOld
    BY <1>7 DEF WriteOld, Written, browser
  <1>8. CASE Admit
    BY <1>8 DEF Admit, server, browser
  <1>9. CASE Refuse
    BY <1>9 DEF Refuse, server
  <1>10. CASE ReadSnapshot
    BY <1>10, ViewTyped DEF ReadSnapshot, server, browser
  <1>11. CASE WriteSnapshot
    BY <1>11 DEF WriteSnapshot, Written, server, browser
  <1>12. CASE Mount
    BY <1>12 DEF Mount, server
  <1>13. CASE Unmount
    BY <1>13, NothingOnTheWire DEF Unmount, CutOff, server
  <1>14. CASE Opened
    BY <1>14 DEF Opened, server
  <1>15. CASE Closed
    BY <1>15, NothingOnTheWire DEF Closed, CutOff, server
  <1>16. CASE Reconnect
    BY <1>16 DEF Reconnect, server
  <1>17. CASE Receive
    BY <1>17 DEF Receive, server
  <1>18. CASE AskRefresh
    BY <1>18 DEF AskRefresh, server
  <1>19. CASE AnswerRefresh
    BY <1>19, ViewTyped DEF AnswerRefresh, server
  <1>20. CASE EndRefresh
    BY <1>20 DEF EndRefresh, server
  <1>21. CASE UNCHANGED feedVars
    BY <1>21 DEF feedVars
  <1> QED
    BY <1>1, <1>2, <1>3, <1>4, <1>5, <1>6, <1>7, <1>8, <1>9, <1>10, <1>11,
       <1>12, <1>13, <1>14, <1>15, <1>16, <1>17, <1>18, <1>19, <1>20, <1>21
       DEF FeedNext

\* The provider has one socket or one timer for the next, as long as it is there,
\* and says it is connected while its socket is open (RealtimeProvider).
LEMMA FeedHasOneSocket == WebSpec => []OneSocket
  <1>1. WebInit => FeedInv
    BY FeedInvInit DEF WebInit
  <1>2. FeedInv /\ [WebNext]_webVars => FeedInv'
    BY FeedInvStep, WebSteps
  <1>3. FeedInv => OneSocket
    BY DEF FeedInv
  <1> QED
    BY <1>1, <1>2, <1>3, PTL DEF WebSpec
-----------------------------------------------------------------------------
(* The cards that poll. *)

PollerInv == PollerTypeOK /\ OnePollChain

LEMMA CommandsTyped ==
    /\ NoRead \in ReadCommands /\ NoRead.by = "none"
    /\ Sent("poll") \in ReadCommands /\ Sent("poll").by = "poll"
    /\ Sent("user") \in ReadCommands /\ Sent("user").by = "user"
    /\ Sent("action") \in ReadCommands /\ Sent("action").by = "action"
  <1>1. 0 \in 0 .. MaxActions
    BY PollerConstants
  <1> QED
    BY <1>1 DEF NoRead, Sent, ReadCommands

LEMMA PollerInvInit == PollerInit => PollerInv
  <1> SUFFICES ASSUME PollerInit PROVE PollerInv
    OBVIOUS
  <1>1. PollerTypeOK
    <2>1. 0 \in 0 .. MaxActions /\ 0 \in 0 .. MaxFailures
      BY PollerConstants
    <2> QED
      BY <2>1, CommandsTyped DEF PollerInit, PollerTypeOK
  <1>2. OnePollChain
    BY CommandsTyped DEF PollerInit, OnePollChain, Polling
  <1> QED
    BY <1>1, <1>2 DEF PollerInv

\* The effect leaves one chain if it is to poll, and none if it is not,
\* whatever command is under way.
LEMMA EffectLeavesOneChain ==
    ASSUME NEW r \in ReadCommands,
           NEW on \in BOOLEAN,
           PollEffect(r, on)
    PROVE  /\ read' \in ReadCommands
           /\ pollTimer' \in BOOLEAN
           /\ ~(pollTimer' /\ read'.by = "poll")
           /\ on <=> (pollTimer' \/ read'.by = "poll")
  <1>1. CASE on = FALSE
    BY <1>1 DEF PollEffect, ReadCommands
  <1>2. CASE on /\ r.by = "none"
    BY <1>2, CommandsTyped DEF PollEffect
  <1>3. CASE on /\ r.by # "none"
    BY <1>3 DEF PollEffect, ReadCommands
  <1> QED
    BY <1>1, <1>2, <1>3

LEMMA PollerInvStep ==
    ASSUME PollerInv, [PollerNext]_pollerVars
    PROVE  PollerInv'
  <1> USE PollerConstants DEF PollerInv, PollerTypeOK, OnePollChain, Polling
  <1>1. CASE Reach
    BY <1>1, EffectLeavesOneChain DEF Reach
  <1>2. CASE Wish
    BY <1>2, EffectLeavesOneChain DEF Wish
  <1>3. CASE ActualChanges
    BY <1>3 DEF ActualChanges
  <1>4. CASE Collect
    BY <1>4 DEF Collect
  <1>5. CASE Reported
    BY <1>5 DEF Reported
  <1>6. CASE TimerFires
    BY <1>6, CommandsTyped DEF TimerFires, InFlight
  <1>7. CASE PressRead
    BY <1>7, CommandsTyped DEF PressRead, InFlight
  <1>8. CASE ReadRuns
    BY <1>8 DEF ReadRuns, ReadCommands
  <1>9. ASSUME ReadOver, UNCHANGED <<reachable, wish>>
        PROVE  /\ read' \in ReadCommands /\ pollTimer' \in BOOLEAN
               /\ action' \in {"none", "sent", "ran", "reread"}
               /\ OnePollChain'
    <2>1. CASE read.by = "poll"
      BY <1>9, <2>1, CommandsTyped DEF ReadOver
    <2>2. CASE read.by = "action"
      BY <1>9, <2>2, CommandsTyped, EffectLeavesOneChain DEF ReadOver
    <2>3. CASE read.by \notin {"poll", "action"}
      BY <1>9, <2>3, CommandsTyped DEF ReadOver
    <2> QED
      BY <2>1, <2>2, <2>3
  <1>10. CASE ReadFails
    BY <1>9, <1>10 DEF ReadFails, Failure
  <1>11. CASE ReadEnds
    <2>1. display' \in 0 .. MaxActions
      BY <1>11 DEF ReadEnds, ReadCommands
    <2> QED
      BY <1>9, <1>11, <2>1 DEF ReadEnds
  <1>12. CASE StartAction
    BY <1>12, EffectLeavesOneChain DEF StartAction
  <1>13. CASE ActionRuns
    BY <1>13 DEF ActionRuns
  <1>14. CASE ActionEnds
    <2>1. CASE InFlight
      BY <1>14, <2>1, EffectLeavesOneChain DEF ActionEnds
    <2>2. CASE ~InFlight
      BY <1>14, <2>2, CommandsTyped DEF ActionEnds, InFlight
    <2> QED
      BY <2>1, <2>2
  <1>15. CASE ActionFails
    BY <1>15, EffectLeavesOneChain DEF ActionFails
  <1>16. CASE UNCHANGED pollerVars
    BY <1>16 DEF pollerVars
  <1> QED
    BY <1>1, <1>2, <1>3, <1>4, <1>5, <1>6, <1>7, <1>8, <1>10, <1>11, <1>12,
       <1>13, <1>14, <1>15, <1>16 DEF PollerNext

\* A card that is to be kept up to date has one chain of polls, another none
\* (GatewayControlCard, LogViewerCard).
LEMMA CardsHaveOnePollChain == WebSpec => []OnePollChain
  <1>1. WebInit => PollerInv
    BY PollerInvInit DEF WebInit
  <1>2. PollerInv /\ [WebNext]_webVars => PollerInv'
    BY PollerInvStep, WebSteps
  <1>3. PollerInv => OnePollChain
    BY DEF PollerInv
  <1> QED
    BY <1>1, <1>2, <1>3, PTL DEF WebSpec
-----------------------------------------------------------------------------
(* The editor of a workspace's files. *)

\* As long as no read has failed or was overlapped, there is one read at most,
\* of the file in the title, and the text is that file's when it has ended.
EditorInv ==
    /\ EditorTypeOK
    /\ SavesOwnText
    /\ ~astray => \/ reads = <<>> /\ editContent = editing
                  \/ reads = <<editing>> /\ editLoading

LEMMA EditorInvInit == EditorInit => EditorInv
  <1> SUFFICES ASSUME EditorInit PROVE EditorInv
    OBVIOUS
  <1>1. <<>> \in Seq(Files) /\ Len(<<>>) <= MaxReads
    BY EditorConstants
  <1>2. NoSave \in [file : Files \cup {Blank}, content : Files \cup {Blank},
                   excused : BOOLEAN]
    BY DEF NoSave
  <1>3. SavesOwnText
    BY DEF EditorInit, SavesOwnText, NoSave
  <1> QED
    BY <1>1, <1>2, <1>3 DEF EditorInit, EditorInv, EditorTypeOK

\* A sequence without its i-th element.
LEMMA RemovedAt ==
    ASSUME NEW S, NEW s \in Seq(S), NEW i \in DOMAIN s
    PROVE  /\ RemoveAt(s, i) \in Seq(S)
           /\ Len(RemoveAt(s, i)) = Len(s) - 1
           /\ \A k \in 1 .. Len(s) - 1 :
                 RemoveAt(s, i)[k] = IF k < i THEN s[k] ELSE s[k + 1]
  <1> DEFINE head == SubSeq(s, 1, i - 1)
             tail == SubSeq(s, i + 1, Len(s))
  <1>1. i \in 1 .. Len(s) /\ Len(s) \in Nat
    OBVIOUS
  <1>2. /\ head \in Seq(S) /\ Len(head) = i - 1
        /\ \A k \in 1 .. i - 1 : head[k] = s[k]
    BY <1>1, SubSeqProperties
  <1>3. /\ tail \in Seq(S) /\ Len(tail) = Len(s) - i
        /\ \A k \in 1 .. Len(s) - i : tail[k] = s[i + k]
    BY <1>1, SubSeqProperties
  <1> HIDE DEF head, tail
  <1>4. /\ head \o tail \in Seq(S)
        /\ Len(head \o tail) = Len(s) - 1
        /\ \A k \in 1 .. Len(s) - 1 :
              (head \o tail)[k] = IF k <= i - 1 THEN head[k] ELSE tail[k - (i - 1)]
    <2>1. /\ head \o tail \in Seq(S)
          /\ Len(head \o tail) = Len(head) + Len(tail)
          /\ \A k \in 1 .. Len(head) + Len(tail) :
                (head \o tail)[k] = IF k <= Len(head) THEN head[k]
                                    ELSE tail[k - Len(head)]
      <3>1. head \in Seq(S) /\ tail \in Seq(S)
        BY <1>2, <1>3
      <3> QED
        BY ONLY <3>1, ConcatProperties, Zenon
    <2>2. Len(head) = i - 1 /\ Len(head) + Len(tail) = Len(s) - 1
      BY <1>1, <1>2, <1>3
    <2> QED
      BY <2>1, <2>2
  <1>5. ASSUME NEW k \in 1 .. Len(s) - 1
        PROVE  (head \o tail)[k] = IF k < i THEN s[k] ELSE s[k + 1]
    <2>1. CASE k < i
      <3>1. k \in 1 .. i - 1 /\ k <= i - 1
        BY <1>1, <2>1
      <3>2. head[k] = s[k] /\ (head \o tail)[k] = head[k]
        BY <1>2, <1>4, <3>1
      <3> QED
        BY <2>1, <3>2
    <2>2. CASE ~(k < i)
      <3>1. /\ k - (i - 1) \in 1 .. Len(s) - i /\ i + (k - (i - 1)) = k + 1
            /\ ~(k <= i - 1)
        BY <1>1, <2>2
      <3>2. /\ (head \o tail)[k] = tail[k - (i - 1)]
            /\ tail[k - (i - 1)] = s[i + (k - (i - 1))]
        BY <1>3, <1>4, <3>1
      <3> QED
        BY <2>2, <3>1, <3>2
    <2> QED
      BY <2>1, <2>2
  <1> QED
    BY <1>4, <1>5 DEF RemoveAt, head, tail

\* What is left of the reads when one has ended.
LEMMA ReadsLeft ==
    ASSUME NEW s \in Seq(Files), NEW i \in DOMAIN s
    PROVE  /\ RemoveAt(s, i) \in Seq(Files)
           /\ Len(RemoveAt(s, i)) = Len(s) - 1
           /\ s[i] \in Files
           /\ \A f \in Files : s = <<f>> => s[i] = f /\ RemoveAt(s, i) = <<>>
  <1>1. /\ RemoveAt(s, i) \in Seq(Files)
        /\ Len(RemoveAt(s, i)) = Len(s) - 1
    BY RemovedAt
  <1>2. ASSUME NEW f \in Files, s = <<f>>
        PROVE  s[i] = f /\ RemoveAt(s, i) = <<>>
    <2>1. i = 1 /\ Len(s) = 1
      BY <1>2
    <2>2. Len(RemoveAt(s, i)) = 0
      BY <1>1, <2>1
    <2> QED
      BY <1>1, <1>2, <2>1, <2>2, EmptySeq
  <1> QED
    BY <1>1, <1>2

LEMMA EditorInvStep ==
    ASSUME EditorInv, [EditorNext]_editorVars
    PROVE  EditorInv'
  <1> USE EditorConstants DEF EditorInv, EditorTypeOK, SavesOwnText
  <1>1. ASSUME NEW f \in Files, OpenEditor(f) PROVE EditorInv'
    <2>1. /\ Append(reads, f) \in Seq(Files)
          /\ Len(Append(reads, f)) = Len(reads) + 1
      BY AppendProperties
    <2>2. Len(reads) + 1 <= MaxReads
      BY <1>1 DEF OpenEditor
    <2>3. reads = <<>> => Append(reads, f) = <<f>>
      OBVIOUS
    <2> QED
      BY <1>1, <2>1, <2>2, <2>3 DEF OpenEditor
  <1>2. ASSUME NEW i \in DOMAIN reads, FileRead(i) PROVE EditorInv'
    <2>1. /\ reads' \in Seq(Files) /\ Len(reads') <= MaxReads
          /\ editContent' \in Files
      BY <1>2, ReadsLeft DEF FileRead
    <2>2. ~astray => reads' = <<>> /\ editContent' = editing
      BY <1>2, ReadsLeft DEF FileRead
    <2> QED
      BY <1>2, <2>1, <2>2 DEF FileRead
  <1>3. ASSUME NEW i \in DOMAIN reads, FileNotRead(i) PROVE EditorInv'
    <2>1. reads' \in Seq(Files) /\ Len(reads') <= MaxReads
      BY <1>3, ReadsLeft DEF FileNotRead
    <2> QED
      BY <1>3, <2>1 DEF FileNotRead
  <1>4. CASE Cancel
    BY <1>4 DEF Cancel
  <1>5. CASE Save
    BY <1>5 DEF Save
  <1>6. CASE Saved \/ NotSaved
    <2>1. saving' = NoSave
      BY <1>6 DEF Saved, NotSaved
    <2>2. SavesOwnText'
      BY <2>1 DEF NoSave
    <2>3. /\ editOpen' \in BOOLEAN
          /\ UNCHANGED <<editing, editContent, editLoading, reads, astray>>
      BY <1>6 DEF Saved, NotSaved
    <2>4. EditorTypeOK'
      BY <2>1, <2>3 DEF NoSave
    <2> QED
      BY <2>2, <2>3, <2>4
  <1>7. CASE UNCHANGED editorVars
    BY <1>7 DEF editorVars
  <1> QED
    BY <1>1, <1>2, <1>3, <1>4, <1>5, <1>6, <1>7 DEF EditorNext

\* A file is overwritten with its own text, but for the three cases that nothing
\* guards against (WorkspaceFilesCard, handleSaveFile).
THEOREM EditorSavesOwnText == WebSpec => []SavesOwnText
  <1>1. WebInit => EditorInv
    BY EditorInvInit DEF WebInit
  <1>2. EditorInv /\ [WebNext]_webVars => EditorInv'
    BY EditorInvStep, WebSteps
  <1>3. EditorInv => SavesOwnText
    BY DEF EditorInv
  <1> QED
    BY <1>1, <1>2, <1>3, PTL DEF WebSpec
-----------------------------------------------------------------------------
(* The batch and its dialog. *)

TrueResult(verdict, items) ==
    /\ items = outcome
    /\ verdict = "failed" <=> \E d \in Targets : outcome[d] = "error"

\* A result is written, read and shown only when nothing can change it any more;
\* what is shown of the items was read after the job's status.
BatchInv ==
    /\ BatchTypeOK
    /\ job = "none" => main = "none"
    /\ main = "done" => \A d \in Targets : worker[d] = "done"
    /\ job \in Final \/ poll.status \in Final \/ view.status \in Final
          => main = "done"
    /\ BatchIsFollowed
    /\ \A d \in Targets :
          worker[d] \in {"success", "error"} => outcome[d] = worker[d]
    /\ ~lost /\ main # "dead" =>
          \A d \in Targets : worker[d] = "done" => item[d] = outcome[d]
    /\ ~lost =>
          /\ job \in Final => TrueResult(job, item)
          /\ poll.at = "row" /\ poll.status \in Final =>
                TrueResult(poll.status, item)
          /\ poll.at = "answered" /\ poll.status \in Final =>
                TrueResult(poll.status, poll.items)
          /\ view.status \in Final => TrueResult(view.status, view.items)

LEMMA BatchInvInit == BatchInit => BatchInv
  <1> SUFFICES ASSUME BatchInit PROVE BatchInv
    OBVIOUS
  <1> USE DEF BatchInit, AllItems, NoView, NoPoll, Poll
  <1>1. BatchTypeOK
    BY DEF BatchTypeOK, Items, Active, Final
  <1>2. /\ poll.status = "none" /\ view.status = "none"
        /\ \A d \in Targets : worker[d] = "idle"
    OBVIOUS
  <1> QED
    BY <1>1, <1>2 DEF BatchInv, BatchIsFollowed, Active, Final

LEMMA BatchInvStep ==
    ASSUME BatchInv, [BatchNext]_batchVars
    PROVE  BatchInv'
  <1> USE DEF BatchInv, BatchTypeOK, BatchIsFollowed, TrueResult, Items, Active,
              Final, AllItems
  <1>1. CASE StartBatch
    BY <1>1 DEF StartBatch, Poll
  <1>2. CASE Launch
    BY <1>2 DEF Launch, Wrote, dashboard
  <1>3. ASSUME NEW d \in Targets, ItemRuns(d) PROVE BatchInv'
    <2>1. /\ UNCHANGED <<job, main, outcome, dialog, view, poll>>
          /\ main # "done"
      BY <1>3 DEF ItemRuns, dashboard
    <2>2. BatchTypeOK'
      <3>1. item' \in [Targets -> Items] /\ lost' \in BOOLEAN
        BY <1>3 DEF ItemRuns, Wrote
      <3>2. worker' \in [Targets -> {"idle", "started", "waiting", "success",
                                      "error", "done"}]
        BY <1>3 DEF ItemRuns
      <3> QED
        BY <2>1, <3>1, <3>2
    <2>3. \A e \in Targets : worker'[e] \in {"success", "error", "done"}
                               => e # d /\ worker[e] = worker'[e]
      BY <1>3 DEF ItemRuns
    <2>4. ~lost' => ~lost /\ \A e \in Targets \ {d} : item'[e] = item[e]
      BY <1>3 DEF ItemRuns, Wrote
    <2> QED
      BY <2>1, <2>2, <2>3, <2>4
  <1>4. ASSUME NEW d \in Targets, CommandEnds(d) PROVE BatchInv'
    BY <1>4 DEF CommandEnds, dashboard
  <1>5. ASSUME NEW d \in Targets, ItemEnds(d) PROVE BatchInv'
    <2>1. /\ UNCHANGED <<job, main, outcome, dialog, view, poll>>
          /\ main # "done"
      BY <1>5 DEF ItemEnds, dashboard
    <2>2. BatchTypeOK'
      <3>1. item' \in [Targets -> Items] /\ lost' \in BOOLEAN
        <4>1. CASE item' = [item EXCEPT ![d] = worker[d]] /\ UNCHANGED lost
          BY <1>5, <4>1 DEF ItemEnds
        <4>2. CASE item' = item /\ lost' = TRUE
          BY <4>2
        <4> QED
          BY <1>5, <4>1, <4>2 DEF ItemEnds, Wrote
      <3>2. worker' \in [Targets -> {"idle", "started", "waiting", "success",
                                      "error", "done"}]
        BY <1>5 DEF ItemEnds
      <3> QED
        BY <2>1, <3>1, <3>2
    <2>3. \A e \in Targets \ {d} : worker'[e] = worker[e]
      BY <1>5 DEF ItemEnds
    <2>4. worker'[d] = "done" /\ outcome[d] = worker[d]
      BY <1>5 DEF ItemEnds
    <2>5. ~lost' => /\ ~lost /\ item'[d] = worker[d]
                    /\ \A e \in Targets \ {d} : item'[e] = item[e]
      BY <1>5 DEF ItemEnds, Wrote
    <2> QED
      BY <2>1, <2>2, <2>3, <2>4, <2>5
  <1>6. CASE Verdict
    <2>1. ~lost => item = outcome
      BY <1>6 DEF Verdict
    <2>2. /\ UNCHANGED <<item, worker, outcome, dialog, view, poll>>
          /\ main = "waiting" /\ main' = "done"
          /\ \A d \in Targets : worker[d] = "done"
      BY <1>6 DEF Verdict, dashboard
    <2>3. job' \in Active \cup Final \cup {"none"} /\ lost' \in BOOLEAN
      BY <1>6 DEF Verdict, Wrote
    <2>4. job' # "none" /\ (~lost' => job' \in Final)
      BY <1>6 DEF Verdict, Wrote
    <2>5. ~lost' => ~lost /\ TrueResult(job', item)
      BY <1>6, <2>1 DEF Verdict, Wrote
    <2> QED
      BY <2>1, <2>2, <2>3, <2>4, <2>5
  <1>7. CASE ServerDies
    BY <1>7 DEF ServerDies, dashboard
  <1>8. CASE AskJob
    BY <1>8 DEF AskJob, Poll, batchJob
  <1>9. CASE GetJobRow
    BY <1>9 DEF GetJobRow, Poll, batchJob
  <1>10. CASE GetItems
    BY <1>10 DEF GetItems, Poll, batchJob
  <1>11. CASE TakeJob
    BY <1>11 DEF TakeJob, Effect, Poll, NoPoll, batchJob
  <1>12. CASE PollFails
    BY <1>12 DEF PollFails, Poll, batchJob
  <1>13. CASE CloseDialog
    <2>1. /\ UNCHANGED <<job, item, worker, main, outcome, lost, view>>
          /\ dialog' = FALSE
      BY <1>13 DEF CloseDialog, batchJob
    <2>2. poll' = NoPoll \/ poll' = poll
      BY <1>13 DEF CloseDialog
    <2>3. CASE poll' = NoPoll
      <3>1. /\ poll'.at = "none" /\ poll'.status = "none"
            /\ poll' \in [at : {"none", "timer", "asked", "row", "answered", "failed"},
                          status : {"queued", "running", "success", "failed", "none"},
                          items : [Targets -> Items]]
        BY <2>3 DEF NoPoll, Poll
      <3>2. BatchTypeOK'
        BY <2>1, <3>1
      <3> QED
        BY <2>1, <3>1, <3>2
    <2>4. CASE poll' = poll
      <3>1. BatchTypeOK'
        BY ZenonT(60), <2>1, <2>4
      <3> QED
        BY <2>1, <2>4, <3>1
    <2> QED
      BY <2>2, <2>3, <2>4
  <1>14. CASE UNCHANGED batchVars
    BY <1>14 DEF batchVars
  <1> QED
    BY <1>1, <1>2, <1>3, <1>4, <1>5, <1>6, <1>7, <1>8, <1>9, <1>10, <1>11,
       <1>12, <1>13, <1>14 DEF BatchNext

\* A batch shown as ended is shown as it went (DashboardPage, runBatchJob).
THEOREM BatchIsShownTruly == WebSpec => []ShownBatchIsTrue
  <1>1. WebInit => BatchInv
    BY BatchInvInit DEF WebInit
  <1>2. BatchInv /\ [WebNext]_webVars => BatchInv'
    BY BatchInvStep, WebSteps
  <1>3. BatchInv => ShownBatchIsTrue
    BY DEF BatchInv, TrueResult, ShownBatchIsTrue
  <1> QED
    BY <1>1, <1>2, <1>3, PTL DEF WebSpec

\* A running batch has a goroutine that will write its end, and an open dialog
\* a poll that will show it (DashboardPage, runBatchJob).
LEMMA BatchIsAttended == WebSpec => []BatchIsFollowed
  <1>1. WebInit => BatchInv
    BY BatchInvInit DEF WebInit
  <1>2. BatchInv /\ [WebNext]_webVars => BatchInv'
    BY BatchInvStep, WebSteps
  <1>3. BatchInv => BatchIsFollowed
    BY DEF BatchInv
  <1> QED
    BY <1>1, <1>2, <1>3, PTL DEF WebSpec
-----------------------------------------------------------------------------
(* The wizard and the card, which follow jobs. *)

\* A success that is shown, or about to be, is that of the job in the card.
OwnSuccess ==
    installJob.status = "success" \/ polled = "success" =>
        installJob.id \in configured

\* The card follows a job that was stored; while it does so no other is asked for.
CardInv ==
    /\ CardTypeOK
    /\ starting.at = "stored" => starting.job \in Jobs
    /\ starting # NoStart => installJob.status # "open"
    /\ ticking \/ polled # "none" => installJob.id \in Jobs
    /\ OpenJobHasOneChain
    /\ OwnSuccess

\* Steps of the jobs alone.
LEMMA CardInvJobs ==
    ASSUME PromiseInv, CardInv, UNCHANGED cardVars,
           \/ \E j \in Jobs : Store(j) \/ JobStep(j)
           \/ UNCHANGED promiseVars
    PROVE  CardInv'
  <1>1. configured \subseteq configured'
    BY PromiseInvStep
  <1> QED
    BY <1>1 DEF CardInv, CardTypeOK, OpenJobHasOneChain, OwnSuccess, cardVars

LEMMA CardInvStep ==
    ASSUME PromiseInv, CardInv, [InstallNext]_installVars
    PROVE  CardInv'
  <1> USE DEF CardInv, CardTypeOK, PromiseInv, JobStatus, NoJob, NoStart,
              OpenJobHasOneChain, OwnSuccess, promiseVars
  <1>1. CASE ShowCard
    BY <1>1 DEF ShowCard
  <1>2. CASE HideCard
    BY <1>2 DEF HideCard
  <1>3. CASE StartInstall
    BY <1>3 DEF StartInstall
  <1>4. ASSUME NEW j \in Jobs, InstallStored(j) PROVE CardInv'
    BY <1>4 DEF InstallStored, Store
  <1>5. CASE InstallAnswered
    BY <1>5 DEF InstallAnswered
  <1>6. CASE InstallRefused
    BY <1>6 DEF InstallRefused
  <1>7. CASE Tick
    BY <1>7 DEF Tick
  <1>8. CASE PollFound
    BY <1>8 DEF PollFound
  <1>9. CASE PollTaken
    BY <1>9 DEF PollTaken
  <1>10. CASE PollBreaks
    BY <1>10 DEF PollBreaks
  <1>11. ASSUME NEW j \in Jobs, JobsGoOn(j) PROVE CardInv'
    BY <1>11, CardInvJobs DEF JobsGoOn
  <1>12. CASE UNCHANGED installVars
    BY <1>12, CardInvJobs DEF installVars
  <1> QED
    BY <1>1, <1>2, <1>3, <1>4, <1>5, <1>6, <1>7, <1>8, <1>9, <1>10, <1>11,
       <1>12 DEF InstallNext

JobsInv == WizardInv /\ RunningHasFlow /\ CardInv

LEMMA JobsInvInit == WebInit => JobsInv
  <1> SUFFICES ASSUME WebInit PROVE JobsInv
    OBVIOUS
  <1>1. WizardInv
    BY WizardInvInit DEF WebInit
  <1>2. RunningHasFlow
    BY DEF WebInit, WizardInit, Fresh, RunningHasFlow
  <1>3. CardInv
    BY DEF WebInit, CardInit, CardInv, CardTypeOK, NoJob, NoStart, JobStatus,
           OpenJobHasOneChain, OwnSuccess
  <1> QED
    BY <1>1, <1>2, <1>3 DEF JobsInv

LEMMA JobsInvStep ==
    ASSUME JobsInv, [WebNext]_webVars
    PROVE  JobsInv'
  <1>1. CASE [WizardNext]_imVars /\ UNCHANGED cardVars
    <2>1. \/ \E j \in Jobs : Store(j) \/ JobStep(j)
          \/ UNCHANGED promiseVars
      BY <1>1, WizardJobSteps
    <2> QED
      BY <1>1, <2>1, WizardInvStep, RunningHasFlowStep, CardInvJobs
         DEF JobsInv, WizardInv
  <1>2. CASE [InstallNext]_installVars /\ UNCHANGED wizardVars
    <2>1. \/ \E j \in Jobs : Store(j) \/ JobStep(j)
          \/ UNCHANGED promiseVars
      BY <1>2 DEF InstallNext, installVars, promiseVars, ShowCard, HideCard,
         StartInstall, InstallStored, InstallAnswered, InstallRefused, Tick,
         PollFound, PollTaken, PollBreaks, JobsGoOn
    <2>2. RunningHasFlow'
      BY <1>2 DEF JobsInv, RunningHasFlow, wizardVars, component
    <2> QED
      BY <1>2, <2>1, <2>2, WizardInvJobs, CardInvStep DEF JobsInv, WizardInv
  <1> QED
    BY <1>1, <1>2, WebSteps

\* The wizard shows a success only if a job it asked for has configured the
\* device (IMConfigPage).
LEMMA SuccessIsAlwaysEarned == WebSpec => []SuccessIsEarned
  <1>1. JobsInv => SuccessIsEarned
    BY DEF JobsInv, WizardInv
  <1> QED
    BY <1>1, JobsInvInit, JobsInvStep, PTL DEF WebSpec

\* A page of the wizard that shows "running" has a flow that will say how the
\* configuration went (runConfigureFlow).
LEMMA RunningIsAttended == WebSpec => []RunningHasFlow
  <1>1. JobsInv => RunningHasFlow
    BY DEF JobsInv
  <1> QED
    BY <1>1, JobsInvInit, JobsInvStep, PTL DEF WebSpec

\* Flows of an earlier URL settle nothing (runConfigureFlow and its signal).
THEOREM OnlyOwnFlowsDecide == WebSpec => OwnFlowDecides
  <1>1. ASSUME JobsInv, [WebNext]_webVars
        PROVE  [page'.configure # page.configure
                  /\ page'.configure \in {"success", "failed"}
                  => \E f \in Flows : flow[f].visit = visit
                                     /\ flow'[f] # flow[f]]_imVars
    <2>1. CASE [WizardNext]_imVars
      BY <1>1, <2>1, OwnFlowDecidesStep DEF JobsInv
    <2>2. CASE UNCHANGED wizardVars
      BY <2>2 DEF wizardVars, component
    <2> QED
      BY <1>1, <2>1, <2>2, WebSteps
  <1> QED
    BY <1>1, JobsInvInit, JobsInvStep, PTL DEF WebSpec, OwnFlowDecides

\* The card follows the job it shows by one chain of polls (OpenClawInstallCard).
LEMMA CardHasOneChain == WebSpec => []OpenJobHasOneChain
  <1>1. JobsInv => OpenJobHasOneChain
    BY DEF JobsInv, CardInv
  <1> QED
    BY <1>1, JobsInvInit, JobsInvStep, PTL DEF WebSpec

\* The card shows a success only of the job it is about (OpenClawInstallCard).
LEMMA CardSuccessIsEarned == WebSpec => []InstallSuccessIsEarned
  <1>1. JobsInv => InstallSuccessIsEarned
    BY DEF JobsInv, CardInv, OwnSuccess, InstallSuccessIsEarned
  <1> QED
    BY <1>1, JobsInvInit, JobsInvStep, PTL DEF WebSpec
-----------------------------------------------------------------------------
(* The pages that load a list. *)

\* The last request that was sent decides: it is under way and will be taken, or
\* has been, and all that are left are known to be late.
LastDecides ==
    \/ LET l == loads[Len(loads)] IN
       loads # <<>> /\ ~l.late /\ l.for = wanted
                    /\ (l.answered => l.version >= own)
    \/ /\ \A i \in DOMAIN loads : loads[i].late
       /\ listed.for = wanted /\ listed.version >= own

ListInv ==
    /\ ListTypeOK
    /\ own <= version
    /\ change.applied => change.op # "none"
    /\ kind = "filter" => own = 0
    /\ ~excused /\ ~owed => LastDecides

\* Of every page the whole list can be asked for; the dashboard's list of a
\* user's devices cannot be changed there.
LEMMA PageKinds ==
    ASSUME kind \in Kinds
    PROVE  /\ "all" \in PageKind.asks
           /\ kind = "filter" => PageKind.changes = {}
  BY DEF Kinds, PageKind, UserManagementPage, UserDetailPage, OnboardingPage,
     ModelProvidersCard, EmbeddingProviderCard, WorkspaceFilesList,
     ChannelsStatusCard, AuditLogPage, DashboardFilter

LEMMA ListInvInit == ListInit => ListInv
  <1> SUFFICES ASSUME ListInit PROVE ListInv
    OBVIOUS
  <1>1. "all" \in PageKind.asks
    BY PageKinds DEF ListInit
  <1>2. 0 \in 0 .. MaxVersion /\ MaxLoads >= 1
    BY ListConstants
  <1>3. Asked("all") \in LoadRecords
    BY <1>1, <1>2 DEF Asked, LoadRecords
  <1>4. loads \in Seq(LoadRecords) /\ Len(loads) <= MaxLoads
    BY <1>2, <1>3, ListConstants DEF ListInit
  <1>5. ListTypeOK
    BY <1>1, <1>2, <1>4 DEF ListInit, ListTypeOK, NoChange
  <1>6. LastDecides
    <2>1. CASE kind = "filter"
      BY <2>1 DEF ListInit, LastDecides
    <2>2. CASE kind # "filter"
      BY <2>2 DEF ListInit, LastDecides, Asked
    <2> QED
      BY <2>1, <2>2
  <1> QED
    BY <1>2, <1>5, <1>6 DEF ListInit, ListInv, NoChange

\* A new request is the last one...
LEMMA NewLoad ==
    ASSUME ListInv, NEW for \in PageKind.asks, SendLoad(for)
    PROVE  /\ loads' \in Seq(LoadRecords) /\ Len(loads') <= MaxLoads
           /\ listing' = TRUE /\ owed' = FALSE
           /\ ~Asked(for).late /\ ~Asked(for).answered
           /\ Asked(for).for = for
           /\ loads' # <<>> /\ loads'[Len(loads')] = Asked(for)
  <1>1. Asked(for) \in LoadRecords /\ ~Asked(for).late /\ ~Asked(for).answered
        /\ Asked(for).for = for
    BY ListConstants DEF Asked, LoadRecords
  <1>2. loads \in Seq(LoadRecords) /\ Len(loads) < MaxLoads
        /\ loads' = Append(loads, Asked(for)) /\ listing' = TRUE /\ owed' = FALSE
    BY DEF ListInv, ListTypeOK, SendLoad
  <1>3. /\ loads' \in Seq(LoadRecords) /\ loads' # <<>>
        /\ Len(loads') = Len(loads) + 1
        /\ loads'[Len(loads')] = Asked(for)
    BY <1>1, <1>2, AppendProperties
  <1>4. Len(loads') <= MaxLoads
    BY <1>2, <1>3, ListConstants
  <1> QED
    BY <1>1, <1>2, <1>3, <1>4

\* ... and decides, if it asks for what is wanted.
LEMMA NewLoadDecides ==
    ASSUME ListInv, NEW for \in PageKind.asks, SendLoad(for),
           wanted' = for
    PROVE  /\ loads' \in Seq(LoadRecords) /\ Len(loads') <= MaxLoads
           /\ listing' = TRUE /\ owed' = FALSE
           /\ LastDecides'
  BY NewLoad DEF LastDecides

\* A request that is overtaken, and one that is not.
LEMMA LateLoad ==
    ASSUME NEW r \in LoadRecords,
           NEW q, q = [r EXCEPT !.late = TRUE]
    PROVE  q \in LoadRecords /\ q.late
  BY DEF LoadRecords

LEMMA LoadInTime ==
    ASSUME NEW r \in LoadRecords,
           NEW q, q = [r EXCEPT !.late = r.late]
    PROVE  q = r
  BY DEF LoadRecords

\* A sequence whose elements are changed one by one.
LEMMA SameLength ==
    ASSUME NEW S, NEW s \in Seq(S), NEW t \in [DOMAIN s -> S]
    PROVE  t \in Seq(S) /\ Len(t) = Len(s) /\ DOMAIN t = DOMAIN s
  <1>1. DOMAIN s = 1 .. Len(s) /\ Len(s) \in Nat
    BY LenProperties
  <1>2. t \in [1 .. Len(s) -> S]
    BY <1>1
  <1> QED
    BY <1>1, <1>2

LEMMA ListInvStep ==
    ASSUME ListInv, [ListNext]_listVars
    PROVE  ListInv'
  <1> USE ListConstants DEF ListInv, ListTypeOK
  <1>k. kind' = kind => PageKind' = PageKind
    BY DEF PageKind, UserManagementPage, UserDetailPage, OnboardingPage,
       ModelProvidersCard, EmbeddingProviderCard, WorkspaceFilesList,
       ChannelsStatusCard, AuditLogPage, DashboardFilter
  <1>r. kind' = kind => LoadRecords' = LoadRecords
    BY <1>k DEF LoadRecords
  <1>1. CASE ChangedElsewhere
    BY <1>1, <1>k, <1>r DEF ChangedElsewhere, LastDecides
  <1>2. CASE PressRefresh
    BY <1>2, <1>k, <1>r, NewLoadDecides DEF PressRefresh
  <1>3. CASE OnlineFlips
    <2>1. CASE online
      BY <1>3, <2>1, <1>k, <1>r DEF OnlineFlips, LastDecides
    <2>2. CASE ~online
      BY <1>3, <2>2, <1>k, <1>r, NewLoadDecides DEF OnlineFlips
    <2> QED
      BY <2>1, <2>2
  <1>4. CASE DeviceReports
    BY <1>4, <1>k, <1>r, NewLoadDecides DEF DeviceReports
  <1>5. ASSUME NEW for \in PageKind.asks, AskFor(for) PROVE ListInv'
    <2>1. CASE kind = "filter" /\ for = "all"
      <3>1. /\ loads' \in Seq(LoadRecords) /\ Len(loads') = Len(loads)
            /\ \A i \in DOMAIN loads' : loads'[i].late
        <4>1. loads' = [i \in DOMAIN loads |-> [loads[i] EXCEPT !.late = TRUE]]
          BY <1>5, <2>1 DEF AskFor
        <4>2. /\ loads' \in [DOMAIN loads -> LoadRecords]
              /\ \A i \in DOMAIN loads : loads'[i].late
          BY <4>1, LateLoad
        <4> QED
          BY <4>2, SameLength
      <3>2. LastDecides'
        BY <1>5, <2>1, <3>1 DEF AskFor, LastDecides
      <3> QED
        BY <1>5, <2>1, <3>1, <3>2, <1>k, <1>r DEF AskFor
    <2>2. CASE ~(kind = "filter" /\ for = "all")
      BY <1>5, <2>2, <1>k, <1>r, NewLoadDecides DEF AskFor
    <2> QED
      BY <2>1, <2>2
  <1>6. ASSUME NEW i \in DOMAIN loads, AnswerLoad(i) PROVE ListInv'
    <2>1. /\ loads' \in Seq(LoadRecords) /\ Len(loads') = Len(loads)
          /\ \A j \in DOMAIN loads : /\ loads'[j].for = loads[j].for
                                     /\ loads'[j].late = loads[j].late
          /\ \A j \in DOMAIN loads \ {i} : loads'[j] = loads[j]
          /\ loads'[i].version = version
      <3>0. PICK q : q = [loads[i] EXCEPT !.answered = TRUE, !.version = version]
        OBVIOUS
      <3>1. /\ q \in LoadRecords
            /\ q.for = loads[i].for /\ q.late = loads[i].late /\ q.version = version
        <4>1. loads[i] \in LoadRecords /\ version \in 0 .. MaxVersion
          OBVIOUS
        <4>2. q = [for |-> loads[i].for, answered |-> TRUE, version |-> version,
                   late |-> loads[i].late]
          BY <3>0, <4>1 DEF LoadRecords
        <4>3. loads[i].for \in PageKind.asks /\ loads[i].late \in BOOLEAN
          BY <4>1 DEF LoadRecords
        <4> QED
          BY <4>1, <4>2, <4>3 DEF LoadRecords
      <3>2. loads' = [loads EXCEPT ![i] = q]
        BY <1>6, <3>0 DEF AnswerLoad
      <3>3. loads' \in Seq(LoadRecords) /\ Len(loads') = Len(loads)
        BY <3>1, <3>2, ExceptSeq
      <3> QED
        BY <3>1, <3>2, <3>3
    <2>2. ~excused /\ ~owed => LastDecides'
      <3>1. /\ UNCHANGED <<wanted, listed, own>>
            /\ own <= version
        BY <1>6 DEF AnswerLoad
      <3>2. CASE \A j \in DOMAIN loads : loads[j].late
        <4>1. \A j \in DOMAIN loads' : loads'[j].late
          <5>1. DOMAIN loads' = DOMAIN loads
            BY <2>1
          <5> QED
            BY <2>1, <3>2, <5>1
        <4>2. CASE listed.for = wanted /\ listed.version >= own
          BY <3>1, <4>1, <4>2 DEF LastDecides
        <4>3. CASE loads # <<>>
          <5>1. loads[Len(loads)].late
            BY <3>2, <4>3
          <5> QED
            BY <3>1, <4>2, <5>1 DEF LastDecides
        <4>4. CASE loads = <<>>
          BY <4>4
        <4> QED
          BY <4>3, <4>4
      <3>3. CASE loads # <<>>
        <4>1. Len(loads) \in DOMAIN loads /\ Len(loads') = Len(loads) /\ loads' # <<>>
          BY <2>1, <3>3
        <4>2. /\ loads'[Len(loads)].for = loads[Len(loads)].for
              /\ loads'[Len(loads)].late = loads[Len(loads)].late
              /\ \/ loads'[Len(loads)].version = version
                 \/ loads'[Len(loads)] = loads[Len(loads)]
          BY <2>1, <4>1
        <4>3. CASE LastDecides /\ ~(\A j \in DOMAIN loads : loads[j].late)
          BY <3>1, <4>1, <4>2, <4>3 DEF LastDecides
        <4> QED
          BY <3>2, <4>3
      <3> QED
        BY <3>2, <3>3
    <2> QED
      BY <1>6, <2>1, <2>2, <1>k, <1>r DEF AnswerLoad
  <1>7. ASSUME NEW i \in DOMAIN loads, TakeLoad(i) PROVE ListInv'
    <2>1. /\ Overtaken(i) \in Seq(LoadRecords) /\ Len(Overtaken(i)) = Len(loads)
          /\ \A j \in DOMAIN loads : j < i => Overtaken(i)[j].late
          /\ \A j \in DOMAIN loads : j >= i => Overtaken(i)[j] = loads[j]
      <3>1. ASSUME NEW j \in DOMAIN loads
            PROVE  /\ Overtaken(i)[j] \in LoadRecords
                   /\ j < i => Overtaken(i)[j].late
                   /\ j >= i => Overtaken(i)[j] = loads[j]
        <4>1. loads[j] \in LoadRecords
          OBVIOUS
        <4>2. Overtaken(i)[j] = [loads[j] EXCEPT !.late = loads[j].late \/ j < i]
          BY DEF Overtaken
        <4>3. CASE j < i
          <5>1. Overtaken(i)[j] = [loads[j] EXCEPT !.late = TRUE]
            BY <4>2, <4>3
          <5> QED
            BY <4>1, <4>3, <5>1, LateLoad
        <4>4. CASE ~(j < i)
          <5>1. loads[j].late \in BOOLEAN
            BY <4>1 DEF LoadRecords
          <5>2. (loads[j].late \/ j < i) = loads[j].late
            BY <4>4, <5>1
          <5>3. Overtaken(i)[j] = [loads[j] EXCEPT !.late = loads[j].late]
            BY <4>2, <5>2
          <5> QED
            BY <4>1, <4>4, <5>3, LoadInTime
        <4> QED
          BY <4>3, <4>4
      <3>2. Overtaken(i) \in [DOMAIN loads -> LoadRecords]
        BY <3>1 DEF Overtaken
      <3> QED
        BY <3>1, <3>2, SameLength
    <2>2. /\ loads' \in Seq(LoadRecords) /\ Len(loads') = Len(loads) - 1
          /\ \A k \in 1 .. Len(loads) - 1 :
                loads'[k] = IF k < i THEN Overtaken(i)[k] ELSE Overtaken(i)[k + 1]
      BY <1>7, <2>1, RemovedAt DEF TakeLoad
    <2>3. ASSUME ~excused', ~owed' PROVE LastDecides'
      <3>1. ~excused /\ ~owed /\ ~loads[i].late
        BY <1>7, <2>3 DEF TakeLoad
      <3>2. CASE i = Len(loads)
        <4>1. \A k \in DOMAIN loads' : loads'[k].late
          BY <2>1, <2>2, <3>2
        <4> QED
          BY <1>7, <3>1, <3>2, <4>1 DEF TakeLoad, LastDecides
      <3>3. CASE i < Len(loads)
        <4>1. loads' # <<>> /\ loads'[Len(loads')] = loads[Len(loads)]
          BY <2>1, <2>2, <3>3
        <4> QED
          BY <1>7, <3>1, <3>3, <4>1 DEF TakeLoad, LastDecides
      <3> QED
        BY <3>2, <3>3
    <2>4. /\ listed' \in [version : 0 .. MaxVersion, for : PageKind.asks]
          /\ excused' \in BOOLEAN
      <3>1. loads[i] \in LoadRecords
        OBVIOUS
      <3> QED
        BY <1>7, <3>1 DEF TakeLoad, LoadRecords
    <2>5. UNCHANGED <<kind, online, version, wanted, change, own, owed>> /\ listing' = FALSE
      BY <1>7 DEF TakeLoad
    <2>6. excused' = FALSE => excused = FALSE
      BY <1>7 DEF TakeLoad
    <2>7. Len(loads') <= MaxLoads
      BY <2>2
    <2>8. ListTypeOK'
      BY <2>2, <2>4, <2>5, <2>7, <1>k, <1>r
    <2> QED
      BY <2>3, <2>5, <2>8
  <1>8. ASSUME NEW i \in DOMAIN loads, LoadFails(i) PROVE ListInv'
    <2>1. loads' \in Seq(LoadRecords) /\ Len(loads') = Len(loads) - 1
      BY <1>8, RemovedAt DEF LoadFails
    <2>2. UNCHANGED <<kind, online, version, wanted, listed, change, own, owed>>
          /\ listing' = FALSE /\ excused' = TRUE
      BY <1>8 DEF LoadFails
    <2>3. Len(loads') <= MaxLoads
      BY <2>1
    <2>4. ListTypeOK'
      BY <2>1, <2>2, <2>3, <1>k, <1>r
    <2> QED
      BY <2>2, <2>4
  <1>9. ASSUME NEW op \in PageKind.changes, SubmitChange(op) PROVE ListInv'
    BY <1>9, <1>k, <1>r DEF SubmitChange, LastDecides
  <1>10. CASE Apply
    <2>1. /\ UNCHANGED <<kind, online, wanted, listed, loads, listing, own, owed, excused>>
          /\ version' = version + 1 /\ version' \in 0 .. MaxVersion
      BY <1>10 DEF Apply
    <2>2. /\ change' = [op |-> change.op, sees |-> change.sees, applied |-> TRUE]
          /\ change.op # "none" /\ change.sees \in BOOLEAN
          /\ change.op \in PageKind.changes \cup {"none"}
      BY <1>10 DEF Apply
    <2>3. change' \in [op : PageKind.changes \cup {"none"}, sees : BOOLEAN,
                      applied : BOOLEAN]
      BY <2>2
    <2>4. ListTypeOK'
      <3>1. PageKind' = PageKind /\ LoadRecords' = LoadRecords
        BY <2>1, <1>k, <1>r
      <3>2. change' \in [op : PageKind'.changes \cup {"none"}, sees : BOOLEAN,
                        applied : BOOLEAN]
        BY <2>3, <3>1
      <3> QED
        BY <2>1, <3>1, <3>2
    <2>5. own' <= version' /\ (LastDecides => LastDecides')
      BY <2>1 DEF LastDecides
    <2> QED
      BY <2>1, <2>2, <2>4, <2>5
  <1>11. CASE Changed
    <2>1. kind # "filter"
      BY <1>11, PageKinds DEF Changed
    <2>2. /\ UNCHANGED <<kind, online, version, wanted, listed, excused>>
          /\ own' = version /\ change' = NoChange
      BY <1>11 DEF Changed
    <2>3. CASE change.sees
      <3>1. wanted \in PageKind.asks /\ SendLoad(wanted)
        BY <1>11, <2>3 DEF Changed
      <3>2. /\ loads' \in Seq(LoadRecords) /\ Len(loads') <= MaxLoads
            /\ listing' = TRUE /\ owed' = FALSE
            /\ ~Asked(wanted).late /\ ~Asked(wanted).answered
            /\ Asked(wanted).for = wanted
            /\ loads' # <<>> /\ loads'[Len(loads')] = Asked(wanted)
        BY <3>1, NewLoad
      <3>3. LastDecides'
        BY <2>2, <3>2 DEF LastDecides
      <3>4. ListTypeOK'
        BY <2>2, <3>2, <1>k, <1>r DEF NoChange
      <3> QED
        BY <2>1, <2>2, <3>3, <3>4 DEF NoChange
    <2>4. CASE ~change.sees
      <3>1. owed' = TRUE /\ UNCHANGED <<loads, listing>>
        BY <1>11, <2>4 DEF Changed
      <3>2. ListTypeOK'
        BY <2>2, <3>1, <1>k, <1>r DEF NoChange
      <3> QED
        BY <2>1, <2>2, <3>1, <3>2 DEF NoChange
    <2> QED
      BY <2>3, <2>4
  <1>12. CASE ChangeFails
    BY <1>12, <1>k, <1>r DEF ChangeFails, NoChange, LastDecides
  <1>13. CASE UNCHANGED listVars
    BY <1>13, <1>k, <1>r DEF listVars, LastDecides
  <1> QED
    BY <1>1, <1>2, <1>3, <1>4, <1>5, <1>6, <1>7, <1>8, <1>9, <1>10, <1>11,
       <1>12, <1>13 DEF ListNext

\* A page at rest shows what it was asked for, with the changes made there
\* (the pages' load functions and the handlers that call them).
THEOREM ListsShowOwnChanges == WebSpec => []OwnChangesAreShown
  <1>1. WebInit => ListInv
    BY ListInvInit DEF WebInit
  <1>2. ListInv /\ [WebNext]_webVars => ListInv'
    BY ListInvStep, WebSteps
  <1>3. ListInv => OwnChangesAreShown
    BY DEF ListInv, LastDecides, OwnChangesAreShown
  <1> QED
    BY <1>1, <1>2, <1>3, PTL DEF WebSpec
-----------------------------------------------------------------------------
(* The web interface as a whole. *)

\* A success shown by the wizard or the installation card is one of the job it is
\* about, which the device has run (IMConfigPage, OpenClawInstallCard).
THEOREM ShownSuccessIsEarned == WebSpec => []SuccessesAreEarned
  BY SuccessIsAlwaysEarned, CardSuccessIsEarned, PTL DEF SuccessesAreEarned

\* No page waits for what nothing under way can bring, and none has two sockets,
\* timers or chains of polls that bring it twice, however many flows, jobs, logins,
\* devices and polls there are.
THEOREM NothingWaitsInVain == WebSpec => []WaitsAreAttended
  BY RunningIsAttended, CardHasOneChain, LoadingIsAttended, BatchIsAttended,
     FeedHasOneSocket, CardsHaveOnePollChain, PTL DEF WaitsAreAttended

\* Every part keeps its variables in their sets.
THEOREM WebConsoleTyped == WebSpec => []WebTypeOK
  <1> DEFINE AllInv == /\ part \in Parts
                       /\ JobsInv /\ SessionInv /\ FeedInv /\ PollerInv
                       /\ BatchInv /\ ListInv /\ EditorInv
  <1>1. WebInit => AllInv
    BY JobsInvInit, SessionInvInit, FeedInvInit, PollerInvInit, BatchInvInit,
       ListInvInit, EditorInvInit DEF WebInit
  <1>2. AllInv /\ [WebNext]_webVars => AllInv'
    <2>1. part \in Parts /\ [WebNext]_webVars => part' \in Parts
      BY DEF WebNext, webVars, Jobless, NoJobs
    <2> QED
      BY <2>1, JobsInvStep, SessionInvStep, FeedInvStep, PollerInvStep,
         BatchInvStep, ListInvStep, EditorInvStep, WebSteps
  <1>3. AllInv => WebTypeOK
    BY DEF JobsInv, WizardInv, CardInv, SessionInv, FeedInv, PollerInv, BatchInv,
       ListInv, EditorInv, WebTypeOK
  <1> QED
    BY <1>1, <1>2, <1>3, PTL DEF WebSpec
=============================================================================
