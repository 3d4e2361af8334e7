------------------------------ MODULE WebSession ------------------------------
(***************************************************************************)
(* Who is logged in, as one browser tab sees it: AuthProvider, the guards  *)
(* of the routes, the login page, the password dialog and what every       *)
(* request does with an answer of 401.                                     *)
(*                                                                         *)
(* A token stands for one login; it names its user.  No request is called  *)
(* off when the session changes, so the answer to a request made in one    *)
(* session may be taken in by the next.  What React does with a new token  *)
(* (the effect on [token]) is part of the step that sets it.               *)
(***************************************************************************)
CONSTANTS
    Tokens,  \* one for each login that may happen
    Nobody   \* no token, no user

ASSUME SessionConstants == Nobody \notin Tokens

VARIABLES
    stored,   \* sessionStorage
    token, user, entering,  \* state of AuthProvider
    signIn,   \* the login page waits for an answer
    me,       \* calls of fetchMe that have not been answered
    renewal,  \* the session whose password change is under way
    asked,    \* sessions for which a page waits for data
    valid,    \* tokens the server accepts
    issued,   \* tokens the server has handed out
    crossed   \* history: an answer to one session was taken in by another

sessionVars == <<stored, token, user, entering, signIn, me, renewal, asked, valid,
                 issued, crossed>>

\* A fetchMe of the effect, or of refreshMe after the password dialog.
Calls == [token : Tokens, by : {"effect", "refresh"}]

SessionInit ==
    /\ stored = Nobody /\ token = Nobody /\ user = Nobody
    /\ entering = FALSE
    /\ signIn = FALSE
    /\ me = {} /\ renewal = Nobody /\ asked = {}
    /\ valid = {} /\ issued = {}
    /\ crossed = FALSE

\* The effect on [token].
Entered(t) == entering' = TRUE /\ me' = me \cup {[token |-> t, by |-> "effect"]}

\* An answer to t's session comes while another one is on.
Crosses(t) == crossed' = (crossed \/ token \notin {t, Nobody})

\* setToken(null), setUser(null) and the storage cleared.
SessionGone == stored' = Nobody /\ token' = Nobody /\ user' = Nobody

\* The effect on [token] ends the loading, unless there was no token before: a
\* login that is under way goes on.
Undisturbed == entering /\ token = Nobody

\* handleUnauthorized, in the answer to one of the calls, which leaves the calls
\* m, a and c: the session ends, whosever the request was.  Unless the login page
\* is shown the browser loads it anew, and nothing is awaited any more.
HandleUnauthorized(m, a, c) ==
    /\ SessionGone
    /\ IF token = Nobody
       THEN me' = m /\ asked' = a /\ renewal' = c /\ UNCHANGED signIn
       ELSE me' = {} /\ asked' = {} /\ renewal' = Nobody /\ signIn' = FALSE

\* RequireAuth: the layout and its pages are there.
Inside == token # Nobody /\ ~entering
-----------------------------------------------------------------------------
\* The user loads the page anew: only the storage is left.
Reload ==
    /\ token' = stored /\ user' = Nobody
    /\ entering' = (stored # Nobody)
    /\ me' = IF stored = Nobody THEN {} ELSE {[token |-> stored, by |-> "effect"]}
    /\ signIn' = FALSE /\ renewal' = Nobody /\ asked' = {}
    /\ crossed' = FALSE
    /\ UNCHANGED <<stored, valid, issued>>

\* LoginPage: onFinish, loginWithPassword.
SubmitLogin ==
    /\ token = Nobody /\ ~entering /\ ~signIn
    /\ entering' = TRUE
    /\ signIn' = TRUE
    /\ UNCHANGED <<stored, token, user, me, renewal, asked, valid, issued, crossed>>

\* Mutant: the user is left to the effect.
LoginAnsweredLater(t) ==
    /\ signIn /\ t \notin issued
    /\ signIn' = FALSE
    /\ stored' = t /\ token' = t
    /\ entering' = FALSE
    /\ me' = me \cup {[token |-> t, by |-> "effect"]}
    /\ valid' = valid \cup {t} /\ issued' = issued \cup {t}
    /\ UNCHANGED <<user, renewal, asked, crossed>>

\* loginWithPassword: the login succeeds; the effect then asks who it is.
LoginAnswered(t) ==
    /\ signIn /\ t \notin issued
    /\ signIn' = FALSE
    /\ stored' = t /\ token' = t /\ user' = t
    /\ Entered(t)
    /\ valid' = valid \cup {t} /\ issued' = issued \cup {t}
    /\ UNCHANGED <<renewal, asked, crossed>>

\* A wrong password is a 401 like any other.
LoginFails ==
    /\ signIn
    /\ signIn' = FALSE
    /\ entering' = FALSE
    /\ SessionGone \/ UNCHANGED <<stored, token, user>>
    /\ UNCHANGED <<me, renewal, asked, valid, issued, crossed>>

\* Mutant: without the finally.
MeAnsweredQuietly(c) ==
    /\ c \in me /\ c.token \in valid
    /\ me' = me \ {c}
    /\ user' = c.token
    /\ Crosses(c.token)
    /\ UNCHANGED <<stored, token, entering, signIn, renewal, asked, valid, issued>>

\* fetchMe is answered, to the effect or to refreshMe.
MeAnswered(c) ==
    /\ c \in me /\ c.token \in valid
    /\ me' = me \ {c}
    /\ user' = c.token
    /\ entering' = (c.by = "refresh" /\ entering)
    /\ Crosses(c.token)
    /\ UNCHANGED <<stored, token, signIn, renewal, asked, valid, issued>>

MeUnauthorized(c) ==
    /\ c \in me /\ c.token \notin valid
    /\ HandleUnauthorized(me \ {c}, asked, renewal)
    /\ entering' = (c.by = "refresh" /\ Undisturbed)
    /\ Crosses(c.token)
    /\ UNCHANGED <<valid, issued>>

\* fetchMe fails for another reason: the effect ends the session all the same.
MeFails(c) ==
    /\ c \in me
    /\ me' = me \ {c}
    /\ IF c.by = "effect" THEN SessionGone /\ entering' = FALSE
       ELSE UNCHANGED <<stored, token, user, entering>>
    /\ Crosses(c.token)
    /\ UNCHANGED <<signIn, renewal, asked, valid, issued>>

Logout ==
    /\ Inside
    /\ SessionGone /\ entering' = Undisturbed
    /\ UNCHANGED <<signIn, me, renewal, asked, valid, issued, crossed>>

\* A page asks for data, as all of them do.
PageAsks ==
    /\ Inside
    /\ asked' = asked \cup {token}
    /\ UNCHANGED <<stored, token, user, entering, signIn, me, renewal, valid,
                   issued, crossed>>

PageAnswered(t) ==
    /\ t \in asked
    /\ \/ /\ asked' = asked \ {t}
          /\ UNCHANGED <<stored, token, user, entering, signIn, me, renewal, crossed>>
       \/ /\ t \notin valid
          /\ HandleUnauthorized(me, asked \ {t}, renewal)
          /\ entering' = Undisturbed
          /\ Crosses(t)
    /\ UNCHANGED <<valid, issued>>

\* onChangePassword.  The call goes on when the dialog is gone.
SubmitPassword ==
    /\ Inside /\ renewal = Nobody
    /\ renewal' = token
    /\ UNCHANGED <<stored, token, user, entering, signIn, me, asked, valid,
                   issued, crossed>>

\* refreshMe, with the token of the session that asked.
RefreshMe(t) == me' = me \cup {[token |-> t, by |-> "refresh"]}

\* Changed: logout; refreshMe, in the finally, asks who the old session is.
PasswordChanged ==
    /\ renewal \in valid
    /\ renewal' = Nobody
    /\ SessionGone /\ entering' = Undisturbed
    /\ RefreshMe(renewal)
    /\ Crosses(renewal)
    /\ UNCHANGED <<signIn, asked, valid, issued>>

\* A wrong old password is answered with 401 and ends the session.
PasswordRefused ==
    /\ renewal # Nobody
    /\ \/ /\ renewal' = Nobody
          /\ RefreshMe(renewal)
          /\ UNCHANGED <<stored, token, user, entering, signIn, asked, crossed>>
       \/ /\ HandleUnauthorized(me \cup {[token |-> renewal, by |-> "refresh"]},
                                asked, Nobody)
          /\ entering' = Undisturbed
          /\ Crosses(renewal)
    /\ UNCHANGED <<valid, issued>>

\* The token expires, or its user is deleted.
Expire(t) ==
    /\ t \in valid
    /\ valid' = valid \ {t}
    /\ UNCHANGED <<stored, token, user, entering, signIn, me, renewal, asked,
                   issued, crossed>>
-----------------------------------------------------------------------------
SessionNext ==
    \/ Reload \/ SubmitLogin \/ LoginFails \/ Logout
    \/ PageAsks \/ SubmitPassword \/ PasswordChanged \/ PasswordRefused
    \/ \E t \in Tokens : LoginAnswered(t) \/ PageAnswered(t) \/ Expire(t)
    \/ \E c \in Calls : MeAnswered(c) \/ MeUnauthorized(c) \/ MeFails(c)

\* Requests are answered or fail.
LoginEnds == LoginFails \/ \E t \in Tokens : LoginAnswered(t)
MeEnds(c) == MeAnswered(c) \/ MeUnauthorized(c) \/ MeFails(c)

SessionFairness ==
    /\ WF_sessionVars(LoginEnds)
    /\ \A c \in Calls : WF_sessionVars(MeEnds(c))
-----------------------------------------------------------------------------
SessionTypeOK ==
    /\ stored \in Tokens \cup {Nobody} /\ token \in Tokens \cup {Nobody}
    /\ user \in Tokens \cup {Nobody} /\ renewal \in Tokens \cup {Nobody}
    /\ entering \in BOOLEAN /\ signIn \in BOOLEAN /\ crossed \in BOOLEAN
    /\ me \subseteq Calls
    /\ asked \subseteq Tokens
    /\ valid \subseteq issued /\ issued \subseteq Tokens

(***************************************************************************)
(* The pages show the user whose token the requests carry, unless an       *)
(* answer meant for an earlier session came in between; and what is stored *)
(* for the next load of the page is that same token, always.               *)
(* (AuthProvider, whose handlers set token, user and storage one by one.)  *)
(***************************************************************************)
SessionAgrees ==
    /\ stored = token
    /\ Inside /\ ~crossed => user = token

(***************************************************************************)
(* While the empty screen is shown somebody is going to take it away: the  *)
(* login that is under way, or a fetchMe of the effect.  (No answer to an  *)
(* earlier session, no refreshMe and no logout leaves it without one.)     *)
(***************************************************************************)
LoadingHasCall == entering => signIn \/ \E c \in me : c.by = "effect"

(***************************************************************************)
(* The empty screen that RequireAuth shows while the session loads goes    *)
(* away, however calls of several sessions overlap.                        *)
(***************************************************************************)
LoadingEnds == entering ~> ~entering
=============================================================================
