------------------------------- MODULE Sessions -------------------------------
(***************************************************************************)
(* How a browser stays signed in.  One tab in full: the response           *)
(* interceptor of lib/api.ts, which refreshes the access token once for    *)
(* all the calls that find it gone, the start-up of a page, sign-in and    *)
(* sign-out of apps/web.  Behind it the refresh tokens: EmailAuthController,*)
(* EmailAuthService.refreshSession and SessionService of apps/api.  The    *)
(* other tabs run the same code on the same cookies: what they do to the   *)
(* cookies and the tokens, at any moment, is the section "Other tabs".     *)
(*                                                                         *)
(* A call carries the cookies of the moment it is sent; an answer changes  *)
(* them when it arrives.  Any answer may be lost.                          *)
(***************************************************************************)
EXTENDS Naturals, FiniteSets

CONSTANTS
    Calls,     \* what a page asks of the API
    Start,     \* the call of a page's start-up, or of its sign-in
    Logout,    \* the call that signs out
    MaxTokens  \* bound: refresh tokens kept; one that nobody holds is used again

ASSUME ConstantsAssumption ==
    /\ Start \notin Calls /\ Logout \notin Calls /\ Start # Logout
    /\ MaxTokens \in Nat \ {0}

AllCalls == Calls \cup {Start, Logout}
Tokens == 1..MaxTokens
NoToken == 0

VARIABLES
    token,   \* [Tokens -> status], the rows of RefreshToken of one account
    cookie,  \* what the browser keeps: refresh, access, marker (rm_has_session)
    page,    \* signedIn, step (of start-up or sign-in), isRefreshing, queue
    call,    \* [AllCalls -> [at, ok, token, retry]], ok: its access token will do; a
             \* sign-out is handled before its answer arrives
    refresh, \* the POST /auth/refresh under way: at, token, by
    other,   \* [at, token]: the answer under way to another tab's refresh, with the token
             \* granted, or to its sign-out
    calm     \* history: no answer was lost, no token lapsed or was revoked elsewhere, and
             \* none refreshed while another did, or while a session began or ended

vars == <<token, cookie, page, call, refresh, other, calm>>

NoCall == [at |-> "idle", ok |-> FALSE, token |-> NoToken, retry |-> FALSE]
NoRefresh == [at |-> "none", token |-> NoToken, by |-> Start]
NoAnswer == [at |-> "none", token |-> NoToken]
Loaded == [signedIn |-> FALSE, step |-> "none", isRefreshing |-> FALSE, queue |-> {}]
SignedOut == [refresh |-> NoToken, access |-> "none", marker |-> FALSE]

Init ==
    /\ token = [k \in Tokens |-> "gone"]
    /\ cookie = SignedOut
    /\ page = Loaded
    /\ call = [c \in AllCalls |-> NoCall]
    /\ refresh = NoRefresh
    /\ other = NoAnswer
    /\ calm = TRUE

Refreshing == refresh.at # "none"
Leaving == call[Logout].at = "handled" \/ other.at = "handled"
Quiet == ~Refreshing /\ other = NoAnswer /\ ~Leaving
InFlight == {c \in AllCalls : call[c].at \in {"sent", "handled"}}

Held == {cookie.refresh, refresh.token, call[Logout].token, other.token}
NewTokens == {k \in Tokens \ Held : \A j \in 1..(k - 1) : j \in Held}

\* A call that any session may make, and one that needs the organization in its token.
Accepted(c, access) == access = "org" \/ (access = "plain" /\ c \notin Calls)

Sent(c, jar, retry) == [at |-> "sent", ok |-> Accepted(c, jar.access), retry |-> retry,
                        token |-> IF c = Logout THEN jar.refresh ELSE NoToken]

SessionOf(k, access) == [refresh |-> k, access |-> access, marker |-> TRUE]
Revoked(K) == [j \in Tokens |-> IF j \in K /\ token[j] = "active" THEN "revoked" ELSE token[j]]

-----------------------------------------------------------------------------
(* Pages *)

\* __root.tsx beforeLoad: with no sign of a session, nothing is asked.
Load ==
    /\ page' = [Loaded EXCEPT !.step = IF cookie.marker THEN "me" ELSE "none"]
    /\ call' = [c \in AllCalls |->
                  IF c = Start /\ cookie.marker THEN Sent(Start, cookie, FALSE) ELSE NoCall]
    /\ refresh' = NoRefresh
    /\ calm' = (calm /\ ~Refreshing /\ InFlight = {})
    /\ UNCHANGED <<token, cookie, other>>

\* login.tsx: a new session, then the organization.
Login ==
    /\ ~page.signedIn /\ page.step = "none"
    /\ \E k \in NewTokens :
         /\ token' = [token EXCEPT ![k] = "active"]
         /\ cookie' = SessionOf(k, "plain")
    /\ page' = [page EXCEPT !.step = "login"]
    /\ call' = [call EXCEPT ![Start] = Sent(Start, cookie', FALSE)]
    /\ calm' = (calm /\ Quiet)
    /\ UNCHANGED <<refresh, other>>

Ask(c) ==
    /\ page.signedIn /\ call[c] = NoCall /\ c # Start
    /\ call' = [call EXCEPT ![c] = Sent(c, cookie, FALSE)]
    /\ UNCHANGED <<token, cookie, page, refresh, other, calm>>

-----------------------------------------------------------------------------
(* Answers *)

\* A start-up asks for the organizations first; it ends, as a sign-in does, with a token
\* that names one, and setAuth.
StartAnswered ==
    IF page.step = "me"
    THEN /\ page' = [page EXCEPT !.step = "switch"]
         /\ call' = [call EXCEPT ![Start] = Sent(Start, cookie, FALSE)]
         /\ UNCHANGED cookie
    ELSE /\ page' = [page EXCEPT !.step = "none", !.signedIn = TRUE]
         /\ call' = [call EXCEPT ![Start] = NoCall]
         /\ cookie' = [cookie EXCEPT !.access = "org", !.marker = TRUE]

Answer(c) ==
    /\ call[c].at = "sent" /\ call[c].ok /\ c # Logout
    /\ IF c = Start THEN StartAnswered
       ELSE call' = [call EXCEPT ![c] = NoCall] /\ UNCHANGED <<cookie, page>>
    /\ UNCHANGED <<token, refresh, other, calm>>

\* logout of the API: the session whose token the call carried is revoked.
HandleLogout ==
    /\ call[Logout].at = "sent" /\ call[Logout].ok
    /\ token' = Revoked({call[Logout].token})
    /\ call' = [call EXCEPT ![Logout].at = "handled"]
    /\ calm' = (calm /\ Quiet)
    /\ UNCHANGED <<cookie, page, refresh, other>>

\* Mutated: the cookies stay in the browser.
LogoutAnsweredOnly ==
    /\ call[Logout].at = "handled"
    /\ page' = [page EXCEPT !.signedIn = FALSE]
    /\ call' = [call EXCEPT ![Logout] = NoCall]
    /\ UNCHANGED <<token, cookie, refresh, other, calm>>

\* The answer takes the cookies away, whatever they are by now; then clearAuth.
LogoutAnswered ==
    /\ call[Logout].at = "handled"
    /\ cookie' = SignedOut
    /\ page' = [page EXCEPT !.signedIn = FALSE]
    /\ call' = [call EXCEPT ![Logout] = NoCall]
    /\ UNCHANGED <<token, refresh, other, calm>>

\* The calls of S fail: a start-up that fails and a sign-out, however it ends, clear what
\* the page knows of the session; so does a failed refresh.
Reject(S, failedRefresh) ==
    LET clear == failedRefresh \/ Logout \in S \/ (Start \in S /\ page.step \in {"me", "switch"}) IN
    /\ call' = [c \in AllCalls |-> IF c \in S THEN NoCall ELSE call[c]]
    /\ page' = [signedIn |-> page.signedIn /\ ~clear,
                step |-> IF Start \in S THEN "none" ELSE page.step,
                isRefreshing |-> page.isRefreshing /\ ~failedRefresh,
                queue |-> IF failedRefresh THEN {} ELSE page.queue]
    /\ cookie' = [cookie EXCEPT !.marker = @ /\ ~clear]

\* 401: a call sent again fails; one that finds a refresh under way waits for it; the
\* first asks for one.
Unauthorized(c) ==
    /\ call[c].at = "sent" /\ ~call[c].ok
    /\ IF call[c].retry
       THEN Reject({c}, FALSE) /\ UNCHANGED <<refresh, calm>>
       ELSE IF page.isRefreshing
       THEN /\ call' = [call EXCEPT ![c] = [NoCall EXCEPT !.at = "queued"]]
            /\ page' = [page EXCEPT !.queue = @ \cup {c}]
            /\ UNCHANGED <<cookie, refresh, calm>>
       ELSE /\ call' = [call EXCEPT ![c] = [NoCall EXCEPT !.at = "waiting", !.retry = TRUE]]
            /\ page' = [page EXCEPT !.isRefreshing = TRUE]
            /\ refresh' = [at |-> "sent", token |-> cookie.refresh, by |-> c]
            /\ calm' = (calm /\ Quiet)
            /\ UNCHANGED cookie
    /\ UNCHANGED <<token, other>>

\* The network fails a call, or its answer.
Lose(c) ==
    /\ c \in InFlight
    /\ Reject({c}, FALSE)
    /\ calm' = FALSE
    /\ UNCHANGED <<token, refresh, other>>

-----------------------------------------------------------------------------
(* Refreshing *)

\* Mutated: revokedAt is not looked at.
ReadTokenUnchecked ==
    LET status == IF refresh.token = NoToken THEN "gone" ELSE token[refresh.token] IN
    /\ refresh.at = "sent"
    /\ refresh' = [refresh EXCEPT !.at = IF status # "gone" THEN "read" ELSE "refused"]
    /\ UNCHANGED <<token, cookie, page, call, other, calm>>

\* refreshSession: a token revoked before ends every session of the account.
ReadToken ==
    LET status == IF refresh.token = NoToken THEN "gone" ELSE token[refresh.token] IN
    /\ refresh.at = "sent"
    /\ token' = IF status = "revoked" THEN Revoked(Tokens) ELSE token
    /\ refresh' = [refresh EXCEPT !.at = IF status = "active" THEN "read" ELSE "refused"]
    /\ UNCHANGED <<cookie, page, call, other, calm>>

\* rotate: one transaction, by the row's id, whatever has become of it since.
Rotate ==
    /\ refresh.at = "read"
    /\ \E k \in NewTokens :
         /\ token' = [token EXCEPT ![refresh.token] = "revoked", ![k] = "active"]
         /\ refresh' = [refresh EXCEPT !.at = "granted", !.token = k]
    /\ UNCHANGED <<cookie, page, call, other, calm>>

\* Mutated: the calls that wait are forgotten.
RefreshedForgetting ==
    LET jar == SessionOf(refresh.token, "plain") IN
    /\ refresh.at = "granted"
    /\ cookie' = jar
    /\ call' = [call EXCEPT ![refresh.by] = Sent(refresh.by, jar, TRUE)]
    /\ page' = [page EXCEPT !.isRefreshing = FALSE, !.queue = {}]
    /\ refresh' = NoRefresh
    /\ UNCHANGED <<token, other, calm>>

\* The new cookies name no organization.  The calls that waited are sent again, as if for
\* the first time, and the one that asked for the refresh for the last.
Refreshed ==
    LET jar == SessionOf(refresh.token, "plain") IN
    /\ refresh.at = "granted"
    /\ cookie' = jar
    /\ call' = [c \in AllCalls |-> IF c \in page.queue \cup {refresh.by}
                                   THEN Sent(c, jar, c = refresh.by) ELSE call[c]]
    /\ page' = [page EXCEPT !.isRefreshing = FALSE, !.queue = {}]
    /\ refresh' = NoRefresh
    /\ UNCHANGED <<token, other, calm>>

\* Mutated: only the call that asked learns of it.
RefreshFailedAlone ==
    /\ Refreshing
    /\ Reject({refresh.by}, TRUE)
    /\ refresh' = NoRefresh
    /\ calm' = (calm /\ refresh.at = "refused")
    /\ UNCHANGED <<token, other>>

\* Refused, or lost at any point.
RefreshFailed ==
    /\ Refreshing
    /\ Reject(page.queue \cup {refresh.by}, TRUE)
    /\ refresh' = NoRefresh
    /\ calm' = (calm /\ refresh.at = "refused")
    /\ UNCHANGED <<token, other>>

-----------------------------------------------------------------------------
(* Other tabs *)

OthersLogin ==
    /\ \E k \in NewTokens :
         /\ token' = [token EXCEPT ![k] = "active"]
         /\ cookie' = SessionOf(k, "org")
    /\ calm' = (calm /\ Quiet)
    /\ UNCHANGED <<page, call, refresh, other>>

\* Another tab's sign-out is handled, then its answer arrives.
OthersLogout ==
    /\ other = NoAnswer /\ cookie.access # "none"
    /\ token' = Revoked({cookie.refresh})
    /\ other' = [NoAnswer EXCEPT !.at = "handled"]
    /\ calm' = (calm /\ Quiet)
    /\ UNCHANGED <<cookie, page, call, refresh>>

OthersLoggedOut ==
    /\ other.at = "handled"
    /\ cookie' = SignedOut
    /\ other' = NoAnswer
    /\ UNCHANGED <<token, page, call, refresh, calm>>

\* Another tab's refresh reads the cookie's token and rotates it, then its answer arrives.
OthersRotate ==
    /\ other = NoAnswer /\ cookie.refresh # NoToken /\ token[cookie.refresh] = "active"
    /\ \E k \in NewTokens :
         /\ token' = [token EXCEPT ![cookie.refresh] = "revoked", ![k] = "active"]
         /\ other' = [at |-> "granted", token |-> k]
    /\ calm' = (calm /\ Quiet)
    /\ UNCHANGED <<cookie, page, call, refresh>>

OthersRefreshed ==
    /\ other.at = "granted"
    /\ cookie' = SessionOf(other.token, "plain")
    /\ other' = NoAnswer
    /\ UNCHANGED <<token, page, call, refresh, calm>>

\* Another page's start-up names the organization again.
OthersSwitch ==
    /\ cookie.access = "plain"
    /\ cookie' = [cookie EXCEPT !.access = "org", !.marker = TRUE]
    /\ UNCHANGED <<token, page, call, refresh, other, calm>>

\* Another tab's call or refresh fails: clearAuth there takes the marker of all.
OthersLose ==
    /\ cookie' = [cookie EXCEPT !.marker = FALSE]
    /\ other' = NoAnswer
    /\ calm' = FALSE
    /\ UNCHANGED <<token, page, call, refresh>>

-----------------------------------------------------------------------------
(* Time, and the account's other browsers *)

AccessLapses ==
    /\ cookie.access # "none"
    /\ cookie' = [cookie EXCEPT !.access = "none"]
    /\ UNCHANGED <<token, page, call, refresh, other, calm>>

\* A session ends by its date, by itself in the list of sessions, or by a sign-out handled
\* after the browser gave it up; or all do: a new password, a sign-out of every device, or a
\* token that another tab sent twice.
SessionsEnd ==
    /\ \/ \E k \in Tokens : token[k] = "active" /\ token' \in {[token EXCEPT ![k] = "gone"], Revoked({k})}
       \/ token' = Revoked(Tokens)
    /\ calm' = FALSE
    /\ UNCHANGED <<cookie, page, call, refresh, other>>

Next ==
    \/ Load \/ Login
    \/ \E c \in AllCalls : Ask(c) \/ Answer(c) \/ Unauthorized(c) \/ Lose(c)
    \/ HandleLogout \/ LogoutAnswered
    \/ ReadToken \/ Rotate \/ Refreshed \/ RefreshFailed
    \/ OthersLogin \/ OthersLogout \/ OthersLoggedOut \/ OthersRotate \/ OthersRefreshed
    \/ OthersSwitch \/ OthersLose
    \/ AccessLapses \/ SessionsEnd

\* Every call and every refresh is answered or fails: the browser gives up at the latest.
Settle(c) == Answer(c) \/ Unauthorized(c) \/ (c = Logout /\ (HandleLogout \/ LogoutAnswered)) \/ Lose(c)
Fairness ==
    /\ \A c \in AllCalls : WF_vars(Settle(c))
    /\ WF_vars(ReadToken \/ Rotate \/ Refreshed \/ RefreshFailed)

Spec == Init /\ [][Next]_vars /\ Fairness

-----------------------------------------------------------------------------
Access == {"none", "plain", "org"}

\* The tokens, the cookies, the page, its calls and its refresh have their shape.
TypeOK ==
    /\ token \in [Tokens -> {"gone", "active", "revoked"}]
    /\ cookie \in [refresh : Tokens \cup {NoToken}, access : Access, marker : BOOLEAN]
    /\ page \in [signedIn : BOOLEAN, step : {"none", "me", "switch", "login"},
                 isRefreshing : BOOLEAN, queue : SUBSET AllCalls]
    /\ call \in [AllCalls -> [at : {"idle", "sent", "handled", "queued", "waiting"}, ok : BOOLEAN,
                              token : Tokens \cup {NoToken}, retry : BOOLEAN]]
    /\ refresh \in [at : {"none", "sent", "read", "granted", "refused"},
                    token : Tokens \cup {NoToken}, by : AllCalls]
    /\ other \in [at : {"none", "granted", "handled"}, token : Tokens \cup {NoToken}]
    /\ calm \in BOOLEAN

\* A call that waits is waited for: there is a refresh under way, one only, which knows of
\* the call and will send or fail it (isRefreshing and queue of lib/api.ts).
NobodyForgotten ==
    /\ page.queue = {c \in AllCalls : call[c].at = "queued"}
    /\ {c \in AllCalls : call[c].at = "waiting"} = IF Refreshing THEN {refresh.by} ELSE {}
    /\ page.isRefreshing = Refreshing

\* However tabs take turns, in peace the browser's token is good, or about to be replaced
\* or, by a sign-out under way, taken away; no token it sends is refused, and a page loaded
\* again finds the session: nobody is signed out who did not sign out.
StaysSignedIn ==
    calm => /\ \/ cookie.refresh = NoToken
               \/ token[cookie.refresh] = "active"
               \/ refresh.at = "granted"
               \/ other.at = "granted"
               \/ Leaving
            /\ refresh.at = "refused" => refresh.token = NoToken
            /\ cookie.refresh # NoToken => cookie.marker

\* The browser has no session, and nothing under way will give it one.
Active(k) == k # NoToken /\ token[k] = "active"
Ended ==
    /\ ~Active(cookie.refresh) /\ other.at # "granted"
    /\ refresh.at \notin {"read", "granted"} /\ (refresh.at = "sent" => ~Active(refresh.token))

\* The API signs out the session the browser has, before any refresh has read its token,
\* though one may be on its way.
SignsOut ==
    /\ OthersLogout \/ (HandleLogout /\ call[Logout].token = cookie.refresh)
    /\ other.at # "granted" /\ refresh.at \notin {"read", "granted"}
    /\ refresh.at = "sent" => refresh.token = cookie.refresh

\* Once such a sign-out is handled, the browser gets a session again by signing in only: no
\* refresh sent before or after it, in whatever tab, whatever answers get lost, the one to
\* the sign-out included.  (One that has read the token does bring the session back.)
SignOutStands ==
    [][/\ SignsOut => Ended'
       /\ Ended /\ ~(Login \/ OthersLogin) => Ended']_vars

\* When nobody reloads, signs in or asks for more, every call comes to its end, answered or
\* failed, however often tokens lapse and answers get lost in its way.
NothingMore == <>[][~(Load \/ Login \/ \E c \in AllCalls : Ask(c))]_vars
EveryCallSettles == NothingMore => []<>(\A c \in AllCalls : call[c] = NoCall)
=============================================================================
