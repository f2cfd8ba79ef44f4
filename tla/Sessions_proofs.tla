--------------------------- MODULE Sessions_proofs ---------------------------
(***************************************************************************)
(* Theorems about Sessions, for any calls a page makes and any number of   *)
(* refresh tokens.                                                         *)
(***************************************************************************)
EXTENDS Sessions, TLAPS

CallType == [at : {"idle", "sent", "handled", "queued", "waiting"}, ok : BOOLEAN,
             token : Tokens \cup {NoToken}, retry : BOOLEAN]
AnswerType == [at : {"none", "granted", "handled"}, token : Tokens \cup {NoToken}]
CookieType == [refresh : Tokens \cup {NoToken}, access : Access, marker : BOOLEAN]

LEMMA Values ==
    /\ NoCall \in CallType /\ NoCall.at = "idle"
    /\ SignedOut \in CookieType /\ SignedOut.refresh = NoToken /\ NoAnswer.at = "none"
    /\ NoAnswer \in AnswerType
    /\ \A k \in Tokens \cup {NoToken}, a \in Access : SessionOf(k, a) \in CookieType
    /\ Start \in AllCalls /\ Logout \in AllCalls /\ Calls \subseteq AllCalls
    /\ NewTokens \subseteq Tokens
BY DEF NoCall, CallType, SignedOut, CookieType, NoAnswer, AnswerType, SessionOf, Access, AllCalls, NewTokens

\* A call as it is sent, whatever cookies it goes with.
LEMMA SentType ==
    ASSUME NEW c \in AllCalls, NEW jar \in CookieType, NEW retry \in BOOLEAN
    PROVE  Sent(c, jar, retry) \in CallType /\ Sent(c, jar, retry).at = "sent"
BY DEF Sent, CallType, CookieType, Accepted, NoToken

LEMMA RevokedType ==
    ASSUME NEW K, token \in [Tokens -> {"gone", "active", "revoked"}]
    PROVE  Revoked(K) \in [Tokens -> {"gone", "active", "revoked"}]
BY DEF Revoked

-----------------------------------------------------------------------------
(* Shape, and who waits.  A start-up or sign-in that is over has no call    *)
(* left, so that the next one does not take the place of a call that waits. *)

StartOver == page.step = "none" => call[Start].at = "idle"

Waited == TypeOK /\ NobodyForgotten /\ StartOver

LEMMA InitWaited == Init => Waited
<1> SUFFICES ASSUME Init PROVE Waited
  OBVIOUS
<1>1. TypeOK
  BY Values DEF Init, TypeOK, CallType, CookieType, AnswerType, Loaded, NoRefresh
<1>2. NobodyForgotten /\ StartOver
  BY Values DEF Init, NobodyForgotten, StartOver, Loaded, NoRefresh, Refreshing, NoCall
<1>. QED BY <1>1, <1>2 DEF Waited

\* Other tabs, time and what the server does: the page does not notice.
LEMMA ElsewhereWaited ==
    ASSUME Waited, UNCHANGED <<page, call>>, TypeOK', refresh'.at = "none" <=> refresh.at = "none",
           refresh'.by = refresh.by
    PROVE  Waited'
BY DEF Waited, NobodyForgotten, StartOver, Refreshing

\* A call that does not wait is sent or comes to its end.
LEMMA OneCallWaited ==
    ASSUME Waited, TypeOK', NEW c \in AllCalls, NEW x, call' = [call EXCEPT ![c] = x],
           call[c].at \in {"idle", "sent", "handled"}, x.at \in {"idle", "sent", "handled"},
           page'.queue = page.queue, page'.isRefreshing = page.isRefreshing, UNCHANGED refresh,
           page'.step = "none" => call'[Start].at = "idle"
    PROVE  Waited'
<1>1. \A d \in AllCalls : call'[d] = IF d = c THEN x ELSE call[d]
  BY DEF Waited, TypeOK
<1>2. \A d \in AllCalls : /\ call'[d].at = "queued" <=> call[d].at = "queued"
                         /\ call'[d].at = "waiting" <=> call[d].at = "waiting"
  BY <1>1
<1>3. NobodyForgotten'
  BY <1>2 DEF Waited, NobodyForgotten, Refreshing
<1>. QED BY <1>3 DEF Waited, StartOver

LEMMA LoadWaited == ASSUME Waited, Load PROVE Waited'
<1>1. cookie \in CookieType
  BY DEF Waited, TypeOK, CookieType
<1>2. call' \in [AllCalls -> CallType] /\ \A c \in AllCalls : call'[c].at \in {"idle", "sent"}
  BY <1>1, Values, SentType DEF Load
<1>3. TypeOK'
  BY <1>2, Values DEF Load, Waited, TypeOK, CallType, Loaded, NoRefresh, CookieType, AllCalls, Refreshing
<1>4. page'.step = "none" => call'[Start].at = "idle"
  BY Values DEF Load, Loaded, Waited, TypeOK
<1>5. page'.queue = {} /\ page'.isRefreshing = FALSE /\ refresh'.at = "none"
  BY DEF Load, Loaded, NoRefresh
<1>. QED BY <1>2, <1>3, <1>4, <1>5 DEF Waited, NobodyForgotten, StartOver, Refreshing

LEMMA LoginWaited == ASSUME Waited, Login PROVE Waited'
<1>1. PICK k \in NewTokens : /\ token' = [token EXCEPT ![k] = "active"]
                             /\ cookie' = SessionOf(k, "plain")
  BY DEF Login
<1>2. cookie' \in CookieType
  BY <1>1, Values DEF Access
<1>3. call' = [call EXCEPT ![Start] = Sent(Start, cookie', FALSE)]
  BY DEF Login
<1>4. Sent(Start, cookie', FALSE) \in CallType /\ Sent(Start, cookie', FALSE).at = "sent"
  BY <1>2, Values, SentType
<1>5. call \in [AllCalls -> CallType] /\ call[Start].at = "idle"
  BY DEF Waited, TypeOK, CallType, StartOver, Login
<1>6. page' = [page EXCEPT !.step = "login"] /\ UNCHANGED <<refresh, other>> /\ calm' = (calm /\ Quiet)
  BY DEF Login
<1>7. TypeOK'
  BY <1>1, <1>2, <1>3, <1>4, <1>5, <1>6, Values DEF Waited, TypeOK, CallType, CookieType, Quiet, Refreshing
<1>8. \A c \in AllCalls : c # Start => call'[c] = call[c]
  BY <1>3, <1>5
<1>9. call'[Start].at = "sent" /\ page'.step # "none" /\ page'.queue = page.queue
         /\ page'.isRefreshing = page.isRefreshing
  BY <1>3, <1>4, <1>5, <1>6, Values DEF Waited, TypeOK
<1>. QED BY <1>5, <1>6, <1>7, <1>8, <1>9 DEF Waited, NobodyForgotten, StartOver, Refreshing

LEMMA AskWaited == ASSUME Waited, NEW c \in AllCalls, Ask(c) PROVE Waited'
<1>1. call' = [call EXCEPT ![c] = Sent(c, cookie, FALSE)] /\ call[c] = NoCall /\ c # Start
      /\ UNCHANGED <<token, cookie, page, refresh, other, calm>>
  BY DEF Ask
<1>2. Sent(c, cookie, FALSE) \in CallType /\ Sent(c, cookie, FALSE).at = "sent"
  BY SentType DEF Waited, TypeOK, CookieType
<1>3. call \in [AllCalls -> CallType]
  BY DEF Waited, TypeOK, CallType
<1>a. call' \in [AllCalls -> CallType]
  BY <1>1, <1>2, <1>3
<1>b. UNCHANGED <<token, cookie, page, refresh, other, calm>>
  BY <1>1
<1>4. TypeOK'
  BY <1>a, <1>b DEF Waited, TypeOK, CallType
<1>5. \A d \in AllCalls : call'[d] = IF d = c THEN Sent(c, cookie, FALSE) ELSE call[d]
  BY <1>1, <1>3
<1>6. page'.step = "none" => call'[Start].at = "idle"
  BY <1>1, <1>5, Values DEF Waited, StartOver
<1>. QED BY <1>1, <1>2, <1>4, <1>6, Values, OneCallWaited

\* Calls that were sent come to their end.
LEMMA RejectWaited ==
    ASSUME Waited, NEW c \in AllCalls, call[c].at \in {"sent", "handled"}, Reject({c}, FALSE),
           UNCHANGED <<refresh, other>>, calm' \in BOOLEAN,
           token' \in [Tokens -> {"gone", "active", "revoked"}]
    PROVE  Waited'
<1>1. \A d \in AllCalls : call'[d] = IF d = c THEN NoCall ELSE call[d]
  BY DEF Reject
<1>2. call' \in [AllCalls -> CallType]
  BY Values DEF Reject, Waited, TypeOK, CallType
<1>3. /\ page'.queue = page.queue /\ page'.isRefreshing = page.isRefreshing
      /\ page'.step = IF c = Start THEN "none" ELSE page.step
      /\ page' \in [signedIn : BOOLEAN, step : {"none", "me", "switch", "login"},
                    isRefreshing : BOOLEAN, queue : SUBSET AllCalls]
  BY DEF Reject, Waited, TypeOK
<1>4. cookie' \in CookieType
  BY DEF Reject, Waited, TypeOK, CookieType
<1>5. TypeOK'
  BY <1>2, <1>3, <1>4 DEF Waited, TypeOK, CallType, CookieType
<1>. QED BY <1>1, <1>3, <1>5, Values DEF Waited, NobodyForgotten, StartOver, Refreshing

LEMMA AnswerWaited == ASSUME Waited, NEW c \in AllCalls, Answer(c) PROVE Waited'
<1>0. /\ call[c].at = "sent" /\ UNCHANGED <<token, refresh, other, calm>>
      /\ call \in [AllCalls -> CallType] /\ cookie \in CookieType
  BY DEF Answer, Waited, TypeOK, CallType, CookieType
<1>1. CASE c = Start /\ page.step = "me"
  <2>1. /\ page' = [page EXCEPT !.step = "switch"]
        /\ call' = [call EXCEPT ![Start] = Sent(Start, cookie, FALSE)]
        /\ UNCHANGED cookie
    BY <1>1 DEF Answer, StartAnswered
  <2>2. Sent(Start, cookie, FALSE) \in CallType /\ Sent(Start, cookie, FALSE).at = "sent"
    BY <1>0, Values, SentType
  <2>3. TypeOK'
    BY <1>0, <2>1, <2>2 DEF Waited, TypeOK, CallType
  <2>5. page'.queue = page.queue /\ page'.isRefreshing = page.isRefreshing /\ page'.step = "switch"
    BY <2>1 DEF Waited, TypeOK
  <2>. QED BY <1>0, <1>1, <2>1, <2>2, <2>3, <2>5, OneCallWaited
<1>2. CASE c # Start \/ page.step # "me"
  <2>1. call' = [call EXCEPT ![c] = NoCall]
    BY <1>2 DEF Answer, StartAnswered
  <2>2. /\ cookie' \in CookieType
        /\ page' \in [signedIn : BOOLEAN, step : {"none", "me", "switch", "login"},
                      isRefreshing : BOOLEAN, queue : SUBSET AllCalls]
        /\ page'.queue = page.queue /\ page'.isRefreshing = page.isRefreshing
        /\ c # Start => page'.step = page.step
    BY <1>0, <1>2 DEF Answer, StartAnswered, Waited, TypeOK, CookieType, Access
  <2>3. TypeOK'
    BY <1>0, <2>1, <2>2, Values DEF Waited, TypeOK, CallType, CookieType
  <2>4. \A d \in AllCalls : call'[d] = IF d = c THEN NoCall ELSE call[d]
    BY <1>0, <2>1
  <2>. QED BY <1>0, <2>2, <2>3, <2>4, Values DEF Waited, NobodyForgotten, StartOver, Refreshing
<1>. QED BY <1>1, <1>2

LEMMA LogoutWaited == ASSUME Waited, HandleLogout \/ LogoutAnswered PROVE Waited'
<1>1. /\ call \in [AllCalls -> CallType] /\ call[Logout].at \in {"sent", "handled"} /\ Logout # Start
      /\ token \in [Tokens -> {"gone", "active", "revoked"}]
  BY ConstantsAssumption DEF Waited, TypeOK, CallType, HandleLogout, LogoutAnswered, ConstantsAssumption
<1>2. CASE HandleLogout
  <2> DEFINE x == [call[Logout] EXCEPT !.at = "handled"]
  <2>1. x \in CallType /\ x.at = "handled"
    BY <1>1, Values DEF CallType
  <2>2. call' = [call EXCEPT ![Logout] = x] /\ token' = Revoked({call[Logout].token})
        /\ calm' = (calm /\ Quiet) /\ UNCHANGED <<cookie, page, refresh, other>>
    BY <1>2 DEF HandleLogout
  <2> HIDE DEF x
  <2>3. token' \in [Tokens -> {"gone", "active", "revoked"}]
    BY <1>1, <2>2, RevokedType
  <2>a. call' \in [AllCalls -> CallType]
    BY <1>1, <2>1, <2>2
  <2>4. TypeOK'
    BY <2>2, <2>3, <2>a DEF Waited, TypeOK, CallType, Quiet, Refreshing, Leaving
  <2>5. \A d \in AllCalls : call'[d] = IF d = Logout THEN x ELSE call[d]
    BY <1>1, <2>2
  <2>6. page'.step = "none" => call'[Start].at = "idle"
    BY <1>1, <2>2, <2>5, Values DEF Waited, StartOver
  <2>. QED BY <1>1, <2>1, <2>2, <2>4, <2>6, Values, OneCallWaited
<1>3. CASE LogoutAnswered
  <2>1. call' = [call EXCEPT ![Logout] = NoCall] /\ page' = [page EXCEPT !.signedIn = FALSE]
        /\ cookie' = SignedOut /\ UNCHANGED <<token, refresh, other, calm>>
    BY <1>3 DEF LogoutAnswered
  <2>2. TypeOK'
    BY <1>1, <2>1, Values DEF Waited, TypeOK, CallType, CookieType
  <2>3. \A d \in AllCalls : call'[d] = IF d = Logout THEN NoCall ELSE call[d]
    BY <1>1, <2>1
  <2>4. page'.queue = page.queue /\ page'.isRefreshing = page.isRefreshing /\ page'.step = page.step
    BY <2>1 DEF Waited, TypeOK
  <2>. QED BY <1>1, <2>1, <2>2, <2>3, <2>4, Values DEF Waited, NobodyForgotten, StartOver, Refreshing
<1>. QED BY <1>2, <1>3

LEMMA UnauthorizedWaited == ASSUME Waited, NEW c \in AllCalls, Unauthorized(c) PROVE Waited'
<1>0. /\ call[c].at = "sent" /\ UNCHANGED <<token, other>>
      /\ call \in [AllCalls -> CallType]
  BY DEF Unauthorized, Waited, TypeOK, CallType
<1>1. CASE call[c].retry
  BY <1>0, <1>1, RejectWaited DEF Unauthorized, Waited, TypeOK
<1>2. CASE ~call[c].retry /\ page.isRefreshing
  <2>1. /\ call' = [call EXCEPT ![c] = [NoCall EXCEPT !.at = "queued"]]
        /\ page' = [page EXCEPT !.queue = @ \cup {c}]
        /\ UNCHANGED <<cookie, refresh, calm>>
    BY <1>2 DEF Unauthorized
  <2>2. [NoCall EXCEPT !.at = "queued"] \in CallType /\ [NoCall EXCEPT !.at = "queued"].at = "queued"
    BY DEF NoCall, CallType
  <2>3. TypeOK'
    BY <1>0, <2>1, <2>2 DEF Waited, TypeOK, CallType
  <2>4. \A d \in AllCalls : call'[d].at = IF d = c THEN "queued" ELSE call[d].at
    BY <1>0, <2>1, <2>2
  <2>5. page'.queue = page.queue \cup {c} /\ page'.isRefreshing = page.isRefreshing /\ page'.step = page.step
    BY <2>1 DEF Waited, TypeOK
  <2>6. NobodyForgotten'
    BY <1>0, <2>1, <2>4, <2>5 DEF Waited, NobodyForgotten, Refreshing
  <2>7. StartOver'
    BY <1>0, <2>4, <2>5, Values DEF Waited, StartOver
  <2>. QED BY <2>3, <2>6, <2>7 DEF Waited
<1>3. CASE ~call[c].retry /\ ~page.isRefreshing
  <2>1. /\ call' = [call EXCEPT ![c] = [NoCall EXCEPT !.at = "waiting", !.retry = TRUE]]
        /\ page' = [page EXCEPT !.isRefreshing = TRUE]
        /\ refresh' = [at |-> "sent", token |-> cookie.refresh, by |-> c]
        /\ calm' = (calm /\ Quiet)
        /\ UNCHANGED cookie
    BY <1>3 DEF Unauthorized
  <2> DEFINE x == [NoCall EXCEPT !.at = "waiting", !.retry = TRUE]
  <2>2. x \in CallType /\ x.at = "waiting"
    BY DEF NoCall, CallType
  <2> HIDE DEF x
  <2>a. call' \in [AllCalls -> CallType]
    BY <1>0, <2>1, <2>2 DEF x
  <2>b. page' \in [signedIn : BOOLEAN, step : {"none", "me", "switch", "login"},
                   isRefreshing : BOOLEAN, queue : SUBSET AllCalls]
    BY <2>1 DEF Waited, TypeOK
  <2>c. refresh' \in [at : {"none", "sent", "read", "granted", "refused"},
                      token : Tokens \cup {NoToken}, by : AllCalls]
    BY <2>1 DEF Waited, TypeOK
  <2>d. calm' \in BOOLEAN
    BY <2>1 DEF Waited, TypeOK
  <2>3. TypeOK'
    BY <1>0, <2>1, <2>a, <2>b, <2>c, <2>d DEF Waited, TypeOK, CallType
  <2>4. \A d \in AllCalls : call'[d].at = IF d = c THEN "waiting" ELSE call[d].at
    BY <1>0, <2>1, <2>2 DEF x
  <2>5. page'.queue = page.queue /\ page'.isRefreshing = TRUE /\ page'.step = page.step
    BY <2>1 DEF Waited, TypeOK
  <2>6. refresh'.at = "sent" /\ refresh'.by = c
    BY <2>1
  <2>7. NobodyForgotten'
    <3>1. ~Refreshing /\ Refreshing'
      BY <1>3, <2>6 DEF Waited, NobodyForgotten, Refreshing
    <3>2. {d \in AllCalls : call'[d].at = "waiting"} = {c}
      BY <2>4, <3>1 DEF Waited, NobodyForgotten
    <3>3. {d \in AllCalls : call'[d].at = "queued"} = {d \in AllCalls : call[d].at = "queued"}
      BY <1>0, <2>4
    <3>. QED BY <2>5, <2>6, <3>1, <3>2, <3>3 DEF Waited, NobodyForgotten
  <2>8. StartOver'
    BY <1>0, <2>4, <2>5, Values DEF Waited, StartOver
  <2>. QED BY <2>3, <2>7, <2>8 DEF Waited
<1>. QED BY <1>1, <1>2, <1>3

LEMMA LoseWaited == ASSUME Waited, NEW c \in AllCalls, Lose(c) PROVE Waited'
<1>1. token' \in [Tokens -> {"gone", "active", "revoked"}]
  BY DEF Lose, Waited, TypeOK
<1>. QED BY <1>1, RejectWaited DEF Lose, InFlight

\* Every call that waits is sent again.
LEMMA RefreshedWaited == ASSUME Waited, Refreshed PROVE Waited'
<1> DEFINE jar == SessionOf(refresh.token, "plain")
<1>1. jar \in CookieType
  BY Values DEF Waited, TypeOK, Access
<1> HIDE DEF jar
<1>2. /\ refresh.at = "granted" /\ cookie' = jar /\ refresh' = NoRefresh /\ UNCHANGED <<token, other, calm>>
      /\ call' = [c \in AllCalls |-> IF c \in page.queue \cup {refresh.by}
                                     THEN Sent(c, jar, c = refresh.by) ELSE call[c]]
      /\ page' = [page EXCEPT !.isRefreshing = FALSE, !.queue = {}]
  BY DEF Refreshed, jar
<1>3. call \in [AllCalls -> CallType]
  BY DEF Waited, TypeOK, CallType
<1>4. call' \in [AllCalls -> CallType]
  BY <1>1, <1>2, <1>3, SentType
<1>5. ASSUME NEW c \in AllCalls
      PROVE  call'[c].at = IF c \in page.queue \cup {refresh.by} THEN "sent" ELSE call[c].at
  BY <1>1, <1>2, SentType
<1>6. TypeOK'
  BY <1>1, <1>2, <1>4 DEF Waited, TypeOK, CallType, CookieType, NoRefresh, AllCalls
<1>7. page'.queue = {} /\ page'.isRefreshing = FALSE /\ page'.step = page.step /\ refresh'.at = "none"
  BY <1>2 DEF Waited, TypeOK, NoRefresh
<1>8. \A c \in AllCalls : call'[c].at \notin {"queued", "waiting"}
  BY <1>2, <1>5 DEF Waited, NobodyForgotten, Refreshing
<1>9. NobodyForgotten'
  BY <1>7, <1>8 DEF NobodyForgotten, Refreshing
<1>10. StartOver'
  BY <1>2, <1>5, <1>7, Values DEF Waited, StartOver, NobodyForgotten, Refreshing
<1>. QED BY <1>6, <1>9, <1>10 DEF Waited

\* Every call that waits fails.
LEMMA RefreshFailedWaited == ASSUME Waited, RefreshFailed PROVE Waited'
<1> DEFINE S == page.queue \cup {refresh.by}
<1>1. /\ Refreshing /\ refresh' = NoRefresh /\ calm' \in BOOLEAN /\ UNCHANGED <<token, other>>
      /\ Reject(S, TRUE)
  BY DEF RefreshFailed, Waited, TypeOK
<1>2. \A c \in AllCalls : call'[c] = IF c \in S THEN NoCall ELSE call[c]
  BY <1>1 DEF Reject
<1>3. call' \in [AllCalls -> CallType]
  BY <1>1, Values DEF Reject, Waited, TypeOK, CallType
<1>4. page'.queue = {} /\ page'.isRefreshing = FALSE /\ page'.step = IF Start \in S THEN "none" ELSE page.step
  BY <1>1 DEF Reject
<1>5. page' \in [signedIn : BOOLEAN, step : {"none", "me", "switch", "login"},
                 isRefreshing : BOOLEAN, queue : SUBSET AllCalls]
  BY <1>1 DEF Reject, Waited, TypeOK
<1>6. cookie' \in CookieType
  BY <1>1 DEF Reject, Waited, TypeOK, CookieType
<1>7. TypeOK'
  BY <1>1, <1>3, <1>5, <1>6 DEF Waited, TypeOK, CallType, CookieType, NoRefresh, AllCalls
<1>8. \A c \in AllCalls : call'[c].at \notin {"queued", "waiting"}
  BY <1>1, <1>2, Values DEF Waited, NobodyForgotten
<1>9. refresh'.at = "none"
  BY <1>1 DEF NoRefresh
<1>10. NobodyForgotten'
  BY <1>4, <1>8, <1>9 DEF NobodyForgotten, Refreshing
<1>11. StartOver'
  BY <1>2, <1>4, Values DEF Waited, StartOver
<1>. QED BY <1>7, <1>10, <1>11 DEF Waited

LEMMA ServerWaited ==
    ASSUME Waited, ReadToken \/ Rotate \/ OthersLogin \/ OthersLogout \/ OthersLoggedOut \/ OthersRotate
                     \/ OthersRefreshed \/ OthersSwitch \/ OthersLose \/ AccessLapses \/ SessionsEnd
    PROVE  Waited'
<1>1. TypeOK
  BY DEF Waited
<1>2. CASE ReadToken
  <2>1. token' \in [Tokens -> {"gone", "active", "revoked"}]
    BY <1>1, <1>2, RevokedType DEF ReadToken, TypeOK
  <2>2. PICK at \in {"read", "refused"} : refresh' = [refresh EXCEPT !.at = at]
    BY <1>2 DEF ReadToken
  <2>3. /\ refresh' \in [at : {"none", "sent", "read", "granted", "refused"},
                          token : Tokens \cup {NoToken}, by : AllCalls]
        /\ refresh'.at # "none" /\ refresh'.by = refresh.by
    BY <1>1, <2>2 DEF TypeOK
  <2>4. refresh.at # "none" /\ UNCHANGED <<cookie, page, call, other, calm>>
    BY <1>2 DEF ReadToken
  <2>5. TypeOK'
    BY <1>1, <2>1, <2>3, <2>4 DEF TypeOK
  <2>. QED BY <2>3, <2>4, <2>5, ElsewhereWaited
<1>3. CASE Rotate
  <2>1. PICK k \in NewTokens :
              /\ token' = [token EXCEPT ![refresh.token] = "revoked", ![k] = "active"]
              /\ refresh' = [refresh EXCEPT !.at = "granted", !.token = k]
    BY <1>3 DEF Rotate
  <2>2. token' \in [Tokens -> {"gone", "active", "revoked"}]
    BY <1>1, <2>1 DEF TypeOK
  <2>3. /\ refresh' \in [at : {"none", "sent", "read", "granted", "refused"},
                          token : Tokens \cup {NoToken}, by : AllCalls]
        /\ refresh'.at # "none" /\ refresh'.by = refresh.by
    BY <1>1, <2>1, Values DEF TypeOK
  <2>4. refresh.at # "none" /\ UNCHANGED <<cookie, page, call, other, calm>>
    BY <1>3 DEF Rotate
  <2>5. TypeOK'
    BY <1>1, <2>2, <2>3, <2>4 DEF TypeOK
  <2>. QED BY <2>3, <2>4, <2>5, ElsewhereWaited
<1>4. CASE OthersLogin \/ OthersRotate \/ OthersRefreshed
  <2>1. token' \in [Tokens -> {"gone", "active", "revoked"}]
    BY <1>1, <1>4 DEF OthersLogin, OthersRotate, OthersRefreshed, TypeOK
  <2>2. cookie' \in CookieType
    BY <1>1, <1>4, Values DEF OthersLogin, OthersRotate, OthersRefreshed, TypeOK, CookieType, Access
  <2>a. other' \in AnswerType
    BY <1>1, <1>4, Values DEF OthersLogin, OthersRotate, OthersRefreshed, TypeOK, AnswerType
  <2>b. calm' \in BOOLEAN /\ UNCHANGED <<page, call, refresh>>
    BY <1>1, <1>4 DEF OthersLogin, OthersRotate, OthersRefreshed, TypeOK, Quiet, Leaving, Refreshing
  <2>3. other' \in AnswerType /\ calm' \in BOOLEAN /\ UNCHANGED <<page, call, refresh>>
    BY <2>a, <2>b
  <2>4. TypeOK'
    BY <1>1, <2>1, <2>2, <2>3 DEF TypeOK, CookieType, AnswerType
  <2>. QED BY <2>3, <2>4, ElsewhereWaited
<1>5. CASE OthersLogout \/ OthersLoggedOut \/ SessionsEnd
  <2>a. \/ UNCHANGED token \/ \E K : token' = Revoked(K)
        \/ \E k \in Tokens : token' = [token EXCEPT ![k] = "gone"]
    BY <1>5 DEF OthersLogout, OthersLoggedOut, SessionsEnd
  <2>1. token' \in [Tokens -> {"gone", "active", "revoked"}]
    BY <1>1, <2>a, RevokedType DEF TypeOK
  <2>2. cookie' \in CookieType
    BY <1>1, <1>5, Values DEF OthersLogout, OthersLoggedOut, SessionsEnd, TypeOK, CookieType
  <2>3. calm' \in BOOLEAN /\ UNCHANGED <<page, call, refresh>> /\ other' \in AnswerType
    BY <1>1, <1>5, Values DEF OthersLogout, OthersLoggedOut, SessionsEnd, TypeOK, AnswerType, NoAnswer
  <2>4. TypeOK'
    BY <1>1, <2>1, <2>2, <2>3 DEF TypeOK, CookieType, AnswerType
  <2>. QED BY <2>3, <2>4, ElsewhereWaited
<1>6. CASE OthersSwitch \/ OthersLose \/ AccessLapses
  BY <1>1, <1>6, ElsewhereWaited, Values
  DEF OthersSwitch, OthersLose, AccessLapses, TypeOK, Access, NoToken, AnswerType
<1>. QED BY <1>2, <1>3, <1>4, <1>5, <1>6

LEMMA NextWaited == Waited /\ [Next]_vars => Waited'
<1> SUFFICES ASSUME Waited, [Next]_vars PROVE Waited'
  OBVIOUS
<1>1. CASE UNCHANGED vars
  BY <1>1 DEF vars, Waited, TypeOK, NobodyForgotten, StartOver, Refreshing
<1>. QED BY <1>1, LoadWaited, LoginWaited, AskWaited, AnswerWaited, UnauthorizedWaited, LoseWaited,
            LogoutWaited, RefreshedWaited, RefreshFailedWaited, ServerWaited DEF Next

\* Tokens, cookies, page, calls and refresh keep their shape.
THEOREM TypeCorrect == Spec => []TypeOK
<1>1. Waited => TypeOK
  BY DEF Waited
<1>. QED BY InitWaited, NextWaited, <1>1, PTL DEF Spec

\* No call is left waiting for a refresh that will not come, and no two refreshes of one
\* page are under way, whatever answers are lost, other tabs do and pages are loaded.
THEOREM NobodyIsForgotten == Spec => []NobodyForgotten
<1>1. Waited => NobodyForgotten
  BY DEF Waited
<1>. QED BY InitWaited, NextWaited, <1>1, PTL DEF Spec

-----------------------------------------------------------------------------
(* In peace.  What a refresh under way, of this tab or of another, has to   *)
(* do with the browser's token until its answer arrives.                    *)

\* A token is asked about as the browser keeps it, and the one granted for it is good.
Peace ==
    /\ Refreshing => other.at = "none" /\ ~Leaving
    /\ other.at # "none" => call[Logout].at # "handled"
    /\ refresh.at \in {"sent", "read", "refused"} => refresh.token = cookie.refresh
    /\ refresh.at = "read" => refresh.token # NoToken
    /\ refresh.at = "refused" => refresh.token = NoToken
    /\ refresh.at = "granted" => Active(refresh.token) /\ cookie.refresh # NoToken
    /\ other.at = "granted" => Active(other.token) /\ cookie.refresh # NoToken
    /\ cookie.refresh # NoToken /\ refresh.at # "granted" /\ other.at # "granted" /\ ~Leaving
         => Active(cookie.refresh)
    /\ cookie.refresh # NoToken => cookie.marker

\* A sign-out or a start-up sent again goes with a new access token: it is not turned down.
SentAgain == \A c \in AllCalls \ Calls : call[c].at = "sent" /\ call[c].retry => call[c].ok

Kept == Waited /\ SentAgain /\ (calm => Peace)

\* A call sent for the first time, or sent again with a new access token.
LEMMA SentWell ==
    ASSUME NEW c \in AllCalls, NEW jar, NEW retry \in BOOLEAN,
           retry => jar.access = "plain"
    PROVE  c \notin Calls /\ Sent(c, jar, retry).retry => Sent(c, jar, retry).ok
BY DEF Sent, Accepted

LEMMA SentAgainKept == ASSUME Waited, SentAgain, [Next]_vars PROVE SentAgain'
<1>1. call \in [AllCalls -> CallType] /\ cookie \in CookieType
  BY DEF Waited, TypeOK, CallType, CookieType
<1>2. CASE Load
  <2>1. \A c \in AllCalls : call'[c] = Sent(c, cookie, FALSE) \/ call'[c] = NoCall
    BY <1>2 DEF Load
  <2>2. \A c \in AllCalls : ~Sent(c, cookie, FALSE).retry
    BY DEF Sent
  <2>3. ~NoCall.retry
    BY DEF NoCall
  <2>. QED BY <2>1, <2>2, <2>3 DEF SentAgain
<1>3. ASSUME NEW c \in AllCalls, NEW x, call' = [call EXCEPT ![c] = x],
             c \notin Calls /\ x.at = "sent" /\ x.retry => x.ok
      PROVE  SentAgain'
  BY <1>1, <1>3 DEF SentAgain
<1>4. CASE Login
  <2>1. call' = [call EXCEPT ![Start] = Sent(Start, cookie', FALSE)]
    BY <1>4 DEF Login
  <2>2. ~Sent(Start, cookie', FALSE).retry
    BY DEF Sent
  <2>. QED BY <1>3, <2>1, <2>2, Values
<1>5. ASSUME NEW c \in AllCalls, Ask(c) PROVE SentAgain'
  <2>1. call' = [call EXCEPT ![c] = Sent(c, cookie, FALSE)]
    BY <1>5 DEF Ask
  <2>2. ~Sent(c, cookie, FALSE).retry
    BY DEF Sent
  <2>. QED BY <1>3, <2>1, <2>2
<1>6. ASSUME NEW c \in AllCalls, Answer(c) PROVE SentAgain'
  <2>1. call' = [call EXCEPT ![Start] = Sent(Start, cookie, FALSE)] \/ call' = [call EXCEPT ![c] = NoCall]
    BY <1>6 DEF Answer, StartAnswered
  <2>2. ~Sent(Start, cookie, FALSE).retry /\ NoCall.at # "sent"
    BY DEF Sent, NoCall
  <2>. QED BY <1>3, <2>1, <2>2, Values
<1>7. ASSUME NEW S, \A d \in AllCalls : call'[d] = IF d \in S THEN NoCall ELSE call[d]
      PROVE  SentAgain'
  BY <1>7 DEF SentAgain, NoCall
<1>8. ASSUME NEW c \in AllCalls, Unauthorized(c) PROVE SentAgain'
  <2>1. CASE call[c].retry
    BY <1>7, <1>8, <2>1 DEF Unauthorized, Reject
  <2>2. CASE ~call[c].retry
    <3>1. \/ call' = [call EXCEPT ![c] = [NoCall EXCEPT !.at = "queued"]]
          \/ call' = [call EXCEPT ![c] = [NoCall EXCEPT !.at = "waiting", !.retry = TRUE]]
      BY <1>8, <2>2 DEF Unauthorized
    <3>2. /\ [NoCall EXCEPT !.at = "queued"].at # "sent"
          /\ [NoCall EXCEPT !.at = "waiting", !.retry = TRUE].at # "sent"
      BY DEF NoCall
    <3>. QED BY <1>3, <3>1, <3>2
  <2>. QED BY <2>1, <2>2
<1>9. ASSUME NEW c \in AllCalls, Lose(c) PROVE SentAgain'
  BY <1>7, <1>9 DEF Lose, Reject
<1>10. CASE HandleLogout \/ LogoutAnswered
  <2>1. \/ call' = [call EXCEPT ![Logout] = [call[Logout] EXCEPT !.at = "handled"]]
        \/ call' = [call EXCEPT ![Logout] = NoCall]
    BY <1>10 DEF HandleLogout, LogoutAnswered
  <2>2. [call[Logout] EXCEPT !.at = "handled"].at # "sent" /\ NoCall.at # "sent"
    BY <1>1, Values DEF CallType
  <2>. QED BY <1>3, <2>1, <2>2, Values
<1>11. CASE Refreshed
  <2> DEFINE jar == SessionOf(refresh.token, "plain")
  <2>1. jar.access = "plain"
    BY DEF SessionOf
  <2> HIDE DEF jar
  <2>2. \A c \in AllCalls : call'[c] = call[c] \/ call'[c] = Sent(c, jar, c = refresh.by)
    BY <1>11 DEF Refreshed, jar
  <2>3. ASSUME NEW c \in AllCalls \ Calls, call'[c].at = "sent", call'[c].retry
        PROVE  call'[c].ok
    <3>1. CASE call'[c] = call[c]
      BY <2>3, <3>1 DEF SentAgain
    <3>2. CASE call'[c] = Sent(c, jar, c = refresh.by)
      BY <2>1, <2>3, <3>2, SentWell
    <3>. QED BY <2>2, <3>1, <3>2
  <2>. QED BY <2>3 DEF SentAgain
<1>12. CASE RefreshFailed
  BY <1>7, <1>12 DEF RefreshFailed, Reject
<1>13. CASE UNCHANGED call
  BY <1>13 DEF SentAgain
<1>. QED BY <1>2, <1>4, <1>5, <1>6, <1>8, <1>9, <1>10, <1>11, <1>12, <1>13
         DEF Next, vars, ReadToken, Rotate, OthersLogin, OthersLogout, OthersLoggedOut, OthersRotate, OthersRefreshed,
             OthersSwitch, OthersLose, AccessLapses, SessionsEnd

\* The token a session begins with is nobody's yet.
LEMMA Fresh ==
    ASSUME NEW k \in NewTokens
    PROVE  k \in Tokens /\ k # NoToken /\ k # cookie.refresh /\ k # refresh.token /\ k # other.token
BY ConstantsAssumption DEF NewTokens, Held, Tokens, NoToken, ConstantsAssumption

\* A session begins, or ends, while nothing is under way.
LEMMA QuietPeace ==
    ASSUME Quiet, UNCHANGED <<refresh, other>>, call'[Logout].at # "handled",
           cookie'.refresh # NoToken => cookie'.marker /\ token'[cookie'.refresh] = "active"
    PROVE  Peace'
BY Values DEF Quiet, Refreshing, Peace, Active, Leaving

\* Nothing of it changes.
LEMMA SamePeace ==
    ASSUME Peace, UNCHANGED <<token, refresh, other>>, cookie'.refresh = cookie.refresh,
           cookie.marker => cookie'.marker, call'[Logout].at = "handled" <=> call[Logout].at = "handled"
    PROVE  Peace'
BY DEF Refreshing, Peace, Active, Leaving

\* A sign-out that the API has handled is still so, and no other is.
LEMMA SignOutUnderWay ==
    ASSUME Waited, \/ Login \/ Refreshed \/ RefreshFailed
                   \/ \E c \in AllCalls : Ask(c) \/ Answer(c) \/ Unauthorized(c)
    PROVE  call'[Logout].at = "handled" <=> call[Logout].at = "handled"
<1>1. call \in [AllCalls -> CallType] /\ cookie \in CookieType /\ Start # Logout
  BY ConstantsAssumption DEF Waited, TypeOK, CallType, CookieType, ConstantsAssumption
<1>2. ASSUME NEW c \in AllCalls, NEW x, call' = [call EXCEPT ![c] = x],
             c = Logout => call[c].at # "handled" /\ x.at # "handled"
      PROVE  call'[Logout].at = "handled" <=> call[Logout].at = "handled"
  BY <1>1, <1>2, Values
<1>3. CASE Login
  BY <1>1, <1>2, <1>3, Values DEF Login
<1>4. ASSUME NEW c \in AllCalls, Ask(c)
      PROVE  call'[Logout].at = "handled" <=> call[Logout].at = "handled"
  <2>1. call' = [call EXCEPT ![c] = Sent(c, cookie, FALSE)] /\ call[c].at # "handled"
    BY <1>4, Values DEF Ask
  <2>2. Sent(c, cookie, FALSE).at # "handled"
    BY DEF Sent
  <2>. QED BY <1>2, <2>1, <2>2
<1>5. ASSUME NEW c \in AllCalls, Answer(c)
      PROVE  call'[Logout].at = "handled" <=> call[Logout].at = "handled"
  <2>1. c # Logout /\ \/ call' = [call EXCEPT ![Start] = Sent(Start, cookie, FALSE)]
                      \/ call' = [call EXCEPT ![c] = NoCall]
    BY <1>5 DEF Answer, StartAnswered
  <2>. QED BY <1>1, <2>1, Values
<1>6. ASSUME NEW S, \A d \in S : call[d].at # "handled",
             \A d \in AllCalls : IF d \in S THEN call'[d].at # "handled" ELSE call'[d] = call[d]
      PROVE  call'[Logout].at = "handled" <=> call[Logout].at = "handled"
  BY <1>6, Values
<1>7. ASSUME NEW c \in AllCalls, Unauthorized(c)
      PROVE  call'[Logout].at = "handled" <=> call[Logout].at = "handled"
  <2>1. \/ \A d \in AllCalls : call'[d] = IF d \in {c} THEN NoCall ELSE call[d]
        \/ call' = [call EXCEPT ![c] = [NoCall EXCEPT !.at = "queued"]]
        \/ call' = [call EXCEPT ![c] = [NoCall EXCEPT !.at = "waiting", !.retry = TRUE]]
    BY <1>7 DEF Unauthorized, Reject
  <2>2. /\ [NoCall EXCEPT !.at = "queued"].at # "handled"
        /\ [NoCall EXCEPT !.at = "waiting", !.retry = TRUE].at # "handled"
        /\ call[c].at # "handled"
    BY <1>7 DEF Unauthorized, NoCall
  <2>. QED BY <1>2, <1>6, <2>1, <2>2, Values
<1>8. ASSUME Refreshing
      PROVE  \A d \in page.queue \cup {refresh.by} : call[d].at # "handled"
  <2>1. \A d \in page.queue : call[d].at = "queued"
    BY DEF Waited, NobodyForgotten
  <2>2. call[refresh.by].at = "waiting"
    BY <1>8 DEF Waited, NobodyForgotten
  <2>. QED BY <2>1, <2>2
<1>9. CASE Refreshed
  <2> DEFINE jar == SessionOf(refresh.token, "plain")
  <2> HIDE DEF jar
  <2>1. \A d \in AllCalls : call'[d] = IF d \in page.queue \cup {refresh.by}
                                       THEN Sent(d, jar, d = refresh.by) ELSE call[d]
    BY <1>9 DEF Refreshed, jar
  <2>2. \A d \in AllCalls : Sent(d, jar, d = refresh.by).at # "handled"
    BY DEF Sent
  <2>3. Refreshing
    BY <1>9 DEF Refreshed, Refreshing
  <2>4. \A d \in AllCalls : IF d \in page.queue \cup {refresh.by} THEN call'[d].at # "handled"
                                                               ELSE call'[d] = call[d]
    BY <2>1, <2>2
  <2>. QED BY <1>6, <1>8, <2>3, <2>4
<1>10. CASE RefreshFailed
  <2>1. \A d \in AllCalls : call'[d] = IF d \in page.queue \cup {refresh.by} THEN NoCall ELSE call[d]
    BY <1>10 DEF RefreshFailed, Reject
  <2>2. Refreshing
    BY <1>10 DEF RefreshFailed
  <2>. QED BY <1>6, <1>8, <2>1, <2>2, Values
<1>. QED BY <1>3, <1>4, <1>5, <1>7, <1>9, <1>10

LEMMA PeaceKept == ASSUME Kept, [Next]_vars, calm' PROVE Peace'
<1>0. /\ TypeOK /\ NobodyForgotten /\ StartOver /\ cookie \in CookieType
      /\ token \in [Tokens -> {"gone", "active", "revoked"}]
      /\ call \in [AllCalls -> CallType]
  BY DEF Kept, Waited, TypeOK, CookieType, CallType
<1>p. calm => Peace
  BY DEF Kept
<1>1. CASE Load
  <2>1. /\ Peace /\ ~Refreshing /\ refresh'.at = "none" /\ UNCHANGED <<token, cookie, other>>
        /\ call[Logout].at # "handled"
    BY <1>1, <1>p, Values DEF Load, NoRefresh, InFlight
  <2>2. call'[Logout] = NoCall \/ call'[Logout] = Sent(Start, cookie, FALSE)
    BY <1>1, Values DEF Load
  <2>3. call'[Logout].at # "handled"
    BY <1>0, <2>2, Values, SentType
  <2>. QED BY <2>1, <2>3 DEF Peace, Active, Refreshing, Leaving
<1>2. CASE Login \/ OthersLogin
  <2>1. PICK k \in NewTokens, access \in Access :
               token' = [token EXCEPT ![k] = "active"] /\ cookie' = SessionOf(k, access)
    BY <1>2 DEF Login, OthersLogin, Access
  <2>2. cookie'.refresh = k /\ cookie'.marker /\ token'[k] = "active"
    BY <1>0, <2>1, Fresh DEF SessionOf
  <2>3. Quiet /\ UNCHANGED <<refresh, other>>
    BY <1>2 DEF Login, OthersLogin
  <2>4. call'[Logout].at # "handled"
    BY <1>0, <1>2, <2>3, SignOutUnderWay DEF Kept, Quiet, Leaving, OthersLogin
  <2>. QED BY <2>2, <2>3, <2>4, QuietPeace
<1>3. CASE LogoutAnswered \/ OthersLoggedOut
  <2>1. cookie'.refresh = NoToken /\ Leaving /\ UNCHANGED <<refresh, token>>
    BY <1>3, Values DEF LogoutAnswered, OthersLoggedOut, Leaving
  <2>2. ~Refreshing /\ Peace
    BY <1>3, <1>p, <2>1 DEF Peace, LogoutAnswered, OthersLoggedOut
  <2>3. other'.at = "none" /\ call'[Logout].at # "handled"
    BY <1>0, <1>3, <2>2, Values DEF LogoutAnswered, OthersLoggedOut, Peace
  <2>. QED BY <2>1, <2>2, <2>3 DEF Peace, Refreshing, Leaving
<1>17. CASE HandleLogout
  <2>1. Peace /\ Quiet /\ call' = [call EXCEPT ![Logout].at = "handled"] /\ UNCHANGED <<cookie, refresh, other>>
    BY <1>17, <1>p DEF HandleLogout
  <2>2. call'[Logout].at = "handled" /\ other.at = "none" /\ refresh.at = "none"
    BY <1>0, <2>1, Values DEF CallType, Quiet, Refreshing
  <2>. QED BY <2>1, <2>2 DEF Peace, Refreshing, Leaving
<1>18. CASE OthersLogout
  <2>1. /\ Peace /\ Quiet /\ other' = [NoAnswer EXCEPT !.at = "handled"]
        /\ UNCHANGED <<cookie, call, refresh>>
    BY <1>18, <1>p DEF OthersLogout
  <2>2. other'.at = "handled" /\ call'[Logout].at # "handled" /\ refresh.at = "none"
    BY <2>1 DEF NoAnswer, Quiet, Refreshing, Leaving
  <2>. QED BY <2>1, <2>2 DEF Peace, Refreshing, Leaving
<1>4. ASSUME NEW c \in AllCalls, Ask(c) PROVE Peace'
  BY <1>0, <1>p, <1>4, SamePeace, SignOutUnderWay DEF Ask, Kept
<1>5. ASSUME NEW c \in AllCalls, Answer(c) PROVE Peace'
  <2>1. cookie'.refresh = cookie.refresh /\ (cookie.marker => cookie'.marker)
    BY <1>0, <1>5 DEF Answer, StartAnswered, CookieType
  <2>. QED BY <1>p, <1>5, <2>1, SamePeace, SignOutUnderWay DEF Answer, Kept
<1>6. ASSUME NEW c \in AllCalls, Unauthorized(c) PROVE Peace'
  <2>0. call'[Logout].at = "handled" <=> call[Logout].at = "handled"
    BY <1>6, SignOutUnderWay DEF Kept
  <2>1. CASE call[c].retry
    <3>1. c \in Calls /\ c # Start /\ c # Logout
      BY <1>6, <2>1, ConstantsAssumption DEF Unauthorized, Kept, SentAgain, ConstantsAssumption
    <3>2. Reject({c}, FALSE) /\ UNCHANGED <<token, refresh, calm, other>>
      BY <1>6, <2>1 DEF Unauthorized
    <3>3. cookie' = [cookie EXCEPT !.marker = @ /\ TRUE]
      BY <3>1, <3>2 DEF Reject
    <3>4. cookie'.refresh = cookie.refresh /\ (cookie.marker => cookie'.marker)
      BY <1>0, <3>3 DEF CookieType
    <3>. QED BY <1>p, <2>0, <3>2, <3>4, SamePeace
  <2>2. CASE ~call[c].retry /\ page.isRefreshing
    BY <1>p, <1>6, <2>0, <2>2, SamePeace DEF Unauthorized
  <2>3. CASE ~call[c].retry /\ ~page.isRefreshing
    <3>1. /\ refresh' = [at |-> "sent", token |-> cookie.refresh, by |-> c]
          /\ calm /\ Quiet /\ UNCHANGED <<token, cookie, other>>
      BY <1>6, <2>3 DEF Unauthorized
    <3>2. refresh'.at = "sent" /\ refresh'.token = cookie.refresh /\ other.at = "none" /\ refresh.at = "none"
      BY <3>1, Values DEF Quiet, Refreshing
    <3>. QED BY <1>p, <2>0, <3>1, <3>2 DEF Peace, Active, Refreshing, Quiet, Leaving
  <2>. QED BY <2>1, <2>2, <2>3
<1>7. ASSUME NEW c \in AllCalls, Lose(c) PROVE Peace'
  BY <1>7 DEF Lose
<1>8. CASE ReadToken
  <2>1. /\ refresh.at = "sent" /\ UNCHANGED <<cookie, call, other>> /\ Peace /\ other.at = "none"
        /\ refresh.token = cookie.refresh /\ ~Leaving
    BY <1>p, <1>8 DEF ReadToken, Peace, Refreshing
  <2>2. CASE refresh.token = NoToken
    <3>1. UNCHANGED token /\ refresh' = [refresh EXCEPT !.at = "refused"]
      BY <1>8, <2>2 DEF ReadToken
    <3>2. refresh'.at = "refused" /\ refresh'.token = NoToken
      BY <1>0, <2>2, <3>1 DEF TypeOK
    <3>. QED BY <2>1, <2>2, <3>1, <3>2 DEF Peace, Active, Refreshing, Leaving
  <2>3. CASE refresh.token # NoToken
    <3>1. token[refresh.token] = "active"
      BY <2>1, <2>3 DEF Peace, Active
    <3>2. UNCHANGED token /\ refresh' = [refresh EXCEPT !.at = "read"]
      BY <1>8, <2>3, <3>1 DEF ReadToken
    <3>3. refresh'.at = "read" /\ refresh'.token = refresh.token
      BY <1>0, <3>2 DEF TypeOK
    <3>. QED BY <2>1, <2>3, <3>1, <3>2, <3>3 DEF Peace, Active, Refreshing, Leaving
  <2>. QED BY <2>2, <2>3
<1>9. CASE Rotate
  <2>1. PICK k \in NewTokens :
              /\ token' = [token EXCEPT ![refresh.token] = "revoked", ![k] = "active"]
              /\ refresh' = [refresh EXCEPT !.at = "granted", !.token = k]
    BY <1>9 DEF Rotate
  <2>2. /\ refresh.at = "read" /\ UNCHANGED <<cookie, call, other>> /\ Peace /\ other.at = "none"
        /\ refresh.token = cookie.refresh /\ cookie.refresh # NoToken /\ ~Leaving
    BY <1>p, <1>9 DEF Rotate, Peace, Refreshing
  <2>3. refresh'.at = "granted" /\ refresh'.token = k
    BY <1>0, <2>1 DEF TypeOK
  <2>4. k # NoToken /\ token'[k] = "active"
    BY <1>0, <2>1, Fresh
  <2>. QED BY <2>2, <2>3, <2>4 DEF Peace, Active, Refreshing, Leaving
<1>10. CASE Refreshed
  <2>1. /\ refresh.at = "granted" /\ cookie' = SessionOf(refresh.token, "plain") /\ refresh' = NoRefresh
        /\ UNCHANGED <<token, other>> /\ Peace
    BY <1>p, <1>10 DEF Refreshed
  <2>2. cookie'.refresh = refresh.token /\ cookie'.marker /\ refresh'.at = "none"
    BY <2>1 DEF SessionOf, NoRefresh
  <2>3. call'[Logout].at = "handled" <=> call[Logout].at = "handled"
    BY <1>10, SignOutUnderWay DEF Kept
  <2>. QED BY <2>1, <2>2, <2>3 DEF Peace, Active, Refreshing, Leaving
<1>11. CASE RefreshFailed
  <2>1. /\ Peace /\ refresh.at = "refused" /\ refresh' = NoRefresh /\ UNCHANGED <<token, other>>
        /\ Reject(page.queue \cup {refresh.by}, TRUE)
    BY <1>p, <1>11 DEF RefreshFailed
  <2>2. cookie.refresh = NoToken /\ other.at = "none" /\ ~Leaving
    BY <2>1 DEF Peace, Refreshing
  <2>3. cookie'.refresh = cookie.refresh
    BY <1>0, <2>1 DEF Reject, CookieType
  <2>4. refresh'.at = "none" /\ other'.at = "none"
    BY <2>1, <2>2 DEF NoRefresh
  <2>. QED BY <2>2, <2>3, <2>4 DEF Peace, Active, Refreshing
<1>12. CASE OthersRotate
  <2>1. PICK k \in NewTokens :
              /\ token' = [token EXCEPT ![cookie.refresh] = "revoked", ![k] = "active"]
              /\ other' = [at |-> "granted", token |-> k]
    BY <1>12 DEF OthersRotate
  <2>2. Peace /\ Quiet /\ cookie.refresh # NoToken /\ UNCHANGED <<cookie, call, refresh>>
    BY <1>p, <1>12 DEF OthersRotate
  <2>3. k # NoToken /\ token'[k] = "active"
    BY <1>0, <2>1, Fresh
  <2>4. other'.at = "granted" /\ other'.token = k
    BY <2>1
  <2>5. refresh.at = "none" /\ ~Leaving
    BY <2>2 DEF Quiet, Refreshing
  <2>. QED BY <2>2, <2>3, <2>4, <2>5 DEF Peace, Active, Refreshing, Leaving
<1>13. CASE OthersRefreshed
  <2>1. /\ cookie' = SessionOf(other.token, "plain") /\ other.at = "granted" /\ other' = NoAnswer
        /\ UNCHANGED <<token, call, refresh>> /\ Peace
    BY <1>p, <1>13 DEF OthersRefreshed
  <2>2. cookie'.refresh = other.token /\ cookie'.marker
    BY <2>1 DEF SessionOf
  <2>3. other'.at = "none"
    BY <2>1, Values
  <2>. QED BY <2>1, <2>2, <2>3 DEF Peace, Active, Refreshing, Leaving
<1>14. CASE OthersSwitch \/ AccessLapses
  BY <1>0, <1>p, <1>14, SamePeace DEF OthersSwitch, AccessLapses, CookieType
<1>15. CASE OthersLose \/ SessionsEnd
  BY <1>15 DEF OthersLose, SessionsEnd
<1>16. CASE UNCHANGED vars
  BY <1>p, <1>16, SamePeace DEF vars
<1>. QED BY <1>1, <1>2, <1>3, <1>4, <1>5, <1>6, <1>7, <1>8, <1>9, <1>10, <1>11, <1>12, <1>13, <1>14,
            <1>15, <1>16, <1>17, <1>18 DEF Next

LEMMA InitKept == Init => Kept
<1>1. Init => SentAgain
  BY DEF Init, SentAgain, NoCall
<1>2. Init => Peace
  BY Values DEF Init, Peace, SignedOut, NoRefresh, Refreshing, NoAnswer, Leaving, NoCall
<1>. QED BY <1>1, <1>2, InitWaited DEF Kept

LEMMA NextKept == Kept /\ [Next]_vars => Kept'
BY NextWaited, SentAgainKept, PeaceKept DEF Kept

\* Nobody is signed out who did not sign out: as long as no answer is lost, no token lapses
\* and tabs do not refresh at the same moment, the browser's token is good or about to be
\* replaced, however many tabs take turns and whatever the calls of a page.
THEOREM NobodySignedOut == Spec => []StaysSignedIn
<1>1. Kept => StaysSignedIn
  BY DEF Kept, Peace, Active, StaysSignedIn, Leaving
<1>. QED BY InitKept, NextKept, <1>1, PTL DEF Spec

-----------------------------------------------------------------------------
(* Signed out.  No condition of peace: answers get lost, tokens lapse, tabs *)
(* refresh at the same moment.                                              *)

\* No token becomes good again.
LEMMA NoneRevived ==
    ASSUME NEW K, token \in [Tokens -> {"gone", "active", "revoked"}],
           token' = Revoked(K) \/ UNCHANGED token
    PROVE  \A k \in Tokens : Active(k)' => Active(k)
BY DEF Active, Revoked

LEMMA EndedStands ==
    ASSUME Waited, Ended, [Next]_vars, ~(Login \/ OthersLogin)
    PROVE  Ended'
<1>0. /\ TypeOK /\ cookie \in CookieType /\ token \in [Tokens -> {"gone", "active", "revoked"}]
      /\ cookie.refresh \in Tokens \cup {NoToken} /\ refresh.token \in Tokens \cup {NoToken}
      /\ NoToken \notin Tokens
  BY DEF Waited, TypeOK, CookieType, Tokens, NoToken
<1>1. refresh.at \notin {"read", "granted"} /\ other.at # "granted"
  BY DEF Ended
<1>2. ASSUME UNCHANGED <<token, refresh>>, other' = other \/ other' = NoAnswer,
             cookie'.refresh = cookie.refresh \/ cookie'.refresh = NoToken
      PROVE  Ended'
  BY <1>2, Values DEF Ended, Active
<1>3. CASE Load
  BY <1>3 DEF Load, NoRefresh, Ended, Active
<1>4. ASSUME NEW c \in AllCalls, Ask(c) \/ Answer(c) PROVE Ended'
  <2>1. cookie'.refresh = cookie.refresh
    BY <1>0, <1>4 DEF Ask, Answer, StartAnswered, CookieType
  <2>. QED BY <1>2, <1>4, <2>1 DEF Ask, Answer
<1>5. ASSUME NEW c \in AllCalls, Unauthorized(c) PROVE Ended'
  <2>1. cookie'.refresh = cookie.refresh /\ UNCHANGED <<token, other>>
    BY <1>0, <1>5 DEF Unauthorized, Reject, CookieType
  <2>2. UNCHANGED refresh \/ refresh' = [at |-> "sent", token |-> cookie.refresh, by |-> c]
    BY <1>5 DEF Unauthorized
  <2>. QED BY <2>1, <2>2 DEF Ended, Active
<1>6. ASSUME NEW c \in AllCalls, Lose(c) PROVE Ended'
  <2>1. cookie'.refresh = cookie.refresh
    BY <1>0, <1>6 DEF Lose, Reject, CookieType
  <2>. QED BY <1>2, <1>6, <2>1 DEF Lose
<1>7. CASE HandleLogout \/ OthersLogout \/ SessionsEnd
  <2>1. UNCHANGED <<cookie, refresh>> /\ other'.at # "granted"
    BY <1>1, <1>7 DEF HandleLogout, OthersLogout, SessionsEnd, NoAnswer
  <2>2. \/ \E K : token' = Revoked(K)
        \/ \E k \in Tokens : token' = [token EXCEPT ![k] = "gone"]
    BY <1>7 DEF HandleLogout, OthersLogout, SessionsEnd
  <2>3. \A k \in Tokens : Active(k)' => Active(k)
    BY <1>0, <2>2, NoneRevived DEF Active
  <2>4. ~Active(cookie.refresh)'
    BY <1>0, <2>1, <2>3 DEF Ended, Active
  <2>5. refresh.at = "sent" => ~Active(refresh.token)'
    BY <1>0, <2>1, <2>3 DEF Ended, Active
  <2>. QED BY <1>1, <2>1, <2>4, <2>5 DEF Ended
<1>8. CASE LogoutAnswered \/ OthersLoggedOut
  BY <1>2, <1>8, Values DEF LogoutAnswered, OthersLoggedOut
<1>9. CASE ReadToken
  <2>1. refresh.at = "sent" /\ ~Active(refresh.token)
    BY <1>9 DEF ReadToken, Ended
  <2>2. /\ refresh' = [refresh EXCEPT !.at = "refused"] /\ UNCHANGED <<cookie, other>>
        /\ UNCHANGED token \/ token' = Revoked(Tokens)
    BY <1>9, <2>1 DEF ReadToken, Active
  <2>3. refresh'.at = "refused"
    BY <1>0, <2>2 DEF TypeOK
  <2>4. \A k \in Tokens : Active(k)' => Active(k)
    BY <1>0, <2>2, NoneRevived
  <2>5. ~Active(cookie.refresh)'
    BY <1>0, <2>2, <2>4 DEF Ended, Active
  <2>. QED BY <1>1, <2>2, <2>3, <2>5 DEF Ended
<1>10. CASE Rotate \/ Refreshed \/ OthersRefreshed
  BY <1>1, <1>10 DEF Rotate, Refreshed, OthersRefreshed
<1>11. CASE RefreshFailed
  <2>1. cookie'.refresh = cookie.refresh /\ UNCHANGED <<token, other>> /\ refresh' = NoRefresh
    BY <1>0, <1>11 DEF RefreshFailed, Reject, CookieType
  <2>. QED BY <2>1 DEF Ended, Active, NoRefresh
<1>12. CASE OthersRotate
  BY <1>12 DEF OthersRotate, Ended, Active
<1>13. CASE OthersSwitch \/ OthersLose \/ AccessLapses
  <2>1. cookie'.refresh = cookie.refresh
    BY <1>0, <1>13 DEF OthersSwitch, OthersLose, AccessLapses, CookieType
  <2>. QED BY <1>2, <1>13, <2>1 DEF OthersSwitch, OthersLose, AccessLapses
<1>14. CASE UNCHANGED vars
  BY <1>2, <1>14 DEF vars
<1>. QED BY <1>3, <1>4, <1>5, <1>6, <1>7, <1>8, <1>9, <1>10, <1>11, <1>12, <1>13, <1>14 DEF Next

LEMMA SignOutEnds == ASSUME Waited, SignsOut PROVE Ended'
<1>1. /\ token' = Revoked({cookie.refresh}) /\ UNCHANGED <<cookie, refresh>> /\ other'.at # "granted"
  BY DEF SignsOut, OthersLogout, HandleLogout, NoAnswer
<1>2. ~Active(cookie.refresh)'
  <2>1. cookie.refresh \in Tokens \cup {NoToken}
    BY DEF Waited, TypeOK
  <2>. QED BY <1>1, <2>1 DEF Active, Revoked
<1>3. refresh.at \notin {"read", "granted"} /\ (refresh.at = "sent" => refresh.token = cookie.refresh)
  BY DEF SignsOut
<1>. QED BY <1>1, <1>2, <1>3 DEF Ended, Active

\* A sign-out that the API handles while no refresh has read the browser's token stands,
\* with no condition of peace: a refresh on its way is refused, here and in other tabs, and
\* whatever is lost or lapses after it, only a sign-in gives the browser a session again.
THEOREM SignedOutForGood == Spec => SignOutStands
<1>1. Waited /\ [Next]_vars =>
        [/\ SignsOut => Ended'
         /\ Ended /\ ~(Login \/ OthersLogin) => Ended']_vars
  BY SignOutEnds, EndedStands
<1>. QED BY InitWaited, NextWaited, <1>1, PTL DEF Spec, SignOutStands
=============================================================================
