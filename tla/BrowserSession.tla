--------------------------- MODULE BrowserSession ---------------------------
(* The session of the browser: the cookies the routes under app/api/auth and   *)
(* the proxies set and delete, authenticatedFetch() in the tabs, the component *)
(* AuthRefresher, and Keycloak's single sign-on session behind them. A request *)
(* is answered with the cookies it was sent with; its own cookies count when   *)
(* the answer arrives, whatever happened in between.                           *)
EXTENDS PageBounds, Sequences, SequencesExt

VARIABLES sso,      \* Keycloak's session of this browser, 0 if there is none
          logins,   \* how many sessions there were
          jar,      \* the cookies: of which session, and how old the access token is
          oauth,    \* the cookies oauth_state and pkce_verifier: a sign-in, or 0
          flows,    \* sign-ins at Keycloak, and how many there were
          calls,    \* what each caller waits for, and the answer on its way
          queue,    \* the web lock "penflow-auth-refresh": its holder and the others
          leaving,  \* the logout form is submitted
          ended,    \* a session has ended, or the user signed out
          out,      \* signed out and not in again
          late,     \* a new session was on its way to the browser when it signed out
          slept     \* a renewed access token expired before it was used

bvars == <<sso, logins, jar, oauth, flows, calls, queue, leaving, ended, out, late, slept,
           clicks, faults>>
keycloak == <<sso, logins>>
signIn   == <<oauth, flows>>
history  == <<ended, out, late, slept>>

Tabs == {"tab", "tab2"}
Callers == Tabs \union {"refresher"}

NoCookies == [session |-> 0, access |-> "gone"]
Idle      == [phase |-> "idle", ok |-> TRUE, cookies |-> "keep", n |-> 0]

TypeOK ==
  /\ sso \in 0..logins /\ jar.session \in 0..logins
  /\ jar.access \in {"fresh", "due", "gone"}
  /\ oauth \in 0..flows.count /\ flows.open \subseteq 1..flows.count
  /\ \A c \in Callers :
       /\ calls[c].phase \in
            {"idle", "first", "waiting", "again", "refresh", "renewed", "third"}
       /\ calls[c].cookies \in {"keep", "set", "delete"}
       /\ calls[c].phase \in {"waiting", "again", "refresh", "renewed", "third"}
            <=> c \in ToSet(queue)

Init ==
  /\ sso = 0 /\ logins = 0 /\ jar = NoCookies /\ oauth = 0
  /\ flows = [open |-> {}, count |-> 0]
  /\ calls = [c \in Callers |-> Idle] /\ queue = <<>> /\ leaving = FALSE
  /\ ended = FALSE /\ out = FALSE /\ late = FALSE /\ slept = FALSE
  /\ clicks = 0 /\ faults = 0

-----------------------------------------------------------------------------
(* The server side: what a request is answered, and with which cookies.      *)

setAuthCookies(n) == [session |-> n, access |-> "fresh"]

Answer(ok, cookies) == [ok |-> ok, cookies |-> cookies, n |-> jar.session]

\* Keycloak takes the refresh token of the session it still has.
refreshAccessToken == jar.session # 0 /\ jar.session = sso

\* /api/auth/refresh: without a new token every cookie is deleted.
RefreshRoute == IF refreshAccessToken THEN Answer(TRUE, "set") ELSE Answer(FALSE, "delete")

\* A slip: without an access token there is nothing to go on with.
ProxyDeletes ==
  CASE jar.session = 0      -> Answer(FALSE, "keep")
    [] jar.access # "gone"  -> Answer(TRUE, "keep")
    [] OTHER                -> Answer(FALSE, "delete")

\* A proxy that renews the session by itself when the access token is gone,
\* without the lock the browser uses.
authenticatedBackendRequest ==
  CASE jar.session = 0      -> Answer(FALSE, "keep")
    [] jar.access # "gone"  -> Answer(TRUE, "keep")
    [] OTHER                -> RefreshRoute

\* A proxy that does not.
proxyToServiceDeliveryApi ==
  Answer(jar.session # 0 /\ jar.access # "gone", "keep")

\* A guest is answered by the token of the scan, whatever the session is.
fetchPublicScansApi == Answer(TRUE, "keep")

\* That token comes before the session.
proxyToScansApi(guest) == IF guest THEN fetchPublicScansApi ELSE authenticatedBackendRequest

Proxies == {proxyToServiceDeliveryApi} \union {proxyToScansApi(guest) : guest \in BOOLEAN}

-----------------------------------------------------------------------------
(* The browser.                                                              *)

Send(c, phase, answer) ==
  calls' = [calls EXCEPT ![c] = [phase |-> phase, ok |-> answer.ok,
                                 cookies |-> answer.cookies, n |-> answer.n]]

Arrives(c) ==
  jar' = CASE calls[c].cookies = "keep"   -> jar
           [] calls[c].cookies = "set"    -> setAuthCookies(calls[c].n)
           [] calls[c].cookies = "delete" -> NoCookies

Done(c) == calls' = [calls EXCEPT ![c] = Idle]

\* A slip: the lock is not given back on the way out.
LogoutUnderLock(c) == Done(c) /\ leaving' = TRUE /\ UNCHANGED queue

\* The form is submitted and the lock given back.
submitLogout(c) == Done(c) /\ leaving' = TRUE /\ queue' = Tail(queue)

Release(c) == Done(c) /\ queue' = Tail(queue) /\ UNCHANGED leaving

\* Called by pages of a signed-in user, perhaps after another tab signed out.
authenticatedFetch(c) ==
  /\ c \in Tabs /\ logins # 0 /\ calls[c].phase = "idle"
  /\ \E answer \in Proxies : Send(c, "first", answer)
  /\ UNCHANGED <<keycloak, jar, signIn, queue, leaving, history, clicks, faults>>

\* 401: try again under the lock.
FirstArrives(c) ==
  /\ calls[c].phase = "first"
  /\ Arrives(c)
  /\ IF calls[c].ok THEN Done(c) /\ UNCHANGED queue
     ELSE /\ calls' = [calls EXCEPT ![c] = [Idle EXCEPT !.phase = "waiting"]]
          /\ queue' = Append(queue, c)
  /\ UNCHANGED <<keycloak, signIn, leaving, history, clicks, faults>>

Locked(c) == queue # <<>> /\ Head(queue) = c

\* Perhaps somebody else has renewed the session while this call waited.
Retry(c) ==
  /\ c \in Tabs /\ Locked(c) /\ calls[c].phase = "waiting"
  /\ \E answer \in Proxies : Send(c, "again", answer)
  /\ UNCHANGED <<keycloak, jar, signIn, queue, leaving, history, clicks, faults>>

\* The cookies of the answer are in the jar before the next request is sent.
RetryArrives(c) ==
  /\ calls[c].phase = "again"
  /\ IF calls[c].ok \/ calls[c].cookies # "keep"
       THEN /\ Arrives(c)
            /\ IF calls[c].ok THEN Release(c)
               ELSE Send(c, "refresh", [ok |-> FALSE, cookies |-> "delete", n |-> 0])
                    /\ UNCHANGED <<queue, leaving>>
       ELSE Send(c, "refresh", RefreshRoute) /\ UNCHANGED <<jar, queue, leaving>>
  /\ UNCHANGED <<keycloak, signIn, history, clicks, faults>>

RefreshArrives(c) ==
  /\ calls[c].phase = "refresh"
  /\ Arrives(c)
  /\ CASE ~calls[c].ok                      -> submitLogout(c)
       [] calls[c].ok /\ c = "refresher"    -> Release(c)
       [] OTHER -> /\ calls' = [calls EXCEPT ![c] = [Idle EXCEPT !.phase = "renewed"]]
                   /\ UNCHANGED <<queue, leaving>>
  /\ UNCHANGED <<keycloak, signIn, history, clicks, faults>>

\* The cookies may have changed once more: another tab signed out, or time passed.
Third(c) ==
  /\ calls[c].phase = "renewed"
  /\ \E answer \in Proxies : Send(c, "third", answer)
  /\ UNCHANGED <<keycloak, jar, signIn, queue, leaving, history, clicks, faults>>

ThirdArrives(c) ==
  /\ calls[c].phase = "third"
  /\ Arrives(c)
  /\ IF calls[c].ok THEN Release(c) ELSE submitLogout(c)
  /\ UNCHANGED <<keycloak, signIn, history, clicks, faults>>

\* A lost answer: the first one is the caller's affair, under the lock it is
\* the end of the session.
Lost(c) ==
  /\ calls[c].phase \in {"first", "again", "refresh", "third"}
  /\ Fault
  /\ IF calls[c].phase = "first" THEN Done(c) /\ UNCHANGED <<queue, leaving>> ELSE submitLogout(c)
  /\ UNCHANGED <<keycloak, jar, signIn, history, clicks>>

\* A minute before the access token expires, or later if the browser slept.
TimerFires ==
  /\ calls["refresher"].phase = "idle" /\ jar.session # 0 /\ jar.access # "fresh"
  /\ calls' = [calls EXCEPT !["refresher"].phase = "waiting"]
  /\ queue' = Append(queue, "refresher")
  /\ UNCHANGED <<keycloak, jar, signIn, leaving, history, clicks, faults>>

\* Under the lock: signed out, or renewed by another tab meanwhile?
AuthRefresher ==
  /\ Locked("refresher") /\ calls["refresher"].phase = "waiting"
  /\ IF jar.session = 0 \/ jar.access = "fresh" THEN Release("refresher")
     ELSE Send("refresher", "refresh", RefreshRoute) /\ UNCHANGED <<queue, leaving>>
  /\ UNCHANGED <<keycloak, jar, signIn, history, clicks, faults>>

-----------------------------------------------------------------------------
(* Signing out and in.                                                       *)

SignOut ==
  /\ Click
  /\ leaving' = TRUE /\ ended' = TRUE
  /\ UNCHANGED <<keycloak, jar, signIn, calls, queue, out, late, slept, faults>>

\* The id token tells Keycloak whose session to end; without it, it asks.
LogoutRoute ==
  /\ leaving
  /\ leaving' = FALSE
  /\ jar' = NoCookies
  /\ sso' \in IF jar.session # 0 /\ jar.session = sso THEN {0} ELSE {0, sso}
  /\ ended' = TRUE /\ out' = TRUE
  /\ late' = (\E c \in Callers : calls[c].cookies = "set")
  /\ UNCHANGED <<logins, signIn, calls, queue, slept, clicks, faults>>

\* By a link, or because a page found no access token.
LoginRoute ==
  /\ Click
  /\ flows' = [open |-> flows.open \union {flows.count + 1}, count |-> flows.count + 1]
  /\ oauth' = flows.count + 1
  /\ UNCHANGED <<keycloak, jar, calls, queue, leaving, history, faults>>

\* Keycloak knows the browser it has a session with, and asks any other.
exchangeAuthCode ==
  /\ logins' = IF sso = 0 THEN logins + 1 ELSE logins
  /\ sso' = IF sso = 0 THEN logins + 1 ELSE sso

\* Keycloak sends the browser back; only the newest sign-in has its cookies.
CallbackRoute(f) ==
  /\ f \in flows.open
  /\ flows' = [flows EXCEPT !.open = @ \ {f}]
  /\ IF oauth = f
       THEN /\ oauth' = 0
            /\ exchangeAuthCode
            /\ jar' = setAuthCookies(sso')
            /\ out' = FALSE
       ELSE UNCHANGED <<oauth, keycloak, jar, out>>
  /\ UNCHANGED <<calls, queue, leaving, ended, late, slept, clicks, faults>>

CallbackFails(f) ==
  /\ f \in flows.open /\ oauth = f
  /\ Fault
  /\ flows' = [flows EXCEPT !.open = @ \ {f}]
  /\ oauth' = 0 /\ jar' = NoCookies
  /\ UNCHANGED <<keycloak, calls, queue, leaving, history, clicks>>

-----------------------------------------------------------------------------
(* Time.                                                                     *)

AccessTokenAges ==
  /\ jar.session # 0 /\ jar.access # "gone"
  /\ jar' = [jar EXCEPT !.access = IF @ = "fresh" THEN "due" ELSE "gone"]
  /\ slept' = (slept \/ (jar.access = "due" /\ \E c \in Callers : calls[c].phase = "renewed"))
  /\ UNCHANGED <<keycloak, signIn, calls, queue, leaving, ended, out, late, clicks, faults>>

SessionEnds ==
  /\ sso # 0
  /\ sso' = 0 /\ ended' = TRUE
  /\ UNCHANGED <<logins, jar, signIn, calls, queue, leaving, out, late, slept, clicks, faults>>

Answered(c) ==
  \/ FirstArrives(c) \/ Retry(c) \/ RetryArrives(c) \/ RefreshArrives(c)
  \/ Third(c) \/ ThirdArrives(c)

Next ==
  \/ \E c \in Callers : authenticatedFetch(c) \/ Answered(c) \/ Lost(c)
  \/ TimerFires \/ AuthRefresher
  \/ SignOut \/ LogoutRoute \/ LoginRoute
  \/ \E f \in flows.open : CallbackRoute(f) \/ CallbackFails(f)
  \/ AccessTokenAges \/ SessionEnds

\* Answers arrive, locks are granted in turn and timers fire.
Fairness ==
  /\ \A c \in Callers : WF_bvars(Answered(c))
  /\ WF_bvars(TimerFires) /\ WF_bvars(AuthRefresher) /\ WF_bvars(LogoutRoute)

Spec == Init /\ [][Next]_bvars
FairSpec == Spec /\ Fairness

-----------------------------------------------------------------------------
\* Nobody is signed out by the renewals themselves: as long as Keycloak keeps
\* the session, no answer is lost and the user does not sign out, the cookies
\* stay, however the proxies, the tabs and the refresher renew them side by side, and
\* no call submits the logout form but one whose renewed token expired before its third
\* attempt.
SignedInIsKept == ~ended /\ faults = 0 => jar.session = sso /\ (leaving => slept)

\* Signed out, the browser does not get a session back by itself, except from
\* an answer that was on its way to it at that very moment.
SignedOutStays == out /\ ~late => jar.session = 0

\* No call waits for the lock for ever: whoever holds it gives it back, on the
\* way to the logout form as well.
Waits(c) == calls[c].phase = "waiting"
Settled(c) == calls[c].phase = "idle"
EveryCallSettles == \A c \in Callers : Waits(c) ~> Settled(c)

\* While the session lives, an access token that has expired is replaced, also
\* when the timer fires too late.
AccessExpired == jar.session # 0 /\ jar.access = "gone"
Renewed == jar.access = "fresh" \/ ended \/ faults > 0
AccessIsRenewed == AccessExpired ~> Renewed

-----------------------------------------------------------------------------
(* Why the cookies follow the session: what holds at every step.             *)

Phases == {"idle", "first", "waiting", "again", "refresh", "renewed", "third"}
Calls == [phase : Phases, ok : BOOLEAN, cookies : {"keep", "set", "delete"}, n : Nat]

Typed ==
  /\ sso \in Nat /\ logins \in Nat /\ faults \in Nat
  /\ jar \in [session : Nat, access : {"fresh", "due", "gone"}]
  /\ calls \in [Callers -> Calls]
  /\ leaving \in BOOLEAN /\ ended \in BOOLEAN /\ out \in BOOLEAN /\ late \in BOOLEAN
  /\ slept \in BOOLEAN

\* Until something ends the session no call is on its way that was refused for another
\* reason than its age, and none with the cookies of another session.
CallsKeepTheSession ==
  ~ended /\ faults = 0 =>
    /\ jar.session = sso /\ ~out
    /\ leaving => slept
    /\ logins # 0 => sso # 0
    /\ \A c \in Callers :
         /\ sso = 0 => calls[c] = Idle
         /\ calls[c].cookies # "delete"
         /\ calls[c].cookies = "set" => calls[c].n = sso /\ calls[c].ok
         /\ calls[c].phase = "refresh" => calls[c].ok /\ calls[c].cookies = "set"
         /\ calls[c].phase = "renewed" /\ jar.access = "gone" => slept
         /\ calls[c].phase = "third" /\ ~calls[c].ok => slept

\* Without cookies nobody is sent any.
CallsBringNothingBack ==
  out /\ ~late => jar.session = 0 /\ \A c \in Callers : calls[c].cookies # "set"

IInv == Typed /\ CallsKeepTheSession /\ CallsBringNothingBack
=============================================================================
