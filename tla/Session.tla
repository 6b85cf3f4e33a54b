------------------------------ MODULE Session ------------------------------
(***************************************************************************)
(* The browser's session: frontend/app/lib/auth.ts (apiFetch and its one   *)
(* shared refresh), AuthProvider.tsx, and the cookie side of               *)
(* backend/app/api/auth.py.                                                *)
(*                                                                         *)
(* One tab.  A session is the number of the login that opened it; 0 is     *)
(* none.  The jar holds the id cookie and the refresh cookie (the username *)
(* cookie travels with the latter).  A request carries the cookies of the  *)
(* moment it is sent; its answer changes the jar when it arrives.  A       *)
(* request ends the step, so everything else may happen while it is out.   *)
(*                                                                         *)
(* Deployed across sites (cookie_secure), the cookies are SameSite=None;   *)
(* Secure (api/auth.py:35), but delete_cookie (:69-71) names neither: the  *)
(* browser ignores that Set-Cookie, and the cookies outlive a logout.      *)
(*                                                                         *)
(* Bounds: MaxLogins logins, MaxExpiries expiries of the id cookie, and    *)
(* MaxReloads reloads; at most Calls calls through apiFetch at once, and   *)
(* one logout.                                                             *)
(***************************************************************************)
EXTENDS Naturals

CONSTANTS
    Calls,          \* the places for calls through apiFetch
    MaxLogins,
    MaxExpiries,
    MaxReloads,
    Person          \* [Sessions -> people]: who logs in

Sessions == 1..MaxLogins
Cookie == 0..MaxLogins

ASSUME SessionAssumption ==
    /\ Calls # {}
    /\ MaxLogins \in Nat /\ MaxExpiries \in Nat /\ MaxReloads \in Nat

VARIABLES
    crossSite,  \* the frontend and the backend are on different sites
    user,       \* the session whose user the pages show
    loading,    \* AuthProvider has not restored the session yet
    jar,        \* [id, refresh]
    live,       \* the sessions whose refresh token Cognito accepts
    refresh,    \* refreshInFlight: [st, cookie, ok]
    login,      \* [st, session]
    logout,     \* [st, cookie, revoked]
    calls,      \* [Calls -> [kind, st, cookie]]
    logins, expiries, reloads,  \* how many there were
    left,       \* history: [session, clean, expired] of the logouts answered, the
                \* last the number of expiries before it
    late        \* history: a refresh was answered for a session no longer held

sessionVars == <<crossSite, user, loading, jar, live, refresh, login, logout, calls,
                 logins, expiries, reloads, left, late>>

NoCookies == [id |-> 0, refresh |-> 0]
NoRequest == [st |-> "idle", cookie |-> 0, ok |-> FALSE]
NoLogin == [st |-> "idle", session |-> 0]
NoLogout == [st |-> "idle", cookie |-> 0, revoked |-> FALSE]
NoCall == [kind |-> "api", st |-> "idle", cookie |-> 0]

FetchCall(kind, j) == [kind |-> kind, st |-> "first", cookie |-> j.id]

\* Variant for fault injection: a refresh cookie in the jar is kept.
KeepRefreshCookie(j, s) == [id |-> s, refresh |-> IF j.refresh = 0 THEN s ELSE j.refresh]

SetLoginCookies(j, s) == [id |-> s, refresh |-> s]

----------------------------------------------------------------------------

LoadsWith(j) == \E c \in Calls : calls' = [d \in Calls |-> IF d = c THEN FetchCall("me", j) ELSE NoCall]

SessionInit ==
    /\ crossSite \in BOOLEAN
    /\ user = 0 /\ loading = FALSE
    /\ jar = NoCookies
    /\ live = {}
    /\ refresh = NoRequest
    /\ login = NoLogin
    /\ logout = NoLogout
    /\ calls = [c \in Calls |-> NoCall]
    /\ logins = 0 /\ expiries = 0 /\ reloads = 0
    /\ left = {} /\ late = FALSE

\* The login page is shown to nobody but a visitor.
ServeLogin ==
    /\ user = 0 /\ ~loading
    /\ login.st = "idle"
    /\ logins < MaxLogins
    /\ logins' = logins + 1
    /\ login' = [st |-> "served", session |-> logins']
    /\ live' = live \cup {logins'}
    /\ UNCHANGED <<crossSite, user, loading, jar, refresh, logout, calls, expiries, reloads, left, late>>

\* The cookies come with the head of the answer, ...
LoginArrives ==
    /\ login.st = "served"
    /\ jar' = SetLoginCookies(jar, login.session)
    /\ login' = [login EXCEPT !.st = "set"]
    /\ UNCHANGED <<crossSite, user, loading, live, refresh, logout, calls, logins, expiries, reloads, left, late>>

\* ... the user with its body.
UserArrives ==
    /\ login.st = "set"
    /\ user' = login.session
    /\ login' = NoLogin
    /\ UNCHANGED <<crossSite, loading, jar, live, refresh, logout, calls, logins, expiries, reloads, left, late>>

LoginLost ==
    /\ login.st # "idle"
    /\ login' = NoLogin
    /\ UNCHANGED <<crossSite, user, loading, jar, live, refresh, logout, calls, logins, expiries, reloads, left, late>>

Login == ServeLogin \/ LoginArrives \/ UserArrives \/ LoginLost

\* The id cookie reaches its max_age.  No refresh lasts as long as that.
Expire ==
    /\ jar.id # 0 /\ refresh.st = "idle"
    /\ expiries < MaxExpiries
    /\ expiries' = expiries + 1
    /\ jar' = [jar EXCEPT !.id = 0]
    /\ UNCHANGED <<crossSite, user, loading, live, refresh, login, logout, calls, logins, reloads, left, late>>

\* A page, or what a page began before it was left, calls apiFetch.
Fetch(c) ==
    /\ calls[c].st = "idle"
    /\ calls' = [calls EXCEPT ![c] = FetchCall("api", jar)]
    /\ UNCHANGED <<crossSite, user, loading, jar, live, refresh, login, logout, logins, expiries, reloads, left, late>>

\* What a call leaves behind when it ends with `res`: me() restores the user.
Ends(c, res) ==
    IF calls[c].kind = "me"
    THEN /\ user' = IF res = "ok" THEN calls[c].cookie ELSE 0
         /\ loading' = FALSE
    ELSE UNCHANGED <<user, loading>>

\* The answer of a request that carried a valid id cookie, or none at all.
Answered(c, res) ==
    /\ calls[c].st \in {"first", "again"}
    /\ res = "ok" => calls[c].cookie # 0
    /\ Ends(c, res)
    /\ calls' = [calls EXCEPT ![c] = NoCall]
    /\ UNCHANGED <<crossSite, jar, live, refresh, login, logout, logins, expiries, reloads, left, late>>

\* A 401 to the second attempt is the caller's.
StillUnauthorized(c) ==
    /\ calls[c].st = "again"
    /\ Ends(c, "unauth")
    /\ calls' = [calls EXCEPT ![c] = NoCall]
    /\ UNCHANGED <<crossSite, jar, live, refresh, login, logout, logins, expiries, reloads, left, late>>

\* A 401 to the first one, which may have had a good cookie (verify_id_token also
\* fails without Cognito's keys): the call joins the refresh in flight or starts it.
Unauthorized(c) ==
    /\ calls[c].st = "first"
    /\ calls' = [calls EXCEPT ![c].st = "wait"]
    /\ refresh' = IF refresh.st = "idle"
                  THEN [NoRequest EXCEPT !.st = "sent", !.cookie = jar.refresh]
                  ELSE refresh
    /\ UNCHANGED <<crossSite, user, loading, jar, live, login, logout, logins, expiries, reloads, left, late>>

\* /auth/refresh: without a live session, past the rate limit, or when Cognito
\* or the network fails, the answer is not ok.
ServeRefresh ==
    /\ refresh.st = "sent"
    /\ \E fine \in BOOLEAN :
         refresh' = [refresh EXCEPT !.st = "served", !.ok = fine /\ refresh.cookie \in live]
    /\ UNCHANGED <<crossSite, user, loading, jar, live, login, logout, calls, logins, expiries, reloads, left, late>>

Waiting == {c \in Calls : calls[c].st = "wait"}

\* Variant for fault injection: the promise is kept after it has settled.
RefreshSettlesKept(r) == [r EXCEPT !.st = "kept"]

RefreshSettles(r) == NoRequest

\* Every call that waited is sent again, with the new cookie, ...
Refreshed ==
    /\ refresh.st = "served" /\ refresh.ok
    /\ jar' = [jar EXCEPT !.id = refresh.cookie]
    /\ calls' = [c \in Calls |-> IF c \in Waiting
                                 THEN [calls[c] EXCEPT !.st = "again", !.cookie = jar'.id]
                                 ELSE calls[c]]
    /\ refresh' = RefreshSettles(refresh)
    /\ late' = (late \/ refresh.cookie # jar.refresh)
    /\ UNCHANGED <<crossSite, user, loading, live, login, logout, logins, expiries, reloads, left>>

\* ... or gets its 401.  The cookies stay: the answer that would clear them is
\* replaced by that of the exception.
NotRefreshed ==
    /\ refresh.st = "served" /\ ~refresh.ok
    /\ calls' = [c \in Calls |-> IF c \in Waiting THEN NoCall ELSE calls[c]]
    /\ IF \E c \in Waiting : calls[c].kind = "me"
       THEN user' = 0 /\ loading' = FALSE
       ELSE UNCHANGED <<user, loading>>
    /\ refresh' = RefreshSettles(refresh)
    /\ UNCHANGED <<crossSite, jar, live, login, logout, logins, expiries, reloads, left, late>>

----------------------------------------------------------------------------

StartLogout ==
    /\ user # 0 /\ logout.st = "idle"
    /\ logout' = [NoLogout EXCEPT !.st = "sent", !.cookie = jar.refresh]
    /\ UNCHANGED <<crossSite, user, loading, jar, live, refresh, login, calls, logins, expiries, reloads, left, late>>

\* Variant for fault injection: the refresh tokens stay valid.
SignOutLeavesTokens(s) == live

\* admin_user_global_sign_out: every session of the user.
GlobalSignOut(s) == {t \in live : Person[t] # Person[s]}

\* /auth/logout goes on when Cognito fails.
ServeLogout ==
    /\ logout.st = "sent"
    /\ \E fine \in BOOLEAN :
         LET revoked == fine /\ logout.cookie # 0 IN
         /\ logout' = [logout EXCEPT !.st = "served", !.revoked = revoked]
         /\ live' = IF revoked THEN GlobalSignOut(logout.cookie) ELSE live
    /\ UNCHANGED <<crossSite, user, loading, jar, refresh, login, calls, logins, expiries, reloads, left, late>>

\* No answer to a refresh that was given before the sign-out is on its way.
LeavesClean ==
    /\ logout.revoked
    /\ ~(refresh.st = "served" /\ refresh.ok)

\* delete_cookie, as the browser obeys it.
Deleted(j) == IF crossSite THEN j ELSE NoCookies

LogoutArrives ==
    /\ logout.st = "served"
    /\ jar' = Deleted(jar)
    /\ user' = 0
    /\ left' = left \cup {[session |-> logout.cookie, clean |-> LeavesClean, expired |-> expiries]}
    /\ logout' = NoLogout
    /\ UNCHANGED <<crossSite, loading, live, refresh, login, calls, logins, expiries, reloads, late>>

\* A logout nobody listens to any more may still reach Cognito.
LogoutDropped ==
    /\ logout' = NoLogout
    /\ \/ live' = live
       \/ logout.st = "sent" /\ logout.cookie # 0 /\ live' = GlobalSignOut(logout.cookie)

\* A gateway's error is an answer too, and logout() does not look at it.
LogoutRejected ==
    /\ logout.st # "idle"
    /\ user' = 0
    /\ LogoutDropped
    /\ UNCHANGED <<crossSite, loading, jar, refresh, login, calls, logins, expiries, reloads, left, late>>

\* Without an answer, logout() throws and the user stays.
LogoutLost ==
    /\ logout.st # "idle"
    /\ LogoutDropped
    /\ UNCHANGED <<crossSite, user, loading, jar, refresh, login, calls, logins, expiries, reloads, left, late>>

\* The tab is loaded anew: what was in flight is forgotten, me() is called.
Reload ==
    /\ reloads < MaxReloads
    /\ reloads' = reloads + 1
    /\ user' = 0 /\ loading' = TRUE
    /\ LoadsWith(jar)
    /\ refresh' = NoRequest
    /\ login' = NoLogin
    /\ LogoutDropped
    /\ UNCHANGED <<crossSite, jar, logins, expiries, left, late>>

Logout == StartLogout \/ ServeLogout \/ LogoutArrives \/ LogoutRejected \/ LogoutLost

Settle == Refreshed \/ NotRefreshed

SessionNext ==
    \/ Login \/ Expire \/ Logout \/ Reload \/ ServeRefresh \/ Settle
    \/ \E c \in Calls : \/ Fetch(c) \/ Unauthorized(c) \/ StillUnauthorized(c)
                        \/ \E res \in {"ok", "error"} : Answered(c, res)

SessionSpec == SessionInit /\ [][SessionNext]_sessionVars

----------------------------------------------------------------------------

SessionTypeOK ==
    /\ crossSite \in BOOLEAN
    /\ user \in Cookie /\ loading \in BOOLEAN
    /\ jar \in [id : Cookie, refresh : Cookie]
    /\ live \subseteq Sessions
    /\ refresh \in [st : {"idle", "sent", "served"}, cookie : Cookie, ok : BOOLEAN]
    /\ login \in [st : {"idle", "served", "set"}, session : Cookie]
    /\ logout \in [st : {"idle", "sent", "served"}, cookie : Cookie, revoked : BOOLEAN]
    /\ calls \in [Calls -> [kind : {"me", "api"}, st : {"idle", "first", "wait", "again"}, cookie : Cookie]]
    /\ logins \in Cookie /\ expiries \in 0..MaxExpiries /\ reloads \in 0..MaxReloads
    /\ left \subseteq [session : Cookie, clean : BOOLEAN, expired : 0..MaxExpiries]
    /\ late \in BOOLEAN

\* Shared refreshes serve everybody who joined them: a call is never sent again
\* without an id cookie, and no call waits for a refresh that is over.
SharedRefreshServes ==
    \A c \in Calls :
        /\ calls[c].st = "again" => calls[c].cookie # 0
        /\ calls[c].st = "wait" => refresh.st \in {"sent", "served"}

\* A logout that reached Cognito is not undone: unless a refresh had been
\* answered before and was still on its way, nothing brings the session back.
\* Deployed on one site, no cookie names it any more.  Across sites the id cookie
\* stays, and with it the session if the page is loaded anew, but only until that
\* cookie expires: no refresh ever renews it.
CleanLogoutIsFinal ==
    \A l \in left : l.clean /\ l.session # 0 =>
        /\ l.session \in {jar.id, jar.refresh} => crossSite
        /\ l.session = jar.id => expiries = l.expired
        /\ ~(refresh.st = "served" /\ refresh.ok /\ refresh.cookie = l.session)

\* Requests act for the user the pages show: unless a refresh was answered too
\* late, both cookies belong to the session on the screen.
ActsAsShown ==
    late \/ user = 0 \/ (jar.id \in {0, user} /\ jar.refresh = user)
=============================================================================
