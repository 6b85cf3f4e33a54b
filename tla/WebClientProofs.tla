-------------------------- MODULE WebClientProofs ---------------------------
(***************************************************************************)
(* Proofs about Session and UploadPage, for any number of logins, calls,   *)
(* expiries, reloads, jobs and polls.                                      *)
(***************************************************************************)
EXTENDS UploadPage, TLAPS

-----------------------------------------------------------------------------
(***************************************************************************)
(* Session.  The inductive invariant follows a session from its login to   *)
(* the cookies, the refresh and the logout that name it.                   *)
(***************************************************************************)

\* Everything names a login there has been, and a refresh that was granted
\* names one.
Numbered ==
    /\ live \subseteq 1..logins
    /\ jar.id <= logins /\ jar.refresh <= logins
    /\ refresh.cookie <= logins /\ logout.cookie <= logins /\ login.session <= logins
    /\ \A l \in left : l.session <= logins
    /\ refresh.ok => refresh.cookie # 0

\* A sign-out Cognito has carried out holds, and a login it has granted.
SignedOut ==
    /\ logout.st = "served" /\ logout.revoked => logout.cookie \notin live
    /\ \A l \in left : l.clean => l.session \notin live
    /\ login.st # "idle" => login.session \in live

Me(c) == calls[c].kind = "me"

\* me() is called when the tab is loaded, alone and before anybody is shown.
\* Only a visitor logs in, and only somebody shown logs out.
Restoring ==
    /\ loading => user = 0 /\ login.st = "idle"
    /\ login.st # "idle" => user = 0
    /\ logout.st # "idle" => user # 0
    /\ \A c \in Calls : Me(c) => loading
    /\ \A c, d \in Calls : Me(c) /\ Me(d) => c = d

\* Until a refresh is answered too late, the id cookie, the user shown and the
\* user being restored are those of the refresh cookie.
OneSession ==
    late \/ /\ jar.id \in {0, jar.refresh}
            /\ user # 0 => jar.refresh = user
            /\ login.st = "set" => jar.refresh = login.session
            /\ \A c \in Calls : Me(c) /\ calls[c].cookie # 0 => calls[c].cookie = jar.refresh

IInv ==
    /\ SessionTypeOK /\ Numbered /\ SignedOut /\ Restoring /\ OneSession
    /\ SharedRefreshServes /\ CleanLogoutIsFinal

-----------------------------------------------------------------------------
LEMMA InitIInv == SessionInit => IInv
<1> SUFFICES ASSUME SessionInit PROVE IInv
  OBVIOUS
<1> USE SessionAssumption
  DEF SessionAssumption, SessionInit, NoCookies, NoRequest, NoLogin, NoLogout, NoCall, Cookie, Sessions
<1>1. SessionTypeOK
  <2>1. calls \in [Calls -> [kind : {"me", "api"}, st : {"idle", "first", "wait", "again"}, cookie : Cookie]]
    OBVIOUS
  <2>2. refresh \in [st : {"idle", "sent", "served"}, cookie : Cookie, ok : BOOLEAN]
    OBVIOUS
  <2>3. logout \in [st : {"idle", "sent", "served"}, cookie : Cookie, revoked : BOOLEAN]
    OBVIOUS
  <2>4. jar \in [id : Cookie, refresh : Cookie]
    OBVIOUS
  <2>5. live \subseteq Sessions /\ left \subseteq [session : Cookie, clean : BOOLEAN, expired : 0..MaxExpiries]
    OBVIOUS
  <2>7. user \in Cookie
    OBVIOUS
  <2>10. crossSite \in BOOLEAN /\ login \in [st : {"idle", "served", "set"}, session : Cookie]
    OBVIOUS
  <2>8. loading \in BOOLEAN
    OBVIOUS
  <2>9. late \in BOOLEAN
    OBVIOUS
  <2>6. logins \in Cookie /\ expiries \in 0..MaxExpiries /\ reloads \in 0..MaxReloads
    OBVIOUS
  <2> QED
    BY <2>1, <2>2, <2>3, <2>4, <2>5, <2>6, <2>7, <2>8, <2>9, <2>10 DEF SessionTypeOK
<1>2. Numbered
  BY DEF Numbered
<1>3. SignedOut
  BY DEF SignedOut
<1>4. Restoring
  BY DEF Restoring, Me
<1>5. OneSession
  BY DEF OneSession, Me
<1>6. SharedRefreshServes
  BY DEF SharedRefreshServes
<1>7. CleanLogoutIsFinal
  BY DEF CleanLogoutIsFinal
<1> QED
  BY <1>1, <1>2, <1>3, <1>4, <1>5, <1>6, <1>7 DEF IInv

LEMMA SignOutShrinks == ASSUME NEW s PROVE GlobalSignOut(s) \subseteq live
BY DEF GlobalSignOut

LEMMA IInvNext == IInv /\ [SessionNext]_sessionVars => IInv'
<1> SUFFICES ASSUME IInv, [SessionNext]_sessionVars PROVE IInv'
  OBVIOUS
<1> USE SessionAssumption DEF SessionAssumption, Cookie, Sessions
<1>1. CASE ServeLogin
  <2>1. SessionTypeOK'
    BY <1>1 DEF ServeLogin, IInv, SessionTypeOK
  <2>2. Numbered'
    BY <1>1 DEF ServeLogin, IInv, SessionTypeOK, Numbered
  <2>3. SignedOut'
    BY <1>1 DEF ServeLogin, IInv, SessionTypeOK, Numbered, SignedOut
  <2>4. Restoring'
    BY <1>1 DEF ServeLogin, IInv, SessionTypeOK, Numbered, SignedOut, Restoring, Me
  <2>5. OneSession'
    BY <1>1 DEF ServeLogin, IInv, SessionTypeOK, Restoring, OneSession, Me
  <2>6. SharedRefreshServes'
    BY <1>1 DEF ServeLogin, IInv, SharedRefreshServes
  <2>7. CleanLogoutIsFinal'
    BY <1>1 DEF ServeLogin, IInv, SessionTypeOK, Numbered, SignedOut,
        CleanLogoutIsFinal
  <2> QED
    BY <2>1, <2>2, <2>3, <2>4, <2>5, <2>6, <2>7 DEF IInv
<1>17. CASE LoginArrives
  <2>1. SessionTypeOK'
    BY <1>17 DEF LoginArrives, SetLoginCookies, IInv, SessionTypeOK
  <2>2. Numbered'
    BY <1>17 DEF LoginArrives, SetLoginCookies, IInv, SessionTypeOK, Numbered
  <2>3. SignedOut'
    BY <1>17 DEF LoginArrives, SetLoginCookies, IInv, SessionTypeOK, Numbered, SignedOut
  <2>4. Restoring'
    BY <1>17 DEF LoginArrives, SetLoginCookies, IInv, SessionTypeOK, Numbered, SignedOut, Restoring, Me
  <2>5. OneSession'
    BY <1>17 DEF LoginArrives, SetLoginCookies, IInv, SessionTypeOK, Restoring, OneSession, Me
  <2>6. SharedRefreshServes'
    BY <1>17 DEF LoginArrives, SetLoginCookies, IInv, SharedRefreshServes
  <2>7. CleanLogoutIsFinal'
    BY <1>17 DEF LoginArrives, SetLoginCookies, IInv, SessionTypeOK, Numbered, SignedOut,
        CleanLogoutIsFinal
  <2> QED
    BY <2>1, <2>2, <2>3, <2>4, <2>5, <2>6, <2>7 DEF IInv
<1>18. CASE UserArrives
  <2>1. SessionTypeOK'
    BY <1>18 DEF UserArrives, NoLogin, IInv, SessionTypeOK
  <2>2. Numbered'
    BY <1>18 DEF UserArrives, NoLogin, IInv, SessionTypeOK, Numbered
  <2>3. SignedOut'
    BY <1>18 DEF UserArrives, NoLogin, IInv, SessionTypeOK, Numbered, SignedOut
  <2>4. Restoring'
    BY <1>18 DEF UserArrives, NoLogin, IInv, SessionTypeOK, Numbered, SignedOut, Restoring, Me
  <2>5. OneSession'
    BY <1>18 DEF UserArrives, NoLogin, IInv, SessionTypeOK, Restoring, OneSession, Me
  <2>6. SharedRefreshServes'
    BY <1>18 DEF UserArrives, NoLogin, IInv, SharedRefreshServes
  <2>7. CleanLogoutIsFinal'
    BY <1>18 DEF UserArrives, NoLogin, IInv, SessionTypeOK, Numbered, SignedOut,
        CleanLogoutIsFinal
  <2> QED
    BY <2>1, <2>2, <2>3, <2>4, <2>5, <2>6, <2>7 DEF IInv
<1>19. CASE LoginLost
  <2>1. SessionTypeOK'
    BY <1>19 DEF LoginLost, NoLogin, IInv, SessionTypeOK
  <2>2. Numbered'
    BY <1>19 DEF LoginLost, NoLogin, IInv, SessionTypeOK, Numbered
  <2>3. SignedOut'
    BY <1>19 DEF LoginLost, NoLogin, IInv, SessionTypeOK, Numbered, SignedOut
  <2>4. Restoring'
    BY <1>19 DEF LoginLost, NoLogin, IInv, SessionTypeOK, Numbered, SignedOut, Restoring, Me
  <2>5. OneSession'
    BY <1>19 DEF LoginLost, NoLogin, IInv, SessionTypeOK, Restoring, OneSession, Me
  <2>6. SharedRefreshServes'
    BY <1>19 DEF LoginLost, NoLogin, IInv, SharedRefreshServes
  <2>7. CleanLogoutIsFinal'
    BY <1>19 DEF LoginLost, NoLogin, IInv, SessionTypeOK, Numbered, SignedOut,
        CleanLogoutIsFinal
  <2> QED
    BY <2>1, <2>2, <2>3, <2>4, <2>5, <2>6, <2>7 DEF IInv
<1>2. CASE Expire
  <2>1. SessionTypeOK'
    BY <1>2 DEF Expire, IInv, SessionTypeOK
  <2>2. Numbered'
    BY <1>2 DEF Expire, IInv, SessionTypeOK, Numbered
  <2>3. SignedOut'
    BY <1>2 DEF Expire, IInv, SessionTypeOK, Numbered, SignedOut
  <2>4. Restoring'
    BY <1>2 DEF Expire, IInv, SessionTypeOK, Restoring, Me
  <2>5. OneSession'
    BY <1>2 DEF Expire, IInv, SessionTypeOK, Restoring, OneSession, Me
  <2>6. SharedRefreshServes'
    BY <1>2 DEF Expire, IInv, SessionTypeOK, Numbered, SharedRefreshServes
  <2>7. CleanLogoutIsFinal'
    BY <1>2 DEF Expire, IInv, SessionTypeOK, Numbered, SignedOut, CleanLogoutIsFinal
  <2> QED
    BY <2>1, <2>2, <2>3, <2>4, <2>5, <2>6, <2>7 DEF IInv
<1>3. CASE StartLogout
  <2>1. SessionTypeOK'
    BY <1>3 DEF StartLogout, NoLogout, IInv, SessionTypeOK
  <2>2. Numbered'
    BY <1>3 DEF StartLogout, NoLogout, IInv, SessionTypeOK, Numbered
  <2>3. SignedOut'
    BY <1>3 DEF StartLogout, NoLogout, IInv, SessionTypeOK, Numbered, SignedOut
  <2>4. Restoring'
    BY <1>3 DEF StartLogout, NoLogout, IInv, SessionTypeOK, Restoring, Me
  <2>5. OneSession'
    BY <1>3 DEF StartLogout, NoLogout, IInv, SessionTypeOK, Restoring, OneSession, Me
  <2>6. SharedRefreshServes'
    BY <1>3 DEF StartLogout, NoLogout, IInv, SessionTypeOK, Numbered, SharedRefreshServes
  <2>7. CleanLogoutIsFinal'
    BY <1>3 DEF StartLogout, NoLogout, IInv, SessionTypeOK, Numbered, SignedOut,
        CleanLogoutIsFinal
  <2> QED
    BY <2>1, <2>2, <2>3, <2>4, <2>5, <2>6, <2>7 DEF IInv
<1>4. CASE ServeLogout
  <2>1. SessionTypeOK'
    BY <1>4 DEF ServeLogout, GlobalSignOut, IInv, SessionTypeOK
  <2>2. Numbered'
    BY <1>4 DEF ServeLogout, GlobalSignOut, IInv, SessionTypeOK, Numbered
  <2>3. SignedOut'
    BY <1>4 DEF ServeLogout, GlobalSignOut, IInv, SessionTypeOK, Numbered, SignedOut, Restoring
  <2>4. Restoring'
    BY <1>4 DEF ServeLogout, GlobalSignOut, IInv, SessionTypeOK, Restoring, Me
  <2>5. OneSession'
    BY <1>4 DEF ServeLogout, GlobalSignOut, IInv, SessionTypeOK, Restoring, OneSession, Me
  <2>6. SharedRefreshServes'
    BY <1>4 DEF ServeLogout, GlobalSignOut, IInv, SessionTypeOK, Numbered, SharedRefreshServes
  <2>7. CleanLogoutIsFinal'
    BY <1>4 DEF ServeLogout, GlobalSignOut, IInv, SessionTypeOK, Numbered, SignedOut,
        CleanLogoutIsFinal
  <2> QED
    BY <2>1, <2>2, <2>3, <2>4, <2>5, <2>6, <2>7 DEF IInv
<1>5. CASE LogoutArrives
  <2>1. SessionTypeOK'
    <3>1. (user \in Cookie)'
      BY <1>5 DEF LogoutArrives, NoLogout, Deleted, NoCookies, IInv, SessionTypeOK
    <3>2. (crossSite \in BOOLEAN /\ loading \in BOOLEAN /\ late \in BOOLEAN)'
      BY <1>5 DEF LogoutArrives, NoLogout, Deleted, NoCookies, IInv, SessionTypeOK
    <3>3. (jar \in [id : Cookie, refresh : Cookie] /\ live \subseteq Sessions)'
      BY <1>5 DEF LogoutArrives, NoLogout, Deleted, NoCookies, IInv, SessionTypeOK
    <3>4. (/\ refresh \in [st : {"idle", "sent", "served"}, cookie : Cookie, ok : BOOLEAN]
          /\ login \in [st : {"idle", "served", "set"}, session : Cookie]
          /\ logout \in [st : {"idle", "sent", "served"}, cookie : Cookie, revoked : BOOLEAN])'
      BY <1>5 DEF LogoutArrives, NoLogout, Deleted, NoCookies, IInv, SessionTypeOK
    <3>5. (calls \in [Calls -> [kind : {"me", "api"}, st : {"idle", "first", "wait", "again"}, cookie : Cookie]])'
      BY <1>5 DEF LogoutArrives, NoLogout, Deleted, NoCookies, IInv, SessionTypeOK
    <3>6. (/\ logins \in Cookie /\ expiries \in 0..MaxExpiries /\ reloads \in 0..MaxReloads
          /\ left \subseteq [session : Cookie, clean : BOOLEAN, expired : 0..MaxExpiries])'
      <4>1. LeavesClean \in BOOLEAN
        BY DEF LeavesClean, IInv, SessionTypeOK
      <4>2. [session |-> logout.cookie, clean |-> LeavesClean, expired |-> expiries]
               \in [session : Cookie, clean : BOOLEAN, expired : 0..MaxExpiries]
        BY <4>1 DEF IInv, SessionTypeOK
      <4> QED
        BY <1>5, <4>2 DEF LogoutArrives, IInv, SessionTypeOK
    <3> QED
      BY <3>1, <3>2, <3>3, <3>4, <3>5, <3>6 DEF SessionTypeOK
  <2>2. Numbered'
    BY <1>5 DEF LogoutArrives, NoLogout, Deleted, NoCookies, LeavesClean, IInv, SessionTypeOK, Numbered
  <2>3. SignedOut'
    BY <1>5 DEF LogoutArrives, NoLogout, Deleted, NoCookies, LeavesClean, IInv, SessionTypeOK,
        Numbered, SignedOut
  <2>4. Restoring'
    BY <1>5 DEF LogoutArrives, NoLogout, Deleted, NoCookies, LeavesClean, IInv, SessionTypeOK,
        Restoring, Me
  <2>5. OneSession'
    BY <1>5 DEF LogoutArrives, NoLogout, Deleted, NoCookies, LeavesClean, IInv, SessionTypeOK,
        Restoring, OneSession, Me
  <2>6. SharedRefreshServes'
    BY <1>5 DEF LogoutArrives, NoLogout, Deleted, NoCookies, LeavesClean, IInv, SessionTypeOK,
        Numbered, SharedRefreshServes
  <2>7. CleanLogoutIsFinal'
    BY <1>5 DEF LogoutArrives, NoLogout, Deleted, NoCookies, LeavesClean, IInv, SessionTypeOK,
        Numbered, SignedOut, CleanLogoutIsFinal
  <2> QED
    BY <2>1, <2>2, <2>3, <2>4, <2>5, <2>6, <2>7 DEF IInv
<1>6. CASE LogoutRejected
  <2>8. live' \subseteq live
    BY <1>6, SignOutShrinks DEF LogoutRejected, LogoutDropped
  <2>1. SessionTypeOK'
    <3>1. (user \in Cookie)'
      BY <1>6 DEF LogoutRejected, LogoutDropped, GlobalSignOut, NoLogout, IInv, SessionTypeOK
    <3>2. (crossSite \in BOOLEAN /\ loading \in BOOLEAN /\ late \in BOOLEAN)'
      BY <1>6 DEF LogoutRejected, LogoutDropped, GlobalSignOut, NoLogout, IInv, SessionTypeOK
    <3>3. (jar \in [id : Cookie, refresh : Cookie] /\ live \subseteq Sessions)'
      BY <1>6 DEF LogoutRejected, LogoutDropped, GlobalSignOut, NoLogout, IInv, SessionTypeOK
    <3>4. (/\ refresh \in [st : {"idle", "sent", "served"}, cookie : Cookie, ok : BOOLEAN]
          /\ login \in [st : {"idle", "served", "set"}, session : Cookie]
          /\ logout \in [st : {"idle", "sent", "served"}, cookie : Cookie, revoked : BOOLEAN])'
      BY <1>6 DEF LogoutRejected, LogoutDropped, GlobalSignOut, NoLogout, IInv, SessionTypeOK
    <3>5. (calls \in [Calls -> [kind : {"me", "api"}, st : {"idle", "first", "wait", "again"}, cookie : Cookie]])'
      BY <1>6 DEF LogoutRejected, LogoutDropped, GlobalSignOut, NoLogout, IInv, SessionTypeOK
    <3>6. (/\ logins \in Cookie /\ expiries \in 0..MaxExpiries /\ reloads \in 0..MaxReloads
          /\ left \subseteq [session : Cookie, clean : BOOLEAN, expired : 0..MaxExpiries])'
      BY <1>6 DEF LogoutRejected, LogoutDropped, GlobalSignOut, NoLogout, IInv, SessionTypeOK
    <3> QED
      BY <3>1, <3>2, <3>3, <3>4, <3>5, <3>6 DEF SessionTypeOK
  <2>2. Numbered'
    BY <1>6, <2>8 DEF LogoutRejected, LogoutDropped, NoLogout, NoRequest, IInv, SessionTypeOK,
        Numbered
  <2>3. SignedOut'
    BY <1>6, <2>8 DEF LogoutRejected, LogoutDropped, NoLogout, NoRequest, IInv, SessionTypeOK,
        Numbered, SignedOut, Restoring
  <2>4. Restoring'
    BY <1>6 DEF LogoutRejected, LogoutDropped, GlobalSignOut, NoLogout, IInv, SessionTypeOK,
        Restoring, Me
  <2>5. OneSession'
    BY <1>6 DEF LogoutRejected, LogoutDropped, GlobalSignOut, NoLogout, IInv, SessionTypeOK,
        Restoring, OneSession, Me
  <2>6. SharedRefreshServes'
    BY <1>6 DEF LogoutRejected, LogoutDropped, GlobalSignOut, NoLogout, IInv, SessionTypeOK,
        Numbered, SharedRefreshServes
  <2>7. CleanLogoutIsFinal'
    BY <1>6 DEF LogoutRejected, LogoutDropped, GlobalSignOut, NoLogout, IInv, SessionTypeOK,
        Numbered, SignedOut, CleanLogoutIsFinal
  <2> QED
    BY <2>1, <2>2, <2>3, <2>4, <2>5, <2>6, <2>7 DEF IInv
<1>7. CASE LogoutLost
  <2>8. live' \subseteq live
    BY <1>7, SignOutShrinks DEF LogoutLost, LogoutDropped
  <2>1. SessionTypeOK'
    <3>1. (user \in Cookie)'
      BY <1>7 DEF LogoutLost, LogoutDropped, GlobalSignOut, NoLogout, IInv, SessionTypeOK
    <3>2. (crossSite \in BOOLEAN /\ loading \in BOOLEAN /\ late \in BOOLEAN)'
      BY <1>7 DEF LogoutLost, LogoutDropped, GlobalSignOut, NoLogout, IInv, SessionTypeOK
    <3>3. (jar \in [id : Cookie, refresh : Cookie] /\ live \subseteq Sessions)'
      BY <1>7 DEF LogoutLost, LogoutDropped, GlobalSignOut, NoLogout, IInv, SessionTypeOK
    <3>4. (/\ refresh \in [st : {"idle", "sent", "served"}, cookie : Cookie, ok : BOOLEAN]
          /\ login \in [st : {"idle", "served", "set"}, session : Cookie]
          /\ logout \in [st : {"idle", "sent", "served"}, cookie : Cookie, revoked : BOOLEAN])'
      BY <1>7 DEF LogoutLost, LogoutDropped, GlobalSignOut, NoLogout, IInv, SessionTypeOK
    <3>5. (calls \in [Calls -> [kind : {"me", "api"}, st : {"idle", "first", "wait", "again"}, cookie : Cookie]])'
      BY <1>7 DEF LogoutLost, LogoutDropped, GlobalSignOut, NoLogout, IInv, SessionTypeOK
    <3>6. (/\ logins \in Cookie /\ expiries \in 0..MaxExpiries /\ reloads \in 0..MaxReloads
          /\ left \subseteq [session : Cookie, clean : BOOLEAN, expired : 0..MaxExpiries])'
      BY <1>7 DEF LogoutLost, LogoutDropped, GlobalSignOut, NoLogout, IInv, SessionTypeOK
    <3> QED
      BY <3>1, <3>2, <3>3, <3>4, <3>5, <3>6 DEF SessionTypeOK
  <2>2. Numbered'
    BY <1>7, <2>8 DEF LogoutLost, LogoutDropped, NoLogout, NoRequest, IInv, SessionTypeOK,
        Numbered
  <2>3. SignedOut'
    BY <1>7, <2>8 DEF LogoutLost, LogoutDropped, NoLogout, NoRequest, IInv, SessionTypeOK,
        Numbered, SignedOut, Restoring
  <2>4. Restoring'
    BY <1>7 DEF LogoutLost, LogoutDropped, GlobalSignOut, NoLogout, IInv, SessionTypeOK,
        Restoring, Me
  <2>5. OneSession'
    BY <1>7 DEF LogoutLost, LogoutDropped, GlobalSignOut, NoLogout, IInv, SessionTypeOK,
        Restoring, OneSession, Me
  <2>6. SharedRefreshServes'
    BY <1>7 DEF LogoutLost, LogoutDropped, GlobalSignOut, NoLogout, IInv, SessionTypeOK,
        Numbered, SharedRefreshServes
  <2>7. CleanLogoutIsFinal'
    BY <1>7 DEF LogoutLost, LogoutDropped, GlobalSignOut, NoLogout, IInv, SessionTypeOK,
        Numbered, SignedOut, CleanLogoutIsFinal
  <2> QED
    BY <2>1, <2>2, <2>3, <2>4, <2>5, <2>6, <2>7 DEF IInv
<1>8. CASE Reload
  <2>8. live' \subseteq live
    BY <1>8, SignOutShrinks DEF Reload, LogoutDropped
  <2>1. SessionTypeOK'
    <3>1. (user \in Cookie)'
      BY <1>8 DEF Reload, LoadsWith, LogoutDropped, GlobalSignOut, NoLogin, NoLogout, NoRequest,
          NoCall, FetchCall, IInv, SessionTypeOK
    <3>2. (crossSite \in BOOLEAN /\ loading \in BOOLEAN /\ late \in BOOLEAN)'
      BY <1>8 DEF Reload, LoadsWith, LogoutDropped, GlobalSignOut, NoLogin, NoLogout, NoRequest,
          NoCall, FetchCall, IInv, SessionTypeOK
    <3>3. (jar \in [id : Cookie, refresh : Cookie] /\ live \subseteq Sessions)'
      BY <1>8 DEF Reload, LoadsWith, LogoutDropped, GlobalSignOut, NoLogin, NoLogout, NoRequest,
          NoCall, FetchCall, IInv, SessionTypeOK
    <3>4. (/\ refresh \in [st : {"idle", "sent", "served"}, cookie : Cookie, ok : BOOLEAN]
          /\ login \in [st : {"idle", "served", "set"}, session : Cookie]
          /\ logout \in [st : {"idle", "sent", "served"}, cookie : Cookie, revoked : BOOLEAN])'
      BY <1>8 DEF Reload, LoadsWith, LogoutDropped, GlobalSignOut, NoLogin, NoLogout, NoRequest,
          NoCall, FetchCall, IInv, SessionTypeOK
    <3>5. (calls \in [Calls -> [kind : {"me", "api"}, st : {"idle", "first", "wait", "again"}, cookie : Cookie]])'
      BY <1>8 DEF Reload, LoadsWith, LogoutDropped, GlobalSignOut, NoLogin, NoLogout, NoRequest,
          NoCall, FetchCall, IInv, SessionTypeOK
    <3>6. (/\ logins \in Cookie /\ expiries \in 0..MaxExpiries /\ reloads \in 0..MaxReloads
          /\ left \subseteq [session : Cookie, clean : BOOLEAN, expired : 0..MaxExpiries])'
      BY <1>8 DEF Reload, LoadsWith, LogoutDropped, GlobalSignOut, NoLogin, NoLogout, NoRequest,
          NoCall, FetchCall, IInv, SessionTypeOK
    <3> QED
      BY <3>1, <3>2, <3>3, <3>4, <3>5, <3>6 DEF SessionTypeOK
  <2>2. Numbered'
    BY <1>8, <2>8 DEF Reload, LogoutDropped, NoLogin, NoLogout, NoRequest, IInv, SessionTypeOK, Numbered
  <2>3. SignedOut'
    BY <1>8, <2>8 DEF Reload, LogoutDropped, NoLogin, NoLogout, NoRequest, IInv, SessionTypeOK,
        Numbered, SignedOut
  <2>4. Restoring'
    BY <1>8 DEF Reload, LoadsWith, LogoutDropped, GlobalSignOut, NoLogin, NoLogout, NoRequest, NoCall,
        FetchCall, IInv, SessionTypeOK, Restoring, Me
  <2>5. OneSession'
    BY <1>8 DEF Reload, LoadsWith, LogoutDropped, GlobalSignOut, NoLogin, NoLogout, NoRequest, NoCall,
        FetchCall, IInv, SessionTypeOK, Restoring, OneSession, Me
  <2>6. SharedRefreshServes'
    BY <1>8 DEF Reload, LoadsWith, LogoutDropped, GlobalSignOut, NoLogin, NoLogout, NoRequest, NoCall,
        FetchCall, IInv, SessionTypeOK, Numbered, SharedRefreshServes
  <2>7. CleanLogoutIsFinal'
    BY <1>8 DEF Reload, LoadsWith, LogoutDropped, GlobalSignOut, NoLogin, NoLogout, NoRequest, NoCall,
        FetchCall, IInv, SessionTypeOK, Numbered, SignedOut, CleanLogoutIsFinal
  <2> QED
    BY <2>1, <2>2, <2>3, <2>4, <2>5, <2>6, <2>7 DEF IInv
<1>9. ASSUME NEW res \in {"ok", "error"}, ServeRefresh PROVE IInv'
  <2>1. SessionTypeOK'
    BY <1>9 DEF ServeRefresh, IInv, SessionTypeOK
  <2>2. Numbered'
    BY <1>9 DEF ServeRefresh, IInv, SessionTypeOK, Numbered
  <2>3. SignedOut'
    BY <1>9 DEF ServeRefresh, IInv, SessionTypeOK, Numbered, SignedOut
  <2>4. Restoring'
    BY <1>9 DEF ServeRefresh, IInv, SessionTypeOK, Restoring, Me
  <2>5. OneSession'
    BY <1>9 DEF ServeRefresh, IInv, SessionTypeOK, Restoring, OneSession, Me
  <2>6. SharedRefreshServes'
    BY <1>9 DEF ServeRefresh, IInv, SessionTypeOK, Numbered, SharedRefreshServes
  <2>7. CleanLogoutIsFinal'
    BY <1>9 DEF ServeRefresh, IInv, SessionTypeOK, Numbered, SignedOut, CleanLogoutIsFinal
  <2> QED
    BY <2>1, <2>2, <2>3, <2>4, <2>5, <2>6, <2>7 DEF IInv
<1>10. ASSUME NEW res \in {"ok", "error"}, Refreshed PROVE IInv'
  <2>8. /\ jar' = [jar EXCEPT !.id = refresh.cookie]
        /\ refresh' = NoRequest
        /\ UNCHANGED <<live, login, logout, left, logins>>
    BY <1>10 DEF Refreshed, RefreshSettles
  <2>1. SessionTypeOK'
    <3>1. (user \in Cookie)'
      BY <1>10 DEF Refreshed, RefreshSettles, NoRequest, Waiting, IInv, SessionTypeOK
    <3>2. (crossSite \in BOOLEAN /\ loading \in BOOLEAN /\ late \in BOOLEAN)'
      BY <1>10 DEF Refreshed, RefreshSettles, NoRequest, Waiting, IInv, SessionTypeOK
    <3>3. (jar \in [id : Cookie, refresh : Cookie] /\ live \subseteq Sessions)'
      BY <2>8 DEF NoRequest, IInv, SessionTypeOK
    <3>4. (/\ refresh \in [st : {"idle", "sent", "served"}, cookie : Cookie, ok : BOOLEAN]
          /\ login \in [st : {"idle", "served", "set"}, session : Cookie]
          /\ logout \in [st : {"idle", "sent", "served"}, cookie : Cookie, revoked : BOOLEAN])'
      BY <2>8 DEF NoRequest, IInv, SessionTypeOK
    <3>5. (calls \in [Calls -> [kind : {"me", "api"}, st : {"idle", "first", "wait", "again"}, cookie : Cookie]])'
      <4>1. refresh.cookie \in Cookie /\ jar'.id = refresh.cookie
        BY <2>8 DEF IInv, SessionTypeOK
      <4>2. calls' = [d \in Calls |-> IF d \in Waiting
                                     THEN [calls[d] EXCEPT !.st = "again", !.cookie = refresh.cookie]
                                     ELSE calls[d]]
        BY <1>10, <4>1 DEF Refreshed
      <4> QED
        BY <4>1, <4>2 DEF IInv, SessionTypeOK
    <3>6. (/\ logins \in Cookie /\ expiries \in 0..MaxExpiries /\ reloads \in 0..MaxReloads
          /\ left \subseteq [session : Cookie, clean : BOOLEAN, expired : 0..MaxExpiries])'
      BY <1>10 DEF Refreshed, RefreshSettles, NoRequest, Waiting, IInv, SessionTypeOK
    <3> QED
      BY <3>1, <3>2, <3>3, <3>4, <3>5, <3>6 DEF SessionTypeOK
  <2>2. Numbered'
    BY <2>8 DEF NoRequest, IInv, SessionTypeOK, Numbered
  <2>3. SignedOut'
    BY <1>10 DEF Refreshed, RefreshSettles, NoRequest, Waiting, IInv, SessionTypeOK, Numbered,
        SignedOut
  <2>4. Restoring'
    <3>1. \A d \in Calls : Me(d)' <=> Me(d)
      BY <1>10 DEF Refreshed, IInv, SessionTypeOK, Me
    <3> QED
      BY <1>10, <3>1 DEF Refreshed, IInv, Restoring
  <2>5. OneSession'
    BY <1>10 DEF Refreshed, RefreshSettles, NoRequest, Waiting, IInv, SessionTypeOK,
        Restoring, OneSession, Me
  <2>6. SharedRefreshServes'
    BY <1>10 DEF Refreshed, RefreshSettles, NoRequest, Waiting, IInv, SessionTypeOK, Numbered,
        SharedRefreshServes
  <2>7. CleanLogoutIsFinal'
    BY <1>10 DEF Refreshed, RefreshSettles, NoRequest, Waiting, IInv, SessionTypeOK, Numbered,
        SignedOut, CleanLogoutIsFinal
  <2> QED
    BY <2>1, <2>2, <2>3, <2>4, <2>5, <2>6, <2>7 DEF IInv
<1>11. ASSUME NEW res \in {"ok", "error"}, NotRefreshed PROVE IInv'
  <2>1. SessionTypeOK'
    <3>1. (user \in Cookie)'
      BY <1>11 DEF NotRefreshed, RefreshSettles, NoRequest, Waiting, NoCall, IInv, SessionTypeOK
    <3>2. (crossSite \in BOOLEAN /\ loading \in BOOLEAN /\ late \in BOOLEAN)'
      BY <1>11 DEF NotRefreshed, RefreshSettles, NoRequest, Waiting, NoCall, IInv, SessionTypeOK
    <3>3. (jar \in [id : Cookie, refresh : Cookie] /\ live \subseteq Sessions)'
      BY <1>11 DEF NotRefreshed, RefreshSettles, NoRequest, Waiting, NoCall, IInv, SessionTypeOK
    <3>4. (/\ refresh \in [st : {"idle", "sent", "served"}, cookie : Cookie, ok : BOOLEAN]
          /\ login \in [st : {"idle", "served", "set"}, session : Cookie]
          /\ logout \in [st : {"idle", "sent", "served"}, cookie : Cookie, revoked : BOOLEAN])'
      BY <1>11 DEF NotRefreshed, RefreshSettles, NoRequest, Waiting, NoCall, IInv, SessionTypeOK
    <3>5. (calls \in [Calls -> [kind : {"me", "api"}, st : {"idle", "first", "wait", "again"}, cookie : Cookie]])'
      BY <1>11 DEF NotRefreshed, RefreshSettles, NoRequest, Waiting, NoCall, IInv, SessionTypeOK
    <3>6. (/\ logins \in Cookie /\ expiries \in 0..MaxExpiries /\ reloads \in 0..MaxReloads
          /\ left \subseteq [session : Cookie, clean : BOOLEAN, expired : 0..MaxExpiries])'
      BY <1>11 DEF NotRefreshed, RefreshSettles, NoRequest, Waiting, NoCall, IInv, SessionTypeOK
    <3> QED
      BY <3>1, <3>2, <3>3, <3>4, <3>5, <3>6 DEF SessionTypeOK
  <2>2. Numbered'
    BY <1>11 DEF NotRefreshed, RefreshSettles, NoRequest, Waiting, NoCall, IInv,
        SessionTypeOK, Numbered
  <2>3. SignedOut'
    BY <1>11 DEF NotRefreshed, RefreshSettles, NoRequest, Waiting, NoCall, IInv,
        SessionTypeOK, Numbered, SignedOut
  <2>4. Restoring'
    BY <1>11 DEF NotRefreshed, RefreshSettles, NoRequest, Waiting, NoCall, IInv,
        SessionTypeOK, Restoring, Me
  <2>5. OneSession'
    BY <1>11 DEF NotRefreshed, RefreshSettles, NoRequest, Waiting, NoCall, IInv,
        SessionTypeOK, Restoring, OneSession, Me
  <2>6. SharedRefreshServes'
    BY <1>11 DEF NotRefreshed, RefreshSettles, NoRequest, Waiting, NoCall, IInv,
        SessionTypeOK, Numbered, SharedRefreshServes
  <2>7. CleanLogoutIsFinal'
    BY <1>11 DEF NotRefreshed, RefreshSettles, NoRequest, Waiting, NoCall, IInv,
        SessionTypeOK, Numbered, SignedOut, CleanLogoutIsFinal
  <2> QED
    BY <2>1, <2>2, <2>3, <2>4, <2>5, <2>6, <2>7 DEF IInv
<1>12. ASSUME NEW c \in Calls, Fetch(c) PROVE IInv'
  <2>1. SessionTypeOK'
    BY <1>12 DEF Fetch, FetchCall, IInv, SessionTypeOK
  <2>2. Numbered'
    BY <1>12 DEF Fetch, FetchCall, IInv, SessionTypeOK, Numbered
  <2>3. SignedOut'
    BY <1>12 DEF Fetch, FetchCall, IInv, SessionTypeOK, Numbered, SignedOut
  <2>4. Restoring'
    BY <1>12 DEF Fetch, FetchCall, IInv, SessionTypeOK, Restoring, Me
  <2>5. OneSession'
    BY <1>12 DEF Fetch, FetchCall, IInv, SessionTypeOK, Restoring, OneSession, Me
  <2>6. SharedRefreshServes'
    BY <1>12 DEF Fetch, FetchCall, IInv, SessionTypeOK, Numbered, SharedRefreshServes
  <2>7. CleanLogoutIsFinal'
    BY <1>12 DEF Fetch, FetchCall, IInv, SessionTypeOK, Numbered, SignedOut, CleanLogoutIsFinal
  <2> QED
    BY <2>1, <2>2, <2>3, <2>4, <2>5, <2>6, <2>7 DEF IInv
<1>13. ASSUME NEW c \in Calls, Unauthorized(c) PROVE IInv'
  <2>1. SessionTypeOK'
    BY <1>13 DEF Unauthorized, NoRequest, IInv, SessionTypeOK
  <2>2. Numbered'
    BY <1>13 DEF Unauthorized, NoRequest, IInv, SessionTypeOK, Numbered
  <2>3. SignedOut'
    BY <1>13 DEF Unauthorized, NoRequest, IInv, SessionTypeOK, Numbered, SignedOut
  <2>4. Restoring'
    BY <1>13 DEF Unauthorized, NoRequest, IInv, SessionTypeOK, Restoring, Me
  <2>5. OneSession'
    BY <1>13 DEF Unauthorized, NoRequest, IInv, SessionTypeOK, Restoring, OneSession, Me
  <2>6. SharedRefreshServes'
    BY <1>13 DEF Unauthorized, NoRequest, IInv, SessionTypeOK, Numbered, SharedRefreshServes
  <2>7. CleanLogoutIsFinal'
    BY <1>13 DEF Unauthorized, NoRequest, IInv, SessionTypeOK, Numbered, SignedOut,
        CleanLogoutIsFinal
  <2> QED
    BY <2>1, <2>2, <2>3, <2>4, <2>5, <2>6, <2>7 DEF IInv
<1>14. ASSUME NEW c \in Calls, StillUnauthorized(c) PROVE IInv'
  <2>1. SessionTypeOK'
    <3>1. (user \in Cookie)'
      BY <1>14, "unauth" # "ok" DEF StillUnauthorized, Ends, NoCall, IInv, SessionTypeOK
    <3>2. (crossSite \in BOOLEAN /\ loading \in BOOLEAN /\ late \in BOOLEAN)'
      BY <1>14, "unauth" # "ok" DEF StillUnauthorized, Ends, NoCall, IInv, SessionTypeOK
    <3>3. (jar \in [id : Cookie, refresh : Cookie] /\ live \subseteq Sessions)'
      BY <1>14, "unauth" # "ok" DEF StillUnauthorized, Ends, NoCall, IInv, SessionTypeOK
    <3>4. (/\ refresh \in [st : {"idle", "sent", "served"}, cookie : Cookie, ok : BOOLEAN]
          /\ login \in [st : {"idle", "served", "set"}, session : Cookie]
          /\ logout \in [st : {"idle", "sent", "served"}, cookie : Cookie, revoked : BOOLEAN])'
      BY <1>14, "unauth" # "ok" DEF StillUnauthorized, Ends, NoCall, IInv, SessionTypeOK
    <3>5. (calls \in [Calls -> [kind : {"me", "api"}, st : {"idle", "first", "wait", "again"}, cookie : Cookie]])'
      BY <1>14, "unauth" # "ok" DEF StillUnauthorized, Ends, NoCall, IInv, SessionTypeOK
    <3>6. (/\ logins \in Cookie /\ expiries \in 0..MaxExpiries /\ reloads \in 0..MaxReloads
          /\ left \subseteq [session : Cookie, clean : BOOLEAN, expired : 0..MaxExpiries])'
      BY <1>14, "unauth" # "ok" DEF StillUnauthorized, Ends, NoCall, IInv, SessionTypeOK
    <3> QED
      BY <3>1, <3>2, <3>3, <3>4, <3>5, <3>6 DEF SessionTypeOK
  <2>2. Numbered'
    BY <1>14, "unauth" # "ok" DEF StillUnauthorized, Ends, NoCall, IInv, SessionTypeOK, Numbered
  <2>3. SignedOut'
    BY <1>14, "unauth" # "ok"
      DEF StillUnauthorized, Ends, NoCall, IInv, SessionTypeOK, Numbered, SignedOut
  <2>4. Restoring'
    BY <1>14, "unauth" # "ok"
      DEF StillUnauthorized, Ends, NoCall, IInv, SessionTypeOK, Restoring, Me
  <2>5. OneSession'
    BY <1>14, "unauth" # "ok"
      DEF StillUnauthorized, Ends, NoCall, IInv, SessionTypeOK, Restoring, OneSession, Me
  <2>6. SharedRefreshServes'
    BY <1>14, "unauth" # "ok"
      DEF StillUnauthorized, Ends, NoCall, IInv, SessionTypeOK, Numbered, SharedRefreshServes
  <2>7. CleanLogoutIsFinal'
    BY <1>14, "unauth" # "ok"
      DEF StillUnauthorized, Ends, NoCall, IInv, SessionTypeOK, Numbered, SignedOut,
          CleanLogoutIsFinal
  <2> QED
    BY <2>1, <2>2, <2>3, <2>4, <2>5, <2>6, <2>7 DEF IInv
<1>15. ASSUME NEW c \in Calls, NEW res \in {"ok", "error"}, Answered(c, res) PROVE IInv'
  <2>1. SessionTypeOK'
    <3>1. (user \in Cookie)'
      BY <1>15 DEF Answered, Ends, NoCall, IInv, SessionTypeOK
    <3>2. (crossSite \in BOOLEAN /\ loading \in BOOLEAN /\ late \in BOOLEAN)'
      BY <1>15 DEF Answered, Ends, NoCall, IInv, SessionTypeOK
    <3>3. (jar \in [id : Cookie, refresh : Cookie] /\ live \subseteq Sessions)'
      BY <1>15 DEF Answered, Ends, NoCall, IInv, SessionTypeOK
    <3>4. (/\ refresh \in [st : {"idle", "sent", "served"}, cookie : Cookie, ok : BOOLEAN]
          /\ login \in [st : {"idle", "served", "set"}, session : Cookie]
          /\ logout \in [st : {"idle", "sent", "served"}, cookie : Cookie, revoked : BOOLEAN])'
      BY <1>15 DEF Answered, Ends, NoCall, IInv, SessionTypeOK
    <3>5. (calls \in [Calls -> [kind : {"me", "api"}, st : {"idle", "first", "wait", "again"}, cookie : Cookie]])'
      BY <1>15 DEF Answered, Ends, NoCall, IInv, SessionTypeOK
    <3>6. (/\ logins \in Cookie /\ expiries \in 0..MaxExpiries /\ reloads \in 0..MaxReloads
          /\ left \subseteq [session : Cookie, clean : BOOLEAN, expired : 0..MaxExpiries])'
      BY <1>15 DEF Answered, Ends, NoCall, IInv, SessionTypeOK
    <3> QED
      BY <3>1, <3>2, <3>3, <3>4, <3>5, <3>6 DEF SessionTypeOK
  <2>2. Numbered'
    BY <1>15 DEF Answered, Ends, NoCall, IInv, SessionTypeOK, Numbered
  <2>3. SignedOut'
    BY <1>15 DEF Answered, Ends, NoCall, IInv, SessionTypeOK, Numbered, SignedOut
  <2>4. Restoring'
    BY <1>15 DEF Answered, Ends, NoCall, IInv, SessionTypeOK, Restoring, Me
  <2>5. OneSession'
    BY <1>15 DEF Answered, Ends, NoCall, IInv, SessionTypeOK, Restoring, OneSession, Me
  <2>6. SharedRefreshServes'
    BY <1>15 DEF Answered, Ends, NoCall, IInv, SessionTypeOK, Numbered, SharedRefreshServes
  <2>7. CleanLogoutIsFinal'
    BY <1>15 DEF Answered, Ends, NoCall, IInv, SessionTypeOK, Numbered, SignedOut,
        CleanLogoutIsFinal
  <2> QED
    BY <2>1, <2>2, <2>3, <2>4, <2>5, <2>6, <2>7 DEF IInv
<1>16. CASE UNCHANGED sessionVars
  BY <1>16 DEF sessionVars, IInv, SessionTypeOK, Numbered, SignedOut, Restoring, OneSession, Me,
              SharedRefreshServes, CleanLogoutIsFinal
<1> QED
  BY <1>1, <1>2, <1>3, <1>4, <1>5, <1>6, <1>7, <1>8, <1>9, <1>10, <1>11, <1>12, <1>13, <1>14,
      <1>15, <1>16, <1>17, <1>18, <1>19
  DEF SessionNext, Login, Logout, Settle

LEMMA Invariance == SessionSpec => []IInv
BY InitIInv, IInvNext, PTL DEF SessionSpec

-----------------------------------------------------------------------------
\* Whoever joins a refresh is served by it.
THEOREM RefreshesServe == SessionSpec => []SharedRefreshServes
<1>1. IInv => SharedRefreshServes
  BY DEF IInv
<1> QED
  BY <1>1, Invariance, PTL

\* Nothing brings a session back after a logout that reached Cognito, but a
\* refresh answered before it, and, across sites, the id cookie it had, until
\* that expires.
THEOREM LogoutsAreFinal == SessionSpec => []CleanLogoutIsFinal
<1>1. IInv => CleanLogoutIsFinal
  BY DEF IInv
<1> QED
  BY <1>1, Invariance, PTL

\* Requests act for the user shown, until a refresh is answered too late.
THEOREM TheUserShownActs == SessionSpec => []ActsAsShown
<1>1. IInv => ActsAsShown
  BY DEF IInv, OneSession, ActsAsShown
<1> QED
  BY <1>1, Invariance, PTL

-----------------------------------------------------------------------------
(***************************************************************************)
(* UploadPage.  It uses the session as Session allows, so that what is     *)
(* proved of sessions holds while files are uploaded; and the page claims  *)
(* success only for a job that read the file.                              *)
(***************************************************************************)

Statuses == {"none", "running"} \cup Finals

Job == [st : Statuses, covers : BOOLEAN, caller : Calls \cup {None}, seen : Statuses, polls : 0..MaxPolls]

JobsTyped == jobs \in [1..MaxJobs -> Job]

PageTyped ==
    /\ page \in [st : {"idle", "uploading", "syncing", "success", "duplicate", "sync_failed", "error"},
                 call : Calls \cup {None}]
    /\ upload \in [st : {"idle", "sent", "error", "ok", "duplicate"}, signed : BOOLEAN, heard : BOOLEAN]

\* A sync is only asked for when the file and its sidecar are there.
StoredFirst ==
    page.st \in {"syncing", "sync_failed"} \/ upload.st = "ok" => stored = "whole"

\* The page awaits a call that is under way.
Awaits ==
    page.call # None =>
        page.st = "syncing" /\ calls[page.call].st # "idle" /\ calls[page.call].kind = "api"

\* A job is asked about by a call under way; if the page awaits that one, the
\* job began after the page asked.
AskedAfter ==
    \A i \in 1..MaxJobs : jobs[i].caller # None =>
        /\ Signed(jobs[i].caller)
        /\ jobs[i].caller = page.call => jobs[i].covers

\* A final status is final.
SeenIsFinal ==
    \A i \in 1..MaxJobs : jobs[i].seen \in Finals => jobs[i].st = jobs[i].seen

PInv == JobsTyped /\ PageTyped /\ StoredFirst /\ Awaits /\ AskedAfter /\ SeenIsFinal /\ SuccessIsEarned

-----------------------------------------------------------------------------
LEMMA StepsOfSession == [Next]_uploadVars => [SessionNext]_sessionVars
<1> SUFFICES ASSUME [Next]_uploadVars PROVE [SessionNext]_sessionVars
  OBVIOUS
<1> USE DEF SessionNext, Logout, Settle
<1>1. CASE SessionSteps
  BY <1>1 DEF SessionSteps
<1>2. CASE LeaveBySession
  BY <1>2 DEF LeaveBySession
<1>3. CASE PageReload
  BY <1>3 DEF PageReload
<1>4. CASE RefreshSteps
  BY <1>4 DEF RefreshSteps, PageRefreshed, PageNotRefreshed
<1>5. CASE PageSteps
  BY <1>5 DEF PageSteps, Leave, StartUpload, ServeUpload, UploadFails, UploadLost,
      UploadIsDuplicate, Reset
<1>6. ASSUME NEW c \in Calls, UploadSucceeds(c) \/ RetrySync(c) PROVE [SessionNext]_sessionVars
  BY <1>6 DEF UploadSucceeds, RetrySync
<1>7. ASSUME NEW c \in Calls, StartJob(c) PROVE [SessionNext]_sessionVars
  BY <1>7 DEF StartJob
<1>8. ASSUME NEW c \in Calls, SyncRefused(c) \/ SyncFails(c) \/ CallEnds(c) PROVE [SessionNext]_sessionVars
  BY <1>8 DEF SyncRefused, SyncFails, CallEnds, MeEnds, SyncReturns, SyncTimesOut,
      SyncUnauthorized
<1>9. ASSUME NEW c \in Calls, PageUnauthorized(c) PROVE [SessionNext]_sessionVars
  BY <1>9 DEF PageUnauthorized
<1>10. ASSUME NEW i \in 1..MaxJobs, JobEnds(i) \/ Poll(i) PROVE [SessionNext]_sessionVars
  BY <1>10 DEF JobEnds, Poll
<1>11. CASE UNCHANGED uploadVars
  BY <1>11 DEF uploadVars
<1> QED
  BY <1>1, <1>2, <1>3, <1>4, <1>5, <1>6, <1>7, <1>8, <1>9, <1>10, <1>11 DEF Next

\* The page and its requests are a client of the session.
THEOREM PageUsesTheSession == Spec => SessionSpec
<1>1. Init => SessionInit
  BY DEF Init
<1> QED
  BY <1>1, StepsOfSession, PTL DEF Spec, SessionSpec

-----------------------------------------------------------------------------
LEMMA InitPInv == Init => PInv
<1> SUFFICES ASSUME Init PROVE PInv
  OBVIOUS
<1> USE UploadAssumption
  DEF UploadAssumption, Init, PageInit, Idle, NoUpload, NoJob, Statuses, Finals
<1>1. NoJob \in Job
  BY DEF Job
<1>2. JobsTyped
  BY <1>1 DEF JobsTyped
<1>3. PageTyped
  BY DEF PageTyped
<1>4. StoredFirst /\ Awaits /\ AskedAfter /\ SeenIsFinal /\ SuccessIsEarned
  BY DEF StoredFirst, Awaits, AskedAfter, SeenIsFinal, SuccessIsEarned
<1> QED
  BY <1>2, <1>3, <1>4 DEF PInv

LEMMA ForgottenJob ==
    ASSUME NEW job \in Job
    PROVE  /\ Forgotten(job) \in Job
           /\ Forgotten(job).caller = None /\ Forgotten(job).seen = "none"
           /\ Forgotten(job).st = job.st /\ Forgotten(job).covers = job.covers
<1>1. 0 \in 0..MaxPolls
  BY UploadAssumption DEF UploadAssumption
<1>2. "none" \in Statuses
  BY DEF Statuses
<1> QED
  BY <1>1, <1>2 DEF Job, Forgotten

\* The end of a sync, however it ends.
LEMMA SyncStep ==
    ASSUME SessionTypeOK, PInv, NEW c \in Calls, NEW res,
           calls[c].kind = "api", calls[c].st # "idle",
           calls' = [calls EXCEPT ![c] = NoCall],
           SyncEnds(c, res), UNCHANGED <<upload, stored, indexed>>,
           Served(c) \/ (jobs' = jobs /\ ~BeingServed(c)),
           res = "ok" => \E i \in 1..MaxJobs :
                             Serves(i, c) /\ jobs[i].st \in {"COMPLETE", "MISSED", "FAILED"}
    PROVE  PInv'
<1> USE UploadAssumption DEF UploadAssumption, PInv
<1>1. ASSUME NEW i \in 1..MaxJobs
      PROVE /\ jobs[i] \in Job /\ jobs'[i] \in Job
            /\ jobs'[i].st = jobs[i].st /\ jobs'[i].covers = jobs[i].covers
            /\ jobs'[i].caller # c
            /\ jobs'[i] = jobs[i] \/ (jobs'[i].caller = None /\ jobs'[i].seen = "none")
  <2>1. jobs[i] \in Job
    BY DEF JobsTyped
  <2>2. CASE Served(c)
    BY <2>1, <2>2, ForgottenJob DEF Served, Serves
  <2>3. CASE jobs' = jobs /\ ~BeingServed(c)
    BY <2>1, <2>3 DEF BeingServed, Serves
  <2> QED
    BY <2>2, <2>3
<1>2. /\ \A d \in Calls : d # c => calls'[d] = calls[d]
      /\ page.call = c => page'.call = None /\ page'.st \in {"success", "sync_failed"} /\ page.st = "syncing"
      /\ page.call = c /\ page'.st = "success" => res = "ok"
      /\ page.call # c => page' = page
  BY DEF SessionTypeOK, SyncEnds, Awaits
<1>3. JobsTyped'
  <2>1. jobs' = [i \in 1..MaxJobs |-> jobs'[i]]
    BY DEF Served, JobsTyped
  <2> QED
    BY <1>1, <2>1 DEF JobsTyped
<1>4. PageTyped'
  BY DEF SyncEnds, PageTyped
<1>5. StoredFirst'
  BY <1>2 DEF StoredFirst
<1>6. Awaits'
  BY <1>2 DEF Awaits, PageTyped
<1>7. AskedAfter'
  <2> SUFFICES ASSUME NEW i \in 1..MaxJobs, (jobs[i].caller # None)'
               PROVE  (Signed(jobs[i].caller) /\ (jobs[i].caller = page.call => jobs[i].covers))'
    BY DEF AskedAfter
  <2>1. jobs'[i].caller = jobs[i].caller /\ jobs[i].caller \in Calls /\ jobs[i].caller # c
    BY <1>1 DEF Job
  <2> QED
    BY <1>1, <1>2, <2>1 DEF AskedAfter, Signed
<1>8. SeenIsFinal'
  BY <1>1 DEF SeenIsFinal, Finals
<1>9. SuccessIsEarned'
  <2>1. CASE page.call = c
    BY <1>1, <1>2, <2>1 DEF SuccessIsEarned, AskedAfter, Serves
  <2>2. CASE page.call # c
    BY <1>1, <1>2, <2>2 DEF SuccessIsEarned
  <2> QED
    BY <2>1, <2>2
<1> QED
  BY <1>3, <1>4, <1>5, <1>6, <1>7, <1>8, <1>9

LEMMA PInvNext == SessionTypeOK /\ PInv /\ [Next]_uploadVars => PInv'
<1> SUFFICES ASSUME SessionTypeOK, PInv, [Next]_uploadVars PROVE PInv'
  OBVIOUS
<1> USE UploadAssumption DEF UploadAssumption, pageVars, sessionVars, PInv
<1>1. ASSUME SessionSteps PROVE PInv'
  <2>1. JobsTyped'
    BY <1>1 DEF SessionSteps, Login, ServeLogin, LoginArrives, UserArrives, LoginLost, Expire,
        StartLogout, ServeLogout, LogoutLost, JobsTyped, Job, Statuses, Finals
  <2>2. PageTyped'
    BY <1>1 DEF SessionSteps, Login, ServeLogin, LoginArrives, UserArrives, LoginLost, Expire,
        StartLogout, ServeLogout, LogoutLost, PageTyped
  <2>3. StoredFirst'
    BY <1>1 DEF SessionSteps, Login, ServeLogin, LoginArrives, UserArrives, LoginLost, Expire,
        StartLogout, ServeLogout, LogoutLost, PageTyped, StoredFirst, Awaits
  <2>4. Awaits'
    BY <1>1 DEF SessionSteps, Login, ServeLogin, LoginArrives, UserArrives, LoginLost, Expire,
        StartLogout, ServeLogout, LogoutLost, PageTyped, Awaits, SessionTypeOK
  <2>5. AskedAfter'
    BY <1>1 DEF SessionSteps, Login, ServeLogin, LoginArrives, UserArrives, LoginLost, Expire,
        StartLogout, ServeLogout, LogoutLost, JobsTyped,
        Job, PageTyped, StoredFirst, Awaits, AskedAfter, Signed, SessionTypeOK
  <2>6. SeenIsFinal'
    BY <1>1 DEF SessionSteps, Login, ServeLogin, LoginArrives, UserArrives, LoginLost, Expire,
        StartLogout, ServeLogout, LogoutLost, JobsTyped, Job, Statuses, Finals, SeenIsFinal
  <2>7. SuccessIsEarned'
    BY <1>1 DEF SessionSteps, Login, ServeLogin, LoginArrives, UserArrives, LoginLost, Expire,
        StartLogout, ServeLogout, LogoutLost, JobsTyped,
        Job, Statuses, Finals, SeenIsFinal, AskedAfter, SuccessIsEarned
  <2> QED
    BY <2>1, <2>2, <2>3, <2>4, <2>5, <2>6, <2>7
<1>2. ASSUME LeaveBySession PROVE PInv'
  <2>1. JobsTyped'
    BY <1>2 DEF LeaveBySession, LogoutArrives, LogoutRejected, Unmounted, Idle, JobsTyped,
        Job, Statuses, Finals
  <2>2. PageTyped'
    BY <1>2 DEF LeaveBySession, LogoutArrives, LogoutRejected, Unmounted, Idle, PageTyped
  <2>3. StoredFirst'
    BY <1>2 DEF LeaveBySession, LogoutArrives, LogoutRejected, Unmounted, Idle, PageTyped,
        StoredFirst, Awaits
  <2>4. Awaits'
    BY <1>2 DEF LeaveBySession, LogoutArrives, LogoutRejected, Unmounted, Idle, PageTyped,
        Awaits, SessionTypeOK
  <2>5. AskedAfter'
    BY <1>2 DEF LeaveBySession, LogoutArrives, LogoutRejected, Unmounted, Idle, JobsTyped,
        Job, PageTyped, StoredFirst, Awaits, AskedAfter, Signed, SessionTypeOK
  <2>6. SeenIsFinal'
    BY <1>2 DEF LeaveBySession, LogoutArrives, LogoutRejected, Unmounted, Idle, JobsTyped,
        Job, Statuses, Finals, SeenIsFinal
  <2>7. SuccessIsEarned'
    BY <1>2 DEF LeaveBySession, LogoutArrives, LogoutRejected, Unmounted, Idle, JobsTyped,
        Job, Statuses, Finals, SeenIsFinal, AskedAfter, SuccessIsEarned
  <2> QED
    BY <2>1, <2>2, <2>3, <2>4, <2>5, <2>6, <2>7
<1>3. ASSUME PageReload PROVE PInv'
  <2>1. JobsTyped'
    <3>1. \A i \in 1..MaxJobs : Forgotten(jobs[i]) \in Job
      BY ForgottenJob DEF JobsTyped
    <3> QED
      BY <1>3, <3>1 DEF PageReload, JobsTyped
  <2>2. PageTyped'
    BY <1>3 DEF PageReload, Reload, LoadsWith, Forgotten, Idle, NoUpload, StoreSteps, NoCall,
        FetchCall, PageTyped
  <2>3. StoredFirst'
    BY <1>3 DEF PageReload, Reload, LoadsWith, Forgotten, Idle, NoUpload, StoreSteps, NoCall,
        FetchCall, PageTyped, StoredFirst, Awaits
  <2>4. Awaits'
    BY <1>3 DEF PageReload, Reload, LoadsWith, Forgotten, Idle, NoUpload, StoreSteps, NoCall,
        FetchCall, PageTyped, Awaits, SessionTypeOK
  <2>5. AskedAfter'
    <3>1. \A i \in 1..MaxJobs : jobs'[i].caller = None
      BY <1>3, ForgottenJob DEF PageReload, JobsTyped
    <3> QED
      BY <3>1 DEF AskedAfter
  <2>6. SeenIsFinal'
    <3>1. \A i \in 1..MaxJobs : jobs'[i].seen = "none"
      BY <1>3, ForgottenJob DEF PageReload, JobsTyped
    <3> QED
      BY <3>1 DEF SeenIsFinal, Finals
  <2>7. SuccessIsEarned'
    BY <1>3 DEF PageReload, Reload, LoadsWith, Forgotten, Idle, NoUpload, StoreSteps, NoCall,
        FetchCall, JobsTyped, Job, Statuses, Finals, SeenIsFinal, AskedAfter, SuccessIsEarned
  <2> QED
    BY <2>1, <2>2, <2>3, <2>4, <2>5, <2>6, <2>7
<1>4. ASSUME ServeRefresh /\ UNCHANGED pageVars PROVE PInv'
  <2>1. JobsTyped'
    BY <1>4 DEF ServeRefresh, JobsTyped, Job, Statuses, Finals
  <2>2. PageTyped'
    BY <1>4 DEF ServeRefresh, PageTyped
  <2>3. StoredFirst'
    BY <1>4 DEF ServeRefresh, PageTyped, StoredFirst, Awaits
  <2>4. Awaits'
    BY <1>4 DEF ServeRefresh, PageTyped, Awaits, SessionTypeOK
  <2>5. AskedAfter'
    BY <1>4 DEF ServeRefresh, JobsTyped, Job, PageTyped, StoredFirst, Awaits, AskedAfter,
        Signed, SessionTypeOK
  <2>6. SeenIsFinal'
    BY <1>4 DEF ServeRefresh, JobsTyped, Job, Statuses, Finals, SeenIsFinal
  <2>7. SuccessIsEarned'
    BY <1>4 DEF ServeRefresh, JobsTyped, Job, Statuses, Finals, SeenIsFinal, AskedAfter,
        SuccessIsEarned
  <2> QED
    BY <2>1, <2>2, <2>3, <2>4, <2>5, <2>6, <2>7
<1>5. ASSUME PageRefreshed PROVE PInv'
  <2>1. JobsTyped'
    BY <1>5 DEF PageRefreshed, Refreshed, Waiting, JobsTyped, Job, Statuses, Finals
  <2>2. PageTyped'
    BY <1>5 DEF PageRefreshed, Refreshed, Waiting, PageTyped
  <2>3. StoredFirst'
    BY <1>5 DEF PageRefreshed, Refreshed, Waiting, PageTyped, StoredFirst, Awaits
  <2>4. Awaits'
    <3>1. \A d \in Calls : calls'[d].kind = calls[d].kind /\ (calls[d].st # "idle" => calls'[d].st # "idle")
      BY <1>5 DEF PageRefreshed, Refreshed, SessionTypeOK
    <3> QED
      BY <1>5, <3>1 DEF PageRefreshed, PageTyped, Awaits
  <2>5. AskedAfter'
    BY <1>5 DEF PageRefreshed, Refreshed, Waiting, JobsTyped, Job, PageTyped, StoredFirst,
        Awaits, AskedAfter, Signed, SessionTypeOK
  <2>6. SeenIsFinal'
    BY <1>5 DEF PageRefreshed, Refreshed, Waiting, JobsTyped, Job, Statuses, Finals, SeenIsFinal
  <2>7. SuccessIsEarned'
    BY <1>5 DEF PageRefreshed, Refreshed, Waiting, JobsTyped, Job, Statuses, Finals,
        SeenIsFinal, AskedAfter, SuccessIsEarned
  <2> QED
    BY <2>1, <2>2, <2>3, <2>4, <2>5, <2>6, <2>7
<1>6. ASSUME PageNotRefreshed PROVE PInv'
  <2>1. JobsTyped'
    BY <1>6 DEF PageNotRefreshed, NotRefreshed, Waiting, NoCall, JobsTyped, Job, Statuses,
        Finals
  <2>2. PageTyped'
    BY <1>6 DEF PageNotRefreshed, NotRefreshed, Waiting, NoCall, PageTyped
  <2>3. StoredFirst'
    BY <1>6 DEF PageNotRefreshed, NotRefreshed, Waiting, NoCall, PageTyped, StoredFirst, Awaits
  <2>4. Awaits'
    BY <1>6 DEF PageNotRefreshed, NotRefreshed, Waiting, NoCall, PageTyped, Awaits,
        SessionTypeOK
  <2>5. AskedAfter'
    BY <1>6 DEF PageNotRefreshed, NotRefreshed, Waiting, NoCall, JobsTyped, Job, PageTyped,
        StoredFirst, Awaits, AskedAfter, Signed, SessionTypeOK
  <2>6. SeenIsFinal'
    BY <1>6 DEF PageNotRefreshed, NotRefreshed, Waiting, NoCall, JobsTyped, Job, Statuses,
        Finals, SeenIsFinal
  <2>7. SuccessIsEarned'
    BY <1>6 DEF PageNotRefreshed, NotRefreshed, Waiting, NoCall, JobsTyped, Job, Statuses,
        Finals, SeenIsFinal, AskedAfter, SuccessIsEarned
  <2> QED
    BY <2>1, <2>2, <2>3, <2>4, <2>5, <2>6, <2>7
<1>7. ASSUME Leave PROVE PInv'
  <2>1. JobsTyped'
    BY <1>7 DEF Leave, Unmounted, Idle, JobsTyped, Job, Statuses, Finals
  <2>2. PageTyped'
    BY <1>7 DEF Leave, Unmounted, Idle, PageTyped
  <2>3. StoredFirst'
    BY <1>7 DEF Leave, Unmounted, Idle, PageTyped, StoredFirst, Awaits
  <2>4. Awaits'
    BY <1>7 DEF Leave, Unmounted, Idle, PageTyped, Awaits, SessionTypeOK
  <2>5. AskedAfter'
    BY <1>7 DEF Leave, Unmounted, Idle, JobsTyped, Job, PageTyped, StoredFirst, Awaits,
        AskedAfter, Signed, SessionTypeOK
  <2>6. SeenIsFinal'
    BY <1>7 DEF Leave, Unmounted, Idle, JobsTyped, Job, Statuses, Finals, SeenIsFinal
  <2>7. SuccessIsEarned'
    BY <1>7 DEF Leave, Unmounted, Idle, JobsTyped, Job, Statuses, Finals, SeenIsFinal,
        AskedAfter, SuccessIsEarned
  <2> QED
    BY <2>1, <2>2, <2>3, <2>4, <2>5, <2>6, <2>7
<1>8. ASSUME StartUpload PROVE PInv'
  <2>1. JobsTyped'
    BY <1>8 DEF StartUpload, JobsTyped, Job, Statuses, Finals
  <2>2. PageTyped'
    BY <1>8 DEF StartUpload, PageTyped
  <2>3. StoredFirst'
    BY <1>8 DEF StartUpload, PageTyped, StoredFirst, Awaits
  <2>4. Awaits'
    BY <1>8 DEF StartUpload, PageTyped, Awaits, SessionTypeOK
  <2>5. AskedAfter'
    BY <1>8 DEF StartUpload, JobsTyped, Job, PageTyped, StoredFirst, Awaits, AskedAfter,
        Signed, SessionTypeOK
  <2>6. SeenIsFinal'
    BY <1>8 DEF StartUpload, JobsTyped, Job, Statuses, Finals, SeenIsFinal
  <2>7. SuccessIsEarned'
    BY <1>8 DEF StartUpload, JobsTyped, Job, Statuses, Finals, SeenIsFinal, AskedAfter,
        SuccessIsEarned
  <2> QED
    BY <2>1, <2>2, <2>3, <2>4, <2>5, <2>6, <2>7
<1>9. ASSUME ServeUpload PROVE PInv'
  <2>1. JobsTyped'
    BY <1>9 DEF ServeUpload, StoreSteps, JobsTyped, Job, Statuses, Finals
  <2>2. PageTyped'
    BY <1>9 DEF ServeUpload, StoreSteps, PageTyped
  <2>3. StoredFirst'
    BY <1>9 DEF ServeUpload, StoreSteps, PageTyped, StoredFirst, Awaits
  <2>4. Awaits'
    BY <1>9 DEF ServeUpload, StoreSteps, PageTyped, Awaits, SessionTypeOK
  <2>5. AskedAfter'
    BY <1>9 DEF ServeUpload, StoreSteps, JobsTyped, Job, PageTyped, StoredFirst, Awaits,
        AskedAfter, Signed, SessionTypeOK
  <2>6. SeenIsFinal'
    BY <1>9 DEF ServeUpload, StoreSteps, JobsTyped, Job, Statuses, Finals, SeenIsFinal
  <2>7. SuccessIsEarned'
    BY <1>9 DEF ServeUpload, StoreSteps, JobsTyped, Job, Statuses, Finals, SeenIsFinal,
        AskedAfter, SuccessIsEarned
  <2> QED
    BY <2>1, <2>2, <2>3, <2>4, <2>5, <2>6, <2>7
<1>10. ASSUME UploadFails PROVE PInv'
  <2>1. JobsTyped'
    BY <1>10 DEF UploadFails, Hears, NoUpload, JobsTyped, Job, Statuses, Finals
  <2>2. PageTyped'
    BY <1>10 DEF UploadFails, Hears, NoUpload, PageTyped
  <2>3. StoredFirst'
    BY <1>10 DEF UploadFails, Hears, NoUpload, PageTyped, StoredFirst, Awaits
  <2>4. Awaits'
    BY <1>10 DEF UploadFails, Hears, NoUpload, PageTyped, Awaits, SessionTypeOK
  <2>5. AskedAfter'
    BY <1>10 DEF UploadFails, Hears, NoUpload, JobsTyped, Job, PageTyped, StoredFirst, Awaits,
        AskedAfter, Signed, SessionTypeOK
  <2>6. SeenIsFinal'
    BY <1>10 DEF UploadFails, Hears, NoUpload, JobsTyped, Job, Statuses, Finals, SeenIsFinal
  <2>7. SuccessIsEarned'
    BY <1>10 DEF UploadFails, Hears, NoUpload, JobsTyped, Job, Statuses, Finals, SeenIsFinal,
        AskedAfter, SuccessIsEarned
  <2> QED
    BY <2>1, <2>2, <2>3, <2>4, <2>5, <2>6, <2>7
<1>11. ASSUME UploadLost PROVE PInv'
  <2>1. JobsTyped'
    BY <1>11 DEF UploadLost, Hears, NoUpload, JobsTyped, Job, Statuses, Finals
  <2>2. PageTyped'
    BY <1>11 DEF UploadLost, Hears, NoUpload, PageTyped
  <2>3. StoredFirst'
    BY <1>11 DEF UploadLost, Hears, NoUpload, PageTyped, StoredFirst, Awaits
  <2>4. Awaits'
    BY <1>11 DEF UploadLost, Hears, NoUpload, PageTyped, Awaits, SessionTypeOK
  <2>5. AskedAfter'
    BY <1>11 DEF UploadLost, Hears, NoUpload, JobsTyped, Job, PageTyped, StoredFirst, Awaits,
        AskedAfter, Signed, SessionTypeOK
  <2>6. SeenIsFinal'
    BY <1>11 DEF UploadLost, Hears, NoUpload, JobsTyped, Job, Statuses, Finals, SeenIsFinal
  <2>7. SuccessIsEarned'
    BY <1>11 DEF UploadLost, Hears, NoUpload, JobsTyped, Job, Statuses, Finals, SeenIsFinal,
        AskedAfter, SuccessIsEarned
  <2> QED
    BY <2>1, <2>2, <2>3, <2>4, <2>5, <2>6, <2>7
<1>12. ASSUME UploadIsDuplicate PROVE PInv'
  <2>1. JobsTyped'
    BY <1>12 DEF UploadIsDuplicate, Hears, NoUpload, JobsTyped, Job, Statuses, Finals
  <2>2. PageTyped'
    BY <1>12 DEF UploadIsDuplicate, Hears, NoUpload, PageTyped
  <2>3. StoredFirst'
    BY <1>12 DEF UploadIsDuplicate, Hears, NoUpload, PageTyped, StoredFirst, Awaits
  <2>4. Awaits'
    BY <1>12 DEF UploadIsDuplicate, Hears, NoUpload, PageTyped, Awaits, SessionTypeOK
  <2>5. AskedAfter'
    BY <1>12 DEF UploadIsDuplicate, Hears, NoUpload, JobsTyped, Job, PageTyped, StoredFirst,
        Awaits, AskedAfter, Signed, SessionTypeOK
  <2>6. SeenIsFinal'
    BY <1>12 DEF UploadIsDuplicate, Hears, NoUpload, JobsTyped, Job, Statuses, Finals,
        SeenIsFinal
  <2>7. SuccessIsEarned'
    BY <1>12 DEF UploadIsDuplicate, Hears, NoUpload, JobsTyped, Job, Statuses, Finals,
        SeenIsFinal, AskedAfter, SuccessIsEarned
  <2> QED
    BY <2>1, <2>2, <2>3, <2>4, <2>5, <2>6, <2>7
<1>13. ASSUME Reset PROVE PInv'
  <2>1. JobsTyped'
    BY <1>13 DEF Reset, Idle, JobsTyped, Job, Statuses, Finals
  <2>2. PageTyped'
    BY <1>13 DEF Reset, Idle, PageTyped
  <2>3. StoredFirst'
    BY <1>13 DEF Reset, Idle, PageTyped, StoredFirst, Awaits
  <2>4. Awaits'
    BY <1>13 DEF Reset, Idle, PageTyped, Awaits, SessionTypeOK
  <2>5. AskedAfter'
    BY <1>13 DEF Reset, Idle, JobsTyped, Job, PageTyped, StoredFirst, Awaits, AskedAfter,
        Signed, SessionTypeOK
  <2>6. SeenIsFinal'
    BY <1>13 DEF Reset, Idle, JobsTyped, Job, Statuses, Finals, SeenIsFinal
  <2>7. SuccessIsEarned'
    BY <1>13 DEF Reset, Idle, JobsTyped, Job, Statuses, Finals, SeenIsFinal, AskedAfter,
        SuccessIsEarned
  <2> QED
    BY <2>1, <2>2, <2>3, <2>4, <2>5, <2>6, <2>7
<1>14. ASSUME NEW c \in Calls, UploadSucceeds(c) PROVE PInv'
  <2>1. JobsTyped'
    BY <1>14 DEF UploadSucceeds, Fetch, FetchCall, NoUpload, JobsTyped, Job, Statuses, Finals
  <2>2. PageTyped'
    BY <1>14 DEF UploadSucceeds, Fetch, FetchCall, NoUpload, PageTyped
  <2>3. StoredFirst'
    BY <1>14 DEF UploadSucceeds, Fetch, FetchCall, NoUpload, PageTyped, StoredFirst, Awaits
  <2>4. Awaits'
    BY <1>14 DEF UploadSucceeds, Fetch, FetchCall, NoUpload, PageTyped, Awaits, SessionTypeOK
  <2>5. AskedAfter'
    BY <1>14 DEF UploadSucceeds, Fetch, FetchCall, NoUpload, JobsTyped, Job, PageTyped,
        StoredFirst, Awaits, AskedAfter, Signed, SessionTypeOK
  <2>6. SeenIsFinal'
    BY <1>14 DEF UploadSucceeds, Fetch, FetchCall, NoUpload, JobsTyped, Job, Statuses, Finals,
        SeenIsFinal
  <2>7. SuccessIsEarned'
    BY <1>14 DEF UploadSucceeds, Fetch, FetchCall, NoUpload, JobsTyped, Job, Statuses, Finals,
        SeenIsFinal, AskedAfter, SuccessIsEarned
  <2> QED
    BY <2>1, <2>2, <2>3, <2>4, <2>5, <2>6, <2>7
<1>15. ASSUME NEW c \in Calls, RetrySync(c) PROVE PInv'
  <2>1. JobsTyped'
    BY <1>15 DEF RetrySync, Fetch, FetchCall, JobsTyped, Job, Statuses, Finals
  <2>2. PageTyped'
    BY <1>15 DEF RetrySync, Fetch, FetchCall, PageTyped
  <2>3. StoredFirst'
    BY <1>15 DEF RetrySync, Fetch, FetchCall, PageTyped, StoredFirst, Awaits
  <2>4. Awaits'
    BY <1>15 DEF RetrySync, Fetch, FetchCall, PageTyped, Awaits, SessionTypeOK
  <2>5. AskedAfter'
    BY <1>15 DEF RetrySync, Fetch, FetchCall, JobsTyped, Job, PageTyped, StoredFirst, Awaits,
        AskedAfter, Signed, SessionTypeOK
  <2>6. SeenIsFinal'
    BY <1>15 DEF RetrySync, Fetch, FetchCall, JobsTyped, Job, Statuses, Finals, SeenIsFinal
  <2>7. SuccessIsEarned'
    BY <1>15 DEF RetrySync, Fetch, FetchCall, JobsTyped, Job, Statuses, Finals, SeenIsFinal,
        AskedAfter, SuccessIsEarned
  <2> QED
    BY <2>1, <2>2, <2>3, <2>4, <2>5, <2>6, <2>7
<1>16. ASSUME NEW c \in Calls, StartJob(c) PROVE PInv'
  <2>1. JobsTyped'
    <3>1. [NoJob EXCEPT !.st = "running", !.covers = stored = "whole", !.caller = c] \in Job
      <4>1. 0 \in 0..MaxPolls /\ "none" \in Statuses /\ "running" \in Statuses
        BY DEF Statuses
      <4>2. (stored = "whole") \in BOOLEAN
        OBVIOUS
      <4> QED
        BY <4>1, <4>2 DEF NoJob, Job
    <3> QED
      BY <1>16, <3>1 DEF StartJob, JobsTyped
  <2>2. PageTyped'
    BY <1>16 DEF StartJob, BeingServed, Serves, NoJob, Running, PageTyped
  <2>3. StoredFirst'
    BY <1>16 DEF StartJob, BeingServed, Serves, NoJob, Running, PageTyped, StoredFirst, Awaits
  <2>4. Awaits'
    BY <1>16 DEF StartJob, BeingServed, Serves, NoJob, Running, PageTyped, Awaits, SessionTypeOK
  <2>5. AskedAfter'
    <3>1. PICK k \in 1..MaxJobs :
            jobs' = [jobs EXCEPT ![k] = [NoJob EXCEPT !.st = "running", !.covers = stored = "whole", !.caller = c]]
      BY <1>16 DEF StartJob
    <3>2. jobs'[k].caller = c /\ jobs'[k].covers = (stored = "whole")
      BY <3>1 DEF JobsTyped, NoJob
    <3>3. \A i \in 1..MaxJobs : i # k => jobs'[i] = jobs[i]
      BY <3>1 DEF JobsTyped
    <3>4. Signed(c) /\ UNCHANGED <<calls, page, stored>>
      BY <1>16 DEF StartJob
    <3>5. c = page.call => stored = "whole"
      BY DEF Awaits, StoredFirst
    <3> SUFFICES ASSUME NEW i \in 1..MaxJobs, jobs'[i].caller # None
                 PROVE  Signed(jobs'[i].caller) /\ (jobs'[i].caller = page.call => jobs'[i].covers)
      BY <3>4 DEF AskedAfter, Signed
    <3>6. CASE i = k
      BY <3>2, <3>4, <3>5, <3>6
    <3>7. CASE i # k
      BY <3>3, <3>7 DEF AskedAfter
    <3> QED
      BY <3>6, <3>7
  <2>6. SeenIsFinal'
    BY <1>16 DEF StartJob, BeingServed, Serves, NoJob, Running, JobsTyped, Job, Statuses,
        Finals, SeenIsFinal
  <2>7. SuccessIsEarned'
    BY <1>16 DEF StartJob, BeingServed, Serves, NoJob, Running, JobsTyped, Job, Statuses,
        Finals, SeenIsFinal, AskedAfter, SuccessIsEarned
  <2> QED
    BY <2>1, <2>2, <2>3, <2>4, <2>5, <2>6, <2>7
<1>17. ASSUME NEW c \in Calls, SyncFails(c) PROVE PInv'
  <2>1. calls[c].st # "idle" /\ calls' = [calls EXCEPT ![c] = NoCall]
    BY <1>17 DEF SyncFails, Answered
  <2> QED
    BY <1>17, <2>1, SyncStep, "error" # "ok" DEF SyncFails
<1>18. ASSUME NEW c \in Calls, SyncReturns(c) PROVE PInv'
  <2>1. PICK i \in 1..MaxJobs : Serves(i, c) /\ Terminal(jobs[i].seen)
    BY <1>18 DEF SyncReturns
  <2>2. jobs[i].st \in {"COMPLETE", "MISSED", "FAILED"}
    BY <2>1 DEF SeenIsFinal, Finals, Terminal
  <2>3. calls[c].kind = "api" /\ calls[c].st # "idle"
    BY <2>1 DEF AskedAfter, Signed, Serves
  <2>4. calls' = [calls EXCEPT ![c] = NoCall]
    BY <1>18 DEF SyncReturns, Answered
  <2> QED
    BY <1>18, <2>1, <2>2, <2>3, <2>4, SyncStep DEF SyncReturns
<1>19. ASSUME NEW c \in Calls, SyncUnauthorized(c) PROVE PInv'
  <2>1. calls[c].st # "idle" /\ calls' = [calls EXCEPT ![c] = NoCall] /\ ~BeingServed(c)
    BY <1>19 DEF SyncUnauthorized, StillUnauthorized
  <2> QED
    BY <1>19, <2>1, SyncStep, "unauth" # "ok" DEF SyncUnauthorized
<1>20. ASSUME NEW c \in Calls, MeEnds(c) PROVE PInv'
  <2>1. JobsTyped'
    BY <1>20 DEF MeEnds, StillUnauthorized, Answered, NoCall, JobsTyped, Job, Statuses, Finals
  <2>2. PageTyped'
    BY <1>20 DEF MeEnds, StillUnauthorized, Answered, NoCall, PageTyped
  <2>3. StoredFirst'
    BY <1>20 DEF MeEnds, StillUnauthorized, Answered, NoCall, PageTyped, StoredFirst, Awaits
  <2>4. Awaits'
    BY <1>20 DEF MeEnds, StillUnauthorized, Answered, NoCall, PageTyped, Awaits, SessionTypeOK
  <2>5. AskedAfter'
    <3>1. calls[c].kind = "me" /\ (\A d \in Calls : d # c => calls'[d] = calls[d]) /\ UNCHANGED pageVars
      BY <1>20 DEF MeEnds, StillUnauthorized, Answered, SessionTypeOK
    <3>2. \A i \in 1..MaxJobs : jobs[i].caller \in Calls \cup {None}
      BY DEF JobsTyped, Job
    <3> QED
      BY <3>1, <3>2 DEF AskedAfter, Signed
  <2>6. SeenIsFinal'
    BY <1>20 DEF MeEnds, StillUnauthorized, Answered, NoCall, JobsTyped, Job, Statuses,
        Finals, SeenIsFinal
  <2>7. SuccessIsEarned'
    BY <1>20 DEF MeEnds, StillUnauthorized, Answered, NoCall, JobsTyped, Job, Statuses,
        Finals, SeenIsFinal, AskedAfter, SuccessIsEarned
  <2> QED
    BY <2>1, <2>2, <2>3, <2>4, <2>5, <2>6, <2>7
<1>21. ASSUME NEW c \in Calls, PageUnauthorized(c) PROVE PInv'
  <2>1. JobsTyped'
    BY <1>21 DEF PageUnauthorized, Unauthorized, JobsTyped, Job, Statuses, Finals
  <2>2. PageTyped'
    BY <1>21 DEF PageUnauthorized, Unauthorized, PageTyped
  <2>3. StoredFirst'
    BY <1>21 DEF PageUnauthorized, Unauthorized, PageTyped, StoredFirst, Awaits
  <2>4. Awaits'
    BY <1>21 DEF PageUnauthorized, Unauthorized, PageTyped, Awaits, SessionTypeOK
  <2>5. AskedAfter'
    <3>1. \A d \in Calls : d # c => calls'[d] = calls[d]
      BY <1>21 DEF PageUnauthorized, Unauthorized, SessionTypeOK
    <3>2. \A i \in 1..MaxJobs : jobs[i].caller # c /\ jobs[i].caller \in Calls \cup {None}
      BY <1>21 DEF PageUnauthorized, BeingServed, Serves, JobsTyped, Job
    <3> QED
      BY <1>21, <3>1, <3>2 DEF PageUnauthorized, AskedAfter, Signed
  <2>6. SeenIsFinal'
    BY <1>21 DEF PageUnauthorized, Unauthorized, JobsTyped, Job, Statuses, Finals, SeenIsFinal
  <2>7. SuccessIsEarned'
    BY <1>21 DEF PageUnauthorized, Unauthorized, JobsTyped, Job, Statuses, Finals,
        SeenIsFinal, AskedAfter, SuccessIsEarned
  <2> QED
    BY <2>1, <2>2, <2>3, <2>4, <2>5, <2>6, <2>7
<1>22. ASSUME NEW i \in 1..MaxJobs, JobEnds(i) PROVE PInv'
  <2>1. JobsTyped'
    BY <1>22 DEF JobEnds, JobsTyped, Job, Statuses, Finals
  <2>2. PageTyped'
    BY <1>22 DEF JobEnds, PageTyped
  <2>3. StoredFirst'
    BY <1>22 DEF JobEnds, PageTyped, StoredFirst, Awaits
  <2>4. Awaits'
    BY <1>22 DEF JobEnds, PageTyped, Awaits, SessionTypeOK
  <2>5. AskedAfter'
    BY <1>22 DEF JobEnds, JobsTyped, Job, PageTyped, StoredFirst, Awaits, AskedAfter, Signed,
        SessionTypeOK
  <2>6. SeenIsFinal'
    BY <1>22 DEF JobEnds, JobsTyped, Job, Statuses, Finals, SeenIsFinal
  <2>7. SuccessIsEarned'
    BY <1>22 DEF JobEnds, JobsTyped, Job, Statuses, Finals, SeenIsFinal, AskedAfter,
        SuccessIsEarned
  <2> QED
    BY <2>1, <2>2, <2>3, <2>4, <2>5, <2>6, <2>7
<1>23. ASSUME NEW i \in 1..MaxJobs, Poll(i) PROVE PInv'
  <2>1. JobsTyped'
    <3>1. jobs[i] \in Job
      BY DEF JobsTyped
    <3>2. [jobs[i] EXCEPT !.seen = jobs[i].st, !.polls = IF jobs[i].polls < MaxPolls THEN jobs[i].polls + 1
                                                         ELSE jobs[i].polls] \in Job
      <4> DEFINE p == IF jobs[i].polls < MaxPolls THEN jobs[i].polls + 1 ELSE jobs[i].polls
      <4>1. p \in 0..MaxPolls
        BY <3>1 DEF Job
      <4> HIDE DEF p
      <4>2. [jobs[i] EXCEPT !.seen = jobs[i].st, !.polls = p] \in Job
        BY <3>1, <4>1 DEF Job
      <4> QED
        BY <4>2 DEF p
    <3> QED
      BY <1>23, <3>2 DEF Poll, JobsTyped
  <2>2. PageTyped'
    BY <1>23 DEF Poll, PageTyped
  <2>3. StoredFirst'
    BY <1>23 DEF Poll, PageTyped, StoredFirst, Awaits
  <2>4. Awaits'
    BY <1>23 DEF Poll, PageTyped, Awaits, SessionTypeOK
  <2>5. AskedAfter'
    BY <1>23 DEF Poll, JobsTyped, Job, PageTyped, StoredFirst, Awaits, AskedAfter, Signed,
        SessionTypeOK
  <2>6. SeenIsFinal'
    BY <1>23 DEF Poll, JobsTyped, Job, Statuses, Finals, SeenIsFinal
  <2>7. SuccessIsEarned'
    BY <1>23 DEF Poll, JobsTyped, Job, Statuses, Finals, SeenIsFinal, AskedAfter,
        SuccessIsEarned
  <2> QED
    BY <2>1, <2>2, <2>3, <2>4, <2>5, <2>6, <2>7
<1>24. ASSUME UNCHANGED uploadVars PROVE PInv'
  <2>1. JobsTyped'
    BY <1>24 DEF uploadVars, JobsTyped, Job, Statuses, Finals
  <2>2. PageTyped'
    BY <1>24 DEF uploadVars, PageTyped
  <2>3. StoredFirst'
    BY <1>24 DEF uploadVars, PageTyped, StoredFirst, Awaits
  <2>4. Awaits'
    BY <1>24 DEF uploadVars, PageTyped, Awaits, SessionTypeOK
  <2>5. AskedAfter'
    BY <1>24 DEF uploadVars, JobsTyped, Job, PageTyped, StoredFirst, Awaits, AskedAfter,
        Signed, SessionTypeOK
  <2>6. SeenIsFinal'
    BY <1>24 DEF uploadVars, JobsTyped, Job, Statuses, Finals, SeenIsFinal
  <2>7. SuccessIsEarned'
    BY <1>24 DEF uploadVars, JobsTyped, Job, Statuses, Finals, SeenIsFinal, AskedAfter,
        SuccessIsEarned
  <2> QED
    BY <2>1, <2>2, <2>3, <2>4, <2>5, <2>6, <2>7
<1> QED
  BY <1>1, <1>2, <1>3, <1>4, <1>5, <1>6, <1>7, <1>8, <1>9, <1>10, <1>11, <1>12, <1>13, <1>14,
      <1>15, <1>16, <1>17, <1>18, <1>19, <1>20, <1>21, <1>22, <1>23, <1>24
  DEF Next, PageSteps, RefreshSteps, SyncRefused, CallEnds, SyncTimesOut

\* "Uploaded and indexed" is only said when a job that began after the file was
\* stored has ended by itself.
THEOREM SuccessFollowsItsJob == Spec => []SuccessIsEarned
<1>1. Spec => []SessionTypeOK
  <2>1. IInv => SessionTypeOK
    BY DEF IInv
  <2> QED
    BY <2>1, PageUsesTheSession, Invariance, PTL
<1>2. PInv => SuccessIsEarned
  BY DEF PInv
<1> QED
  BY <1>1, <1>2, InitPInv, PInvNext, PTL DEF Spec

-----------------------------------------------------------------------------
(***************************************************************************)
(* A call through apiFetch runs down: it is sent, may wait for the shared  *)
(* refresh and is sent again, or a job is started for it and polled until  *)
(* the deadline.                                                           *)
(***************************************************************************)
\* A job that was never started is nobody's, and no call has two.
Servers ==
    \A i \in 1..MaxJobs :
        /\ jobs[i].st = "none" => jobs[i].caller = None
        /\ \A k \in 1..MaxJobs : jobs[i].caller # None /\ jobs[k].caller = jobs[i].caller => k = i

\* How often the job of a call was polled, if it has one.
PollsOf(c) == {jobs[i].polls : i \in {k \in 1..MaxJobs : Serves(k, c)}}

CallWork(c) ==
    CASE calls[c].st = "idle" -> 0
      [] calls[c].st = "first" /\ PollsOf(c) = {} -> MaxPolls + 4
      [] calls[c].st = "wait" -> MaxPolls + 3
      [] calls[c].st = "again" /\ PollsOf(c) = {} -> MaxPolls + 2
      [] calls[c].st \in {"first", "again"} /\ PollsOf(c) # {} ->
             MaxPolls + 1 - (CHOOSE p \in PollsOf(c) : TRUE)

LEMMA JobsAreTyped ==
    ASSUME PInv, NEW i \in 1..MaxJobs
    PROVE  /\ jobs[i] \in Job /\ jobs[i].polls \in 0..MaxPolls
           /\ jobs[i].caller \in Calls \cup {None}
           /\ jobs[i].caller # None => calls[jobs[i].caller].st \in {"first", "again"}
BY DEF PInv, JobsTyped, Job, AskedAfter, Signed

LEMMA PollsOfTheServed ==
    ASSUME PInv, Servers, NEW i \in 1..MaxJobs, NEW c \in Calls, Serves(i, c)
    PROVE  PollsOf(c) = {jobs[i].polls} /\ calls[c].st \in {"first", "again"}
<1>1. c # None /\ jobs[i].caller = c
  BY UploadAssumption DEF UploadAssumption, Serves
<1>2. {k \in 1..MaxJobs : Serves(k, c)} = {i}
  BY <1>1 DEF Servers, Serves
<1> QED
  BY <1>1, <1>2, JobsAreTyped DEF PollsOf

LEMMA PollsOfTheUnserved ==
    ASSUME NEW c
    PROVE  PollsOf(c) = {} <=> ~BeingServed(c)
BY DEF PollsOf, BeingServed

LEMMA WorkOfCall ==
    ASSUME SessionTypeOK, PInv, Servers, NEW c \in Calls
    PROVE  /\ CallWork(c) \in 0..(MaxPolls + 4)
           /\ CallWork(c) = 0 <=> calls[c].st = "idle"
<1> USE UploadAssumption DEF UploadAssumption
<1>1. calls[c].st \in {"idle", "first", "wait", "again"} /\ MaxPolls \in Nat
  BY DEF SessionTypeOK
<1>2. CASE PollsOf(c) = {}
  BY <1>1, <1>2 DEF CallWork
<1>3. CASE PollsOf(c) # {}
  <2>1. PICK i \in 1..MaxJobs : Serves(i, c)
    BY <1>3, PollsOfTheUnserved DEF BeingServed
  <2>2. jobs[i].polls \in 0..MaxPolls
    BY JobsAreTyped
  <2>3. CallWork(c) = MaxPolls + 1 - jobs[i].polls
    BY <1>3, <2>1, PollsOfTheServed DEF CallWork
  <2> QED
    BY <1>1, <2>1, <2>2, <2>3, PollsOfTheServed
<1> QED
  BY <1>2, <1>3

\* What a step does to the jobs, as far as a call can tell.
SameJobs(c) ==
    \A i \in 1..MaxJobs :
        /\ Serves(i, c)' <=> Serves(i, c)
        /\ Serves(i, c) => jobs'[i].polls = jobs[i].polls

LEMMA SamePolls == ASSUME NEW c, SameJobs(c) PROVE PollsOf(c)' = PollsOf(c)
BY DEF SameJobs, PollsOf

LEMMA SameWork ==
    ASSUME NEW c, SameJobs(c), calls'[c].st = calls[c].st
    PROVE  CallWork(c)' = CallWork(c)
BY SamePolls DEF CallWork

LEMMA ServersNext ==
    ASSUME SessionTypeOK, PInv, Servers, [Next]_uploadVars
    PROVE  Servers'
<1> USE UploadAssumption DEF UploadAssumption
<1>1. ASSUME \A i \in 1..MaxJobs : /\ jobs'[i].caller \in {jobs[i].caller, None}
                                   /\ jobs'[i].st = "none" => jobs[i].st = "none"
      PROVE  Servers'
  BY <1>1 DEF Servers
<1>2. \A i \in 1..MaxJobs :
          /\ Forgotten(jobs[i]).caller = None /\ Forgotten(jobs[i]).st = jobs[i].st
  BY JobsAreTyped, ForgottenJob
<1>3. CASE UNCHANGED jobs
  BY <1>1, <1>3
<1>4. CASE PageReload
  BY <1>1, <1>2, <1>4 DEF PageReload
<1>5. ASSUME NEW c \in Calls, Served(c) PROVE Servers'
  BY <1>1, <1>2, <1>5 DEF Served
<1>6. ASSUME NEW c \in Calls, StartJob(c) PROVE Servers'
  <2> DEFINE new == [NoJob EXCEPT !.st = "running", !.covers = stored = "whole", !.caller = c]
  <2>1. PICK i \in 1..MaxJobs : jobs[i].st = "none" /\ jobs' = [jobs EXCEPT ![i] = new]
    BY <1>6 DEF StartJob
  <2>2. new.st = "running" /\ new.caller = c
    BY DEF NoJob
  <2> HIDE DEF new
  <2>3. \A k \in 1..MaxJobs : jobs[k].caller # c
    BY <1>6 DEF StartJob, BeingServed, Serves
  <2>4. jobs'[i] = new /\ \A k \in 1..MaxJobs \ {i} : jobs'[k] = jobs[k]
    BY <2>1 DEF PInv, JobsTyped
  <2> QED
    BY <2>2, <2>3, <2>4 DEF Servers
<1>7. ASSUME NEW i \in 1..MaxJobs, JobEnds(i) \/ Poll(i) PROVE Servers'
  <2>1. \A k \in 1..MaxJobs : jobs[k] \in Job
    BY JobsAreTyped
  <2>2. \A k \in 1..MaxJobs : jobs'[k].caller = jobs[k].caller
    BY <1>7, <2>1 DEF JobEnds, Poll, PInv, JobsTyped, Job
  <2>3. \A k \in 1..MaxJobs : jobs'[k].st = "none" => jobs[k].st = "none"
    <3>1. CASE JobEnds(i)
      <4>1. PICK st \in Finals : jobs' = [jobs EXCEPT ![i].st = st]
        BY <3>1 DEF JobEnds
      <4>2. jobs'[i].st = st /\ st # "none" /\ \A k \in 1..MaxJobs \ {i} : jobs'[k] = jobs[k]
        BY <2>1, <4>1 DEF PInv, JobsTyped, Job, Finals
      <4> QED
        BY <4>2
    <3>2. CASE Poll(i)
      BY <2>1, <3>2 DEF Poll, PInv, JobsTyped, Job
    <3> QED
      BY <1>7, <3>1, <3>2
  <2> QED
    BY <1>1, <2>2, <2>3
<1> QED
  BY <1>3, <1>4, <1>5, <1>6, <1>7
  DEF Next, uploadVars, pageVars, SessionSteps, LeaveBySession, Unmounted, RefreshSteps, PageRefreshed,
      PageNotRefreshed, PageSteps, Leave, StartUpload, ServeUpload, UploadFails, UploadLost,
      UploadIsDuplicate, Reset, UploadSucceeds, RetrySync, SyncRefused, SyncFails, CallEnds, MeEnds,
      SyncReturns, SyncTimesOut, SyncUnauthorized, PageUnauthorized

\* The end of a call: the jobs of the others are as they were.
LEMMA OthersAreServed ==
    ASSUME PInv, NEW d \in Calls, NEW c \in Calls, c # d, Served(d) \/ UNCHANGED jobs
    PROVE  SameJobs(c)
<1>1. CASE UNCHANGED jobs
  BY <1>1 DEF SameJobs, Serves
<1>2. CASE Served(d)
  <2>1. \A i \in 1..MaxJobs : Forgotten(jobs[i]).caller = None
    BY JobsAreTyped, ForgottenJob
  <2> QED
    BY <1>2, <2>1, UploadAssumption DEF UploadAssumption, Served, SameJobs, Serves
<1> QED
  BY <1>1, <1>2

\* A job is started for a call that had none.
LEMMA StartLowers ==
    ASSUME SessionTypeOK, PInv, Servers, Servers', PInv', NEW c \in Calls, StartJob(c)
    PROVE  /\ CallWork(c)' < CallWork(c)
           /\ \A d \in Calls \ {c} : CallWork(d)' = CallWork(d)
<1> USE UploadAssumption DEF UploadAssumption
<1> DEFINE new == [NoJob EXCEPT !.st = "running", !.covers = stored = "whole", !.caller = c]
<1>1. PICK i \in 1..MaxJobs : jobs[i].st = "none" /\ jobs' = [jobs EXCEPT ![i] = new]
  BY DEF StartJob
<1>2. new.caller = c /\ new.polls = 0
  BY DEF NoJob
<1> HIDE DEF new
<1>3. jobs'[i] = new /\ \A k \in 1..MaxJobs \ {i} : jobs'[k] = jobs[k]
  BY <1>1 DEF PInv, JobsTyped
<1>4. \A k \in 1..MaxJobs : jobs[k].caller # c
  BY DEF StartJob, BeingServed, Serves
<1>5. calls' = calls /\ calls[c].st \in {"first", "again"} /\ PollsOf(c) = {}
  BY PollsOfTheUnserved DEF StartJob, Signed, sessionVars
<1>6. PollsOf(c)' = {0}
  <2>1. {k \in 1..MaxJobs : jobs'[k].caller = c} = {i}
    BY <1>2, <1>3, <1>4
  <2> QED
    BY <1>2, <1>3, <2>1 DEF PollsOf, Serves
<1>7. CallWork(c)' = MaxPolls + 1
  BY <1>5, <1>6 DEF CallWork
<1>8. MaxPolls + 1 < CallWork(c)
  BY <1>5 DEF CallWork
<1>9. ASSUME NEW d \in Calls \ {c} PROVE CallWork(d)' = CallWork(d)
  <2>1. jobs[i].caller = None
    BY <1>1 DEF Servers
  <2>2. SameJobs(d)
    BY <1>2, <1>3, <2>1 DEF SameJobs, Serves
  <2> QED
    BY <1>5, <2>2, SameWork
<1> QED
  BY <1>7, <1>8, <1>9

\* A poll counts for the call that waits for the job, until the deadline.
LEMMA PollLowers ==
    ASSUME SessionTypeOK, PInv, Servers, NEW i \in 1..MaxJobs, Poll(i)
    PROVE  \A c \in Calls : IF Serves(i, c) THEN CallWork(c)' < CallWork(c)
                                            ELSE CallWork(c)' = CallWork(c)
<1> USE UploadAssumption DEF UploadAssumption
<1>1. \A k \in 1..MaxJobs : jobs[k] \in Job /\ jobs[k].polls \in 0..MaxPolls
  BY JobsAreTyped
<1>2. /\ calls' = calls /\ jobs[i].polls < MaxPolls
      /\ jobs'[i].polls = jobs[i].polls + 1
      /\ \A k \in 1..MaxJobs : jobs'[k].caller = jobs[k].caller
      /\ \A k \in 1..MaxJobs \ {i} : jobs'[k] = jobs[k]
  BY <1>1 DEF Poll, PastDeadline, PInv, JobsTyped, Job, sessionVars
<1>3. ASSUME NEW c \in Calls, Serves(i, c) PROVE CallWork(c)' < CallWork(c)
  <2>1. PollsOf(c) = {jobs[i].polls} /\ calls[c].st \in {"first", "again"}
    BY <1>3, PollsOfTheServed
  <2>2. {k \in 1..MaxJobs : jobs'[k].caller = c} = {i}
    BY <1>2, <1>3 DEF Servers, Serves
  <2>3. PollsOf(c)' = {jobs[i].polls + 1}
    BY <1>2, <2>2 DEF PollsOf, Serves
  <2>4. CallWork(c) = MaxPolls + 1 - jobs[i].polls
    BY <2>1 DEF CallWork
  <2>5. CallWork(c)' = MaxPolls + 1 - (jobs[i].polls + 1)
    BY <1>2, <2>1, <2>3 DEF CallWork
  <2>6. MaxPolls + 1 - (jobs[i].polls + 1) < MaxPolls + 1 - jobs[i].polls
    BY <1>1
  <2> QED
    BY <2>4, <2>5, <2>6
<1>4. ASSUME NEW c \in Calls, ~Serves(i, c) PROVE CallWork(c)' = CallWork(c)
  <2>1. SameJobs(c)
    BY <1>2, <1>4 DEF SameJobs, Serves
  <2> QED
    BY <1>2, <2>1, SameWork
<1> QED
  BY <1>3, <1>4

\* A call that ends, or that is told to wait.
LEMMA IdleLowers ==
    ASSUME SessionTypeOK, PInv, Servers, NEW c \in Calls, calls[c].st # "idle",
           calls'[c].st = "idle"
    PROVE  CallWork(c)' < CallWork(c)
<1>1. CallWork(c)' = 0
  BY DEF CallWork
<1>2. 0 < CallWork(c)
  BY WorkOfCall, UploadAssumption DEF UploadAssumption
<1> QED
  BY <1>1, <1>2

LEMMA EndLowers ==
    ASSUME SessionTypeOK, PInv, Servers, NEW c \in Calls, calls[c].st # "idle",
           calls' = [calls EXCEPT ![c] = NoCall], Served(c) \/ UNCHANGED jobs
    PROVE  /\ CallWork(c)' < CallWork(c)
           /\ \A d \in Calls \ {c} : CallWork(d)' = CallWork(d)
<1>1. calls'[c].st = "idle" /\ \A d \in Calls \ {c} : calls'[d] = calls[d]
  BY DEF SessionTypeOK, NoCall
<1> QED
  BY <1>1, IdleLowers, OthersAreServed, SameWork

LEMMA WaitLowers ==
    ASSUME SessionTypeOK, PInv, Servers, NEW c \in Calls, PageUnauthorized(c)
    PROVE  /\ CallWork(c)' < CallWork(c)
           /\ \A d \in Calls \ {c} : CallWork(d)' = CallWork(d)
<1> USE UploadAssumption DEF UploadAssumption
<1>1. /\ calls[c].st = "first" /\ calls'[c].st = "wait" /\ jobs' = jobs
      /\ \A d \in Calls \ {c} : calls'[d] = calls[d]
  BY DEF PageUnauthorized, Unauthorized, pageVars, SessionTypeOK
<1>2. PollsOf(c) = {}
  BY PollsOfTheUnserved DEF PageUnauthorized
<1>3. CallWork(c)' = MaxPolls + 3
  BY <1>1 DEF CallWork
<1>4. MaxPolls + 3 < CallWork(c)
  BY <1>1, <1>2 DEF CallWork
<1> QED
  BY <1>1, <1>3, <1>4, SameWork DEF SameJobs, Serves

LEMMA RefreshLowers ==
    ASSUME SessionTypeOK, PInv, Servers, PageRefreshed \/ PageNotRefreshed, NEW c \in Calls
    PROVE  IF calls[c].st = "wait" THEN CallWork(c)' < CallWork(c) ELSE CallWork(c)' = CallWork(c)
<1> USE UploadAssumption DEF UploadAssumption
<1>1. jobs' = jobs /\ SameJobs(c)
  BY DEF PageRefreshed, PageNotRefreshed, pageVars, SameJobs, Serves
<1>2. CASE calls[c].st # "wait"
  <2>1. calls'[c].st = calls[c].st
    BY <1>2 DEF PageRefreshed, PageNotRefreshed, Refreshed, NotRefreshed, Waiting
  <2> QED
    BY <1>1, <1>2, <2>1, SameWork
<1>3. CASE calls[c].st = "wait" /\ PageRefreshed
  <2>1. calls'[c].st = "again"
    BY <1>3 DEF PageRefreshed, Refreshed, Waiting, SessionTypeOK
  <2>2. PollsOf(c) = {} /\ PollsOf(c)' = {}
    <3>1. ~BeingServed(c)
      BY <1>3, PollsOfTheServed DEF BeingServed
    <3> QED
      BY <1>1, <3>1, PollsOfTheUnserved, SamePolls
  <2>3. CallWork(c)' = MaxPolls + 2
    BY <2>1, <2>2 DEF CallWork
  <2>4. MaxPolls + 2 < CallWork(c)
    BY <1>3 DEF CallWork
  <2> QED
    BY <1>3, <2>3, <2>4
<1>4. CASE calls[c].st = "wait" /\ PageNotRefreshed
  <2>1. calls'[c].st = "idle"
    BY <1>4 DEF PageNotRefreshed, NotRefreshed, Waiting, NoCall
  <2> QED
    BY <1>4, <2>1, IdleLowers
<1> QED
  BY <1>2, <1>3, <1>4

\* Only a page that calls, or that is loaded anew, gives a call more to do.
Begins(c) == UploadSucceeds(c) \/ RetrySync(c) \/ PageReload

LEMMA CallsRunDown ==
    ASSUME SessionTypeOK, PInv, Servers, PInv', Servers', [Next]_uploadVars, NEW c \in Calls
    PROVE  /\ CallStep(c) \/ (calls[c].st = "wait" /\ (PageRefreshed \/ PageNotRefreshed))
                  => CallWork(c)' < CallWork(c)
           /\ Begins(c) \/ CallWork(c)' = CallWork(c) \/ CallWork(c)' < CallWork(c)
<1>1. ASSUME NEW d \in Calls, SyncRefused(d) \/ SyncFails(d) \/ CallEnds(d)
      PROVE  /\ CallWork(d)' < CallWork(d)
             /\ \A e \in Calls \ {d} : CallWork(e)' = CallWork(e)
  <2>1. /\ calls[d].st # "idle" /\ calls' = [calls EXCEPT ![d] = NoCall]
        /\ Served(d) \/ UNCHANGED jobs
    BY <1>1 DEF SyncRefused, SyncFails, CallEnds, MeEnds, SyncReturns, SyncTimesOut,
                SyncUnauthorized, Answered, StillUnauthorized, pageVars
  <2> QED
    BY <2>1, EndLowers
<1>2. CallStep(c) => CallWork(c)' < CallWork(c)
  BY <1>1, WaitLowers, StartLowers, PollLowers DEF CallStep
<1>3. calls[c].st = "wait" /\ (PageRefreshed \/ PageNotRefreshed) => CallWork(c)' < CallWork(c)
  BY RefreshLowers
<1>4. Begins(c) \/ CallWork(c)' = CallWork(c) \/ CallWork(c)' < CallWork(c)
  <2> DEFINE Goal == Begins(c) \/ CallWork(c)' = CallWork(c) \/ CallWork(c)' < CallWork(c)
  <2>1. ASSUME UNCHANGED <<calls, jobs>> PROVE Goal
    BY <2>1, SameWork DEF SameJobs, Serves
  <2>2. ASSUME NEW d \in Calls, UploadSucceeds(d) \/ RetrySync(d) PROVE Goal
    <3>1. CASE d = c
      BY <2>2, <3>1 DEF Begins
    <3>2. CASE d # c
      <4>1. jobs' = jobs /\ calls'[c] = calls[c]
        BY <2>2, <3>2 DEF UploadSucceeds, RetrySync, Fetch, SessionTypeOK
      <4> QED
        BY <4>1, SameWork DEF SameJobs, Serves
    <3> QED
      BY <3>1, <3>2
  <2>3. ASSUME NEW i \in 1..MaxJobs, JobEnds(i) PROVE Goal
    <3>1. /\ calls' = calls
          /\ \A k \in 1..MaxJobs : jobs'[k].caller = jobs[k].caller /\ jobs'[k].polls = jobs[k].polls
      BY <2>3, JobsAreTyped DEF JobEnds, PInv, JobsTyped, Job, sessionVars
    <3> QED
      BY <3>1, SameWork DEF SameJobs, Serves
  <2>4. ASSUME NEW d \in Calls, StartJob(d) \/ PageUnauthorized(d) PROVE Goal
    BY <2>4, StartLowers, WaitLowers
  <2>5. ASSUME NEW i \in 1..MaxJobs, Poll(i) PROVE Goal
    BY <2>5, PollLowers
  <2>6. ASSUME PageRefreshed \/ PageNotRefreshed PROVE Goal
    BY <2>6, RefreshLowers
  <2>7. ASSUME SessionSteps \/ LeaveBySession \/ PageSteps \/ (ServeRefresh /\ UNCHANGED pageVars)
        PROVE  Goal
    <3>1. UNCHANGED <<calls, jobs>>
      BY <2>7 DEF SessionSteps, Login, ServeLogin, LoginArrives, UserArrives, LoginLost, Expire,
        StartLogout, ServeLogout, LogoutLost, LeaveBySession,
                  LogoutArrives, LogoutRejected, Unmounted, PageSteps, Leave, StartUpload, ServeUpload,
                  UploadFails, UploadLost, UploadIsDuplicate, Reset, ServeRefresh, pageVars, sessionVars
    <3> QED
      BY <2>1, <3>1
  <2>8. ASSUME NEW d \in Calls, SyncRefused(d) \/ SyncFails(d) \/ CallEnds(d) PROVE Goal
    BY <1>1, <2>8
  <2>9. ASSUME PageReload PROVE Goal
    BY <2>9 DEF Begins
  <2>10. ASSUME UNCHANGED uploadVars PROVE Goal
    BY <2>1, <2>10 DEF uploadVars, pageVars, sessionVars
  <2> HIDE DEF Goal
  <2>11. Goal
    BY <2>2, <2>3, <2>4, <2>5, <2>6, <2>7, <2>8, <2>9, <2>10 DEF Next, RefreshSteps
  <2> QED
    BY <2>11 DEF Goal
<1> QED
  BY <1>2, <1>3, <1>4

(***************************************************************************)
(* A call through apiFetch comes to at most MaxPolls + 4 steps of its own: *)
(* every one of them, and the settling of the refresh it waits for, takes  *)
(* one off, and only the page that begins a call, or a reload, adds some.  *)
(* So neither a refresh that fails nor a job that never ends can keep a    *)
(* call going (apiFetch of lib/auth.ts, sync_knowledge_base).              *)
(***************************************************************************)
THEOREM CallsAreBounded ==
    Spec => /\ [](\A c \in Calls : /\ CallWork(c) \in 0..(MaxPolls + 4)
                                   /\ CallWork(c) = 0 <=> calls[c].st = "idle")
            /\ [][\A c \in Calls :
                      /\ CallStep(c) \/ (calls[c].st = "wait" /\ (PageRefreshed \/ PageNotRefreshed))
                             => CallWork(c)' < CallWork(c)
                      /\ Begins(c) \/ CallWork(c)' = CallWork(c) \/ CallWork(c)' < CallWork(c)]_uploadVars
<1> DEFINE Down == \A c \in Calls :
                      /\ CallStep(c) \/ (calls[c].st = "wait" /\ (PageRefreshed \/ PageNotRefreshed))
                             => CallWork(c)' < CallWork(c)
                      /\ Begins(c) \/ CallWork(c)' = CallWork(c) \/ CallWork(c)' < CallWork(c)
           Bounded == \A c \in Calls : /\ CallWork(c) \in 0..(MaxPolls + 4)
                                       /\ CallWork(c) = 0 <=> calls[c].st = "idle"
<1>1. Spec => []SessionTypeOK
  <2>1. IInv => SessionTypeOK
    BY DEF IInv
  <2> QED
    BY <2>1, PageUsesTheSession, Invariance, PTL
<1>2. Init => Servers
  BY DEF Init, PageInit, NoJob, Servers
<1>3. SessionTypeOK /\ PInv /\ Servers => Bounded
  BY WorkOfCall
<1>4. SessionTypeOK /\ PInv /\ Servers /\ [Next]_uploadVars => Servers'
  BY ServersNext
<1>5. SessionTypeOK /\ PInv /\ Servers /\ PInv' /\ Servers' /\ [Next]_uploadVars => [Down]_uploadVars
  BY CallsRunDown
<1> QED
  BY <1>1, <1>2, <1>3, <1>4, <1>5, InitPInv, PInvNext, PTL DEF Spec
=============================================================================
