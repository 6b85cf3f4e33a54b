------------------------------ MODULE Accounts ------------------------------
(***************************************************************************)
(* Organizations, members and roles: services/auth_service.py over a       *)
(* Cognito user pool, the handlers of api/auth.py and of api/admin.py,     *)
(* invite links (services/invite_service.py), the identity check of        *)
(* core/dependencies.py, and the audit events of role changes.             *)
(*                                                                         *)
(* The handlers of api/auth.py are coroutines that call boto3 without      *)
(* awaiting: a signup or a join holds the event loop from its first        *)
(* Cognito call to its last.  The role changes of api/admin.py run in the  *)
(* thread pool, so their calls fall between those of a signup and of each  *)
(* other.                                                                  *)
(*                                                                         *)
(* Data abstraction.  An ID token is what verify_id_token reads from it    *)
(* and its age; an organization's invite links are the age of the newest,  *)
(* since an older one gives nothing that it does not.  Passwords and       *)
(* confirmation codes are not told apart: whoever gives them knows them.   *)
(* Time passes in ticks, much longer than a request: none in the middle of *)
(* one.                                                                    *)
(***************************************************************************)
EXTENDS Naturals, FiniteSets

CONSTANTS
    Users,          \* e-mail addresses, each with its sub
    Orgs,           \* organization slugs
    TokenLife,      \* ticks an ID token is accepted
    InviteLife,     \* DEFAULT_INVITE_TTL_SECONDS, in ticks
    MaxCalls,       \* role changes in flight
    Idle,           \* the event loop is free
    Unclear         \* the audit log does not settle the matter

ASSUME AccountsAssumption ==
    /\ TokenLife \in Nat \ {0} /\ InviteLife \in Nat
    /\ MaxCalls \in Nat
    /\ Unclear \notin BOOLEAN

VARIABLES
    status,     \* [Users -> {"none", "unconfirmed", "confirmed"}]
    enabled,    \* users that are not disabled
    groups,     \* organizations whose group exists
    members,    \* [Orgs -> SUBSET Users]: the organization's group
    admins,     \* [Orgs -> SUBSET Users]: its "-admins" companion
    tokens,     \* ID tokens in somebody's hands
    link,       \* [Orgs -> 0..InviteLife + 1]: age of the newest invite link
    signing,    \* the signup or join in progress, or Idle
    calls,      \* role changes in progress
    lost,       \* history: [Users -> Nat], ticks since a user was an active admin
    told        \* history: what the audit log says of a user's rights

vars == <<status, enabled, groups, members, admins, tokens, link, signing, calls, lost, told>>
directory == <<status, enabled, groups, members, admins>>

Rights == {"enabled", "admin"}
Forgotten == TokenLife + InviteLife

Token == [user : Users, org : Orgs, admin : BOOLEAN, age : 0..(TokenLife - 1)]
Signing == [user : Users, org : Orgs, founder : BOOLEAN, pc : {"group", "member", "admin"}]
Call == [by : Users, org : Orgs, target : Users, right : Rights, grant : BOOLEAN,
         pc : {"change", "log"}]

Active(o) == admins[o] \cap enabled
InOffice(u) == \E o \in Orgs : u \in Active(o)
Has(u, right) == IF right = "enabled" THEN u \in enabled
                 ELSE \E o \in Orgs : u \in admins[o]

\* An active admin's absence starts anew; anybody else's only grows with time.
Watch == lost' = [u \in Users |-> IF InOffice(u)' THEN 0 ELSE lost[u]]

Init ==
    /\ status = [u \in Users |-> "none"]
    /\ enabled = Users
    /\ groups = {}
    /\ members = [o \in Orgs |-> {}]
    /\ admins = [o \in Orgs |-> {}]
    /\ tokens = {}
    /\ link = [o \in Orgs |-> InviteLife + 1]
    /\ signing = Idle /\ calls = {}
    /\ lost = [u \in Users |-> Forgotten]
    /\ told = [right \in Rights |-> [u \in Users |-> right = "enabled"]]

-----------------------------------------------------------------------------
\* Variant for fault injection: an address that has an account is accepted.
CreateUserAgain(u) ==
    /\ signing = Idle
    /\ status' = [status EXCEPT ![u] = IF @ = "none" THEN "unconfirmed" ELSE @]

\* sign_up refuses an address that has an account, confirmed or not.
CreateUser(u) ==
    /\ signing = Idle
    /\ status[u] = "none"
    /\ status' = [status EXCEPT ![u] = "unconfirmed"]

Signup(u, o) ==
    /\ CreateUser(u)
    /\ signing' = [user |-> u, org |-> o, founder |-> TRUE, pc |-> "group"]
    /\ UNCHANGED <<enabled, groups, members, admins, tokens, link, calls, lost, told>>

\* Variant for fault injection: the expiry of the link is not compared.
InviteOutlived(o) == o \in groups

\* decode_invite_token: a link is good while expires_at >= now.
InviteValid(o) == link[o] <= InviteLife

Join(u, o) ==
    /\ InviteValid(o)
    /\ CreateUser(u)
    /\ signing' = [user |-> u, org |-> o, founder |-> FALSE, pc |-> "member"]
    /\ UNCHANGED <<enabled, groups, members, admins, tokens, link, calls, lost, told>>

\* The group of a new organization; a slug that is taken ends the signup.
CreateOrg ==
    /\ signing # Idle /\ signing.pc = "group"
    /\ groups' = groups \cup {signing.org}
    /\ signing' = IF signing.org \in groups THEN Idle ELSE [signing EXCEPT !.pc = "member"]
    /\ UNCHANGED <<status, enabled, members, admins, tokens, link, calls, lost, told>>

AddMember ==
    /\ signing # Idle /\ signing.pc = "member"
    /\ members' = [members EXCEPT ![signing.org] = @ \cup {signing.user}]
    /\ signing' = IF signing.founder THEN [signing EXCEPT !.pc = "admin"] ELSE Idle
    /\ UNCHANGED <<status, enabled, groups, admins, tokens, link, calls, lost, told>>

\* The companion group is created, existing or not, and the founder added.  The
\* audit log has no event of it: who reads the log knows the founder.
MakeFounderAdmin ==
    /\ signing # Idle /\ signing.pc = "admin"
    /\ admins' = [admins EXCEPT ![signing.org] = @ \cup {signing.user}]
    /\ signing' = Idle
    /\ told' = [told EXCEPT !["admin"][signing.user] = TRUE]
    /\ UNCHANGED <<status, enabled, groups, members, tokens, link, calls>>
    /\ Watch

\* A Cognito call fails, or a slug turns out invalid: 400, and nothing is undone.
SigningFails ==
    /\ signing # Idle
    /\ signing' = Idle
    /\ UNCHANGED <<directory, tokens, link, calls, lost, told>>

Confirm(u) ==
    /\ signing = Idle
    /\ status[u] = "unconfirmed"
    /\ status' = [status EXCEPT ![u] = "confirmed"]
    /\ UNCHANGED <<enabled, groups, members, admins, tokens, link, signing, calls, lost, told>>

-----------------------------------------------------------------------------
\* The claims Cognito signs for u and verify_id_token resolves: the tenant is the
\* group without the suffix, the role is membership of its companion.
Claims(u) == {[user |-> u, org |-> o, admin |-> u \in admins[o], age |-> 0] :
                  o \in {p \in Orgs : u \in members[p]}}

\* A login, or a refresh: Cognito signs a token for a confirmed user that is not
\* disabled.  Without an organization verify_id_token raises, and no cookie is
\* set.  A logout revokes refresh tokens only; an ID token is checked by its
\* signature alone and lives on.
IssueToken(u) ==
    /\ signing = Idle
    /\ status[u] = "confirmed" /\ u \in enabled
    /\ \E t \in Claims(u) : tokens' = tokens \cup {t}
    /\ UNCHANGED <<directory, link, signing, calls, lost, told>>

-----------------------------------------------------------------------------
\* require_admin_context on a token that is still accepted.
Admins == {t \in tokens : t.admin}

\* The link is shown on the screen whether or not the mail is delivered.
CreateInvite(t) ==
    /\ t \in Admins
    /\ link' = [link EXCEPT ![t.org] = 0]
    /\ UNCHANGED <<directory, tokens, signing, calls, lost, told>>

\* Variant for fault injection: the target is looked up in the whole user pool.
RequireUser(o, u) == status[u] # "none"

\* The listing of the caller's organization must hold the target.  Nobody leaves
\* a group and no token expires meanwhile, so it is one step with the call.
RequireOrgMember(o, u) == u \in members[o]

Begin(t, u, right, grant) ==
    /\ t \in Admins
    /\ RequireOrgMember(t.org, u)
    /\ Cardinality(calls) < MaxCalls
    /\ calls' = calls \cup {[by |-> t.user, org |-> t.org, target |-> u, right |-> right,
                             grant |-> grant, pc |-> "change"]}
    /\ UNCHANGED <<directory, tokens, link, signing, lost, told>>

\* Variant for fault injection: an admin may suspend himself.
SuspendAnyone(t, u) == Begin(t, u, "enabled", FALSE)

Suspend(t, u)   == u # t.user /\ Begin(t, u, "enabled", FALSE)
Unsuspend(t, u) == Begin(t, u, "enabled", TRUE)
Promote(t, u)   == Begin(t, u, "admin", TRUE)
Demote(t, u)    == u # t.user /\ Begin(t, u, "admin", FALSE)

Become(c, d) == calls' = (calls \ {c}) \cup {d}

\* Changes whose audit event is still to be written, about the same right.
Unlogged(c) == {d \in calls \ {c} : d.pc = "log" /\ d.target = c.target /\ d.right = c.right}

\* Two events in flight about one right may be written in either order.
Doubt(c) == told' = IF Unlogged(c) = {} THEN told
                    ELSE [told EXCEPT ![c.right][c.target] = Unclear]

Change(c) ==
    /\ c.pc = "change"
    /\ IF c.right = "enabled"
       THEN /\ enabled' = IF c.grant THEN enabled \cup {c.target} ELSE enabled \ {c.target}
            /\ UNCHANGED admins
       ELSE /\ admins' = [admins EXCEPT ![c.org] =
                             IF c.grant THEN @ \cup {c.target} ELSE @ \ {c.target}]
            /\ UNCHANGED enabled
    /\ Become(c, [c EXCEPT !.pc = "log"])
    /\ Doubt(c)
    /\ UNCHANGED <<status, groups, members, tokens, link, signing>>
    /\ Watch

\* Variant for fault injection: the error of the Cognito call is swallowed.
CallFailsSilently(c) ==
    /\ c.pc = "change"
    /\ Become(c, [c EXCEPT !.pc = "log"])
    /\ UNCHANGED <<directory, tokens, link, signing, lost, told>>

\* Cognito refuses, or cannot be reached: 400, no event.
CallFails(c) ==
    /\ c.pc = "change"
    /\ calls' = calls \ {c}
    /\ UNCHANGED <<directory, tokens, link, signing, lost, told>>

\* log_event swallows its own failure: the change then has no event.
LogEvent(c) ==
    /\ c.pc = "log"
    /\ calls' = calls \ {c}
    /\ \E event \in {c.grant, Unclear} :
           told' = [told EXCEPT ![c.right][c.target] = IF @ = Unclear THEN @ ELSE event]
    /\ UNCHANGED <<directory, tokens, link, signing, lost>>

\* The process ends: what was in progress stays half done.
Restart ==
    /\ signing # Idle \/ calls # {}
    /\ signing' = Idle /\ calls' = {}
    /\ told' = [right \in Rights |-> [u \in Users |->
                    IF \E c \in calls : c.pc = "log" /\ c.right = right /\ c.target = u
                    THEN Unclear ELSE told[right][u]]]
    /\ UNCHANGED <<directory, tokens, link, lost>>

-----------------------------------------------------------------------------
Older(n, limit) == IF n < limit THEN n + 1 ELSE limit

\* jwt.decode rejects a token past its exp.
Unexpired(t) == t.age < TokenLife

Tick ==
    /\ signing = Idle /\ calls = {}
    /\ tokens' = {t \in {[s EXCEPT !.age = Older(@, TokenLife)] : s \in tokens} : Unexpired(t)}
    /\ link' = [o \in Orgs |-> Older(link[o], InviteLife + 1)]
    /\ lost' = [u \in Users |-> IF InOffice(u) THEN 0 ELSE Older(lost[u], Forgotten)]
    /\ UNCHANGED <<directory, signing, calls, told>>

Next ==
    \/ \E u \in Users, o \in Orgs : Signup(u, o) \/ Join(u, o)
    \/ CreateOrg \/ AddMember \/ MakeFounderAdmin \/ SigningFails
    \/ \E u \in Users : Confirm(u) \/ IssueToken(u)
    \/ \E t \in tokens :
           \/ CreateInvite(t)
           \/ \E u \in Users : Suspend(t, u) \/ Unsuspend(t, u) \/ Promote(t, u) \/ Demote(t, u)
    \/ \E c \in calls : Change(c) \/ CallFails(c) \/ LogEvent(c)
    \/ Restart
    \/ Tick

Spec == Init /\ [][Next]_vars

-----------------------------------------------------------------------------
TypeOK ==
    /\ status \in [Users -> {"none", "unconfirmed", "confirmed"}]
    /\ enabled \subseteq Users /\ groups \subseteq Orgs
    /\ members \in [Orgs -> SUBSET Users] /\ admins \in [Orgs -> SUBSET Users]
    /\ tokens \subseteq Token
    /\ link \in [Orgs -> 0..(InviteLife + 1)]
    /\ signing \in Signing \cup {Idle} /\ calls \subseteq Call
    /\ lost \in [Users -> 0..Forgotten]
    /\ told \in [Rights -> [Users -> BOOLEAN \cup {Unclear}]]

\* "A user's org membership is exactly one non-admin group" (auth_service.py):
\* nobody is in two organizations however signups and joins are retried, an
\* admin is a member, and every token names the organization its holder is in.
OneOrgEach ==
    /\ \A o, p \in Orgs : members[o] \cap members[p] # {} => o = p
    /\ \A o \in Orgs : admins[o] \subseteq members[o] /\ (members[o] # {} => o \in groups)
    /\ \A t \in tokens : t.user \in members[t.org]

\* What the audit log says last of a member's rights is what Cognito holds,
\* unless an event was lost, two changes overlapped, or one is still in flight.
AuditTellsRights ==
    \A right \in Rights, u \in Users :
        \/ told[right][u] \in {Unclear, Has(u, right)}
        \/ \E c \in calls : c.pc = "log" /\ c.right = right /\ c.target = u

\* u's rights in o change, other than by becoming the founding admin.
Changed(u, o) ==
    \/ (u \in enabled') # (u \in enabled)
    \/ (u \in admins'[o]) # (u \in admins[o]) /\ (signing # Idle => signing.user # u)

\* Rights change only through somebody of the same organization, who cannot
\* take away his own (_require_org_member, the blocks in suspend_user and
\* demote_from_admin).
TenantsApart ==
    [][\A u \in Users, o \in Orgs : u \in members[o] /\ Changed(u, o) =>
           \E c \in calls : /\ c.target = u /\ c.by \in members[o]
                            /\ c.by = u => c.grant]_vars

\* Tokens are not revoked, so a suspended or demoted admin keeps his powers, but
\* only for the life of a token: rights change while some member was an active
\* admin less than TokenLife ago, and a link admits somebody while one was less
\* than the lives of a token and a link ago.
PowersFade ==
    [][\A o \in Orgs :
           /\ (\E u \in members[o] : Changed(u, o)) => \E v \in members[o] : lost[v] < TokenLife
           /\ (members[o] # {} /\ members'[o] # members[o]) =>
                  \E v \in members[o] : lost[v] < TokenLife + InviteLife]_vars

\* An organization loses its last active admin only through a caller who is no
\* active admin himself any more (demote_from_admin blocks self-demotion "rather
\* than computing am I the last one"; two admins can still remove each other).
LastAdminByStaleToken ==
    [][\A o \in Orgs : Active(o) # {} /\ Active(o)' = {} =>
           \E c \in calls : c.pc = "change" /\ c.org = o /\ c.by \notin Active(o)]_vars
=============================================================================
