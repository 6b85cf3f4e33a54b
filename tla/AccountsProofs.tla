--------------------------- MODULE AccountsProofs ---------------------------
(***************************************************************************)
(* Proofs about Accounts, for any number of users, organizations and role  *)
(* changes in flight.  The inductive invariant ties every power to the     *)
(* last time its holder was an active admin: a token by its age, an invite *)
(* link by its age and a token's, a role change by its caller.             *)
(***************************************************************************)
EXTENDS Accounts, TLAPS

\* An address without an account is in no organization and never held office.
Outsiders ==
    \A u \in Users : status[u] = "none" =>
        lost[u] = Forgotten /\ \A o \in Orgs : u \notin members[o]

SigningOK ==
    signing # Idle =>
        /\ status[signing.user] # "none"
        /\ signing.pc # "admin" => \A o \in Orgs : signing.user \notin members[o]
        /\ signing.pc # "group" => signing.org \in groups
        /\ signing.pc = "admin" => members[signing.org] = {signing.user}
        /\ signing.founder => /\ lost[signing.user] = Forgotten
                              /\ signing.pc = "member" => members[signing.org] = {}
        /\ ~signing.founder => /\ signing.pc = "member"
                               /\ \E v \in members[signing.org] : lost[v] < Forgotten

Linked == \A o \in Orgs : InviteValid(o) => \E v \in members[o] : lost[v] < TokenLife + link[o]

InOfficeOK == \A u \in Users : InOffice(u) => lost[u] = 0

TokensOK == \A t \in tokens : t.admin => lost[t.user] <= t.age

CallsOK ==
    \A c \in calls : /\ c.by \in members[c.org] /\ c.target \in members[c.org]
                     /\ lost[c.by] < TokenLife
                     /\ c.by = c.target => c.grant

Logging(u, right) == {c \in calls : c.pc = "log" /\ c.right = right /\ c.target = u}

\* Where the audit log is clear, at most one change has no event yet, and it is
\* the last one.
AuditOK ==
    \A right \in Rights, u \in Users : told[right][u] # Unclear =>
        /\ Logging(u, right) = {} => told[right][u] = Has(u, right)
        /\ \A c \in Logging(u, right) : Logging(u, right) = {c} /\ c.grant = Has(u, right)

\* Everything but the audit log.
Offices == TypeOK /\ OneOrgEach /\ Outsiders /\ SigningOK /\ Linked /\ InOfficeOK /\ TokensOK /\ CallsOK

IInv == Offices /\ AuditOK

-----------------------------------------------------------------------------
\* Taking up office restarts an absence, and nothing prolongs it but time.
LEMMA WatchLowers ==
    ASSUME TypeOK, Watch
    PROVE  /\ lost' \in [Users -> 0..Forgotten]
           /\ InOfficeOK'
           /\ \A u \in Users : lost'[u] <= lost[u]
           /\ \A u \in Users : ~InOffice(u)' => lost'[u] = lost[u]
<1>1. Forgotten \in Nat
  BY AccountsAssumption DEF Forgotten
<1>2. \A u \in Users : lost[u] \in 0..Forgotten /\ lost'[u] = IF InOffice(u)' THEN 0 ELSE lost[u]
  BY DEF TypeOK, Watch
<1>3. DOMAIN lost' = Users /\ lost' = [u \in Users |-> lost'[u]]
  BY DEF Watch
<1>4. QED
  BY <1>1, <1>2, <1>3 DEF InOfficeOK

\* Nobody acts on the founder whose signup is still in progress.
LEMMA FounderUntouched ==
    ASSUME Offices, signing # Idle, signing.founder, NEW c \in calls
    PROVE  c.target # signing.user
<1>1. signing \in Signing /\ c \in Call
  BY DEF Offices, TypeOK
<1>2. signing.user \in Users /\ signing.org \in Orgs /\ c.org \in Orgs /\ c.by \in Users
  BY <1>1 DEF Signing, Call
<1>3. TokenLife \in Nat /\ InviteLife \in Nat /\ lost[signing.user] = Forgotten
  BY AccountsAssumption DEF Offices, SigningOK
<1>4. c.by # signing.user
  BY <1>3 DEF Offices, CallsOK, Forgotten
<1>5. ASSUME c.target = signing.user
      PROVE  FALSE
  <2>1. signing.user \in members[c.org] /\ c.by \in members[c.org]
    BY <1>5 DEF Offices, CallsOK
  <2>2. signing.pc = "admin" /\ members[signing.org] = {signing.user}
    BY <1>2, <2>1 DEF Offices, SigningOK
  <2>3. c.org = signing.org
    BY <1>2, <2>1, <2>2 DEF Offices, OneOrgEach
  <2>4. QED
    BY <1>4, <2>1, <2>2, <2>3
<1>6. QED
  BY <1>5

LEMMA OfficesInitially == Init => Offices
<1> SUFFICES ASSUME Init PROVE Offices
  OBVIOUS
<1>1. TypeOK
  BY AccountsAssumption DEF Init, TypeOK, Forgotten
<1>2. ~\E o \in Orgs : InviteValid(o)
  BY AccountsAssumption DEF Init, InviteValid
<1>3. QED
  BY <1>1, <1>2 DEF Init, Offices, OneOrgEach, Outsiders, SigningOK, Linked, InOfficeOK,
     InOffice, Active, TokensOK, CallsOK

\* What a signup or a join that begins leaves true.
LEMMA BeginSigningOK ==
    ASSUME Offices, NEW u \in Users, NEW o \in Orgs, Signup(u, o) \/ Join(u, o)
    PROVE  Offices'
<1>1. /\ signing = Idle /\ status[u] = "none" /\ status' = [status EXCEPT ![u] = "unconfirmed"]
      /\ UNCHANGED <<enabled, groups, members, admins, tokens, link, calls, lost>>
  BY DEF Signup, Join, CreateUser
<1>2. lost[u] = Forgotten /\ \A p \in Orgs : u \notin members[p]
  BY <1>1 DEF Offices, Outsiders
<1>3. /\ signing' \in Signing /\ told' = told
  <2>1. CASE Signup(u, o)
    BY <2>1 DEF Signup, Signing
  <2>2. CASE Join(u, o)
    BY <2>2 DEF Join, Signing
  <2>3. QED
    BY <2>1, <2>2
<1>4. TypeOK'
  BY <1>1, <1>3 DEF Offices, TypeOK
<1>5. SigningOK'
  <2>1. status'[u] # "none"
    BY <1>1 DEF Offices, TypeOK
  <2>2. CASE Signup(u, o)
    BY <1>1, <1>2, <2>1, <2>2 DEF Signup, SigningOK
  <2>3. CASE Join(u, o)
    <3>1. InviteValid(o) /\ signing' = [user |-> u, org |-> o, founder |-> FALSE, pc |-> "member"]
      BY <2>3 DEF Join
    <3>2. PICK v \in members[o] : lost[v] < TokenLife + link[o]
      BY <3>1 DEF Offices, Linked
    <3>3. link[o] <= InviteLife /\ link[o] \in Nat
      BY <3>1, AccountsAssumption DEF InviteValid, Offices, TypeOK
    <3>4. v \in Users /\ lost[v] \in Nat /\ Forgotten \in Nat
      BY <3>2, AccountsAssumption DEF Offices, TypeOK, Forgotten
    <3>5. lost[v] < Forgotten
      BY <3>2, <3>3, <3>4, AccountsAssumption DEF Forgotten
    <3>6. o \in groups
      BY <3>2 DEF Offices, OneOrgEach
    <3>7. QED
      BY <1>1, <1>2, <2>1, <3>1, <3>2, <3>5, <3>6 DEF SigningOK
  <2>4. QED
    BY <2>2, <2>3
<1>6. OneOrgEach' /\ Outsiders' /\ Linked' /\ InOfficeOK' /\ TokensOK' /\ CallsOK'
  <2>1. OneOrgEach' /\ Linked' /\ InOfficeOK' /\ TokensOK' /\ CallsOK'
    BY <1>1 DEF Offices, OneOrgEach, Linked, InviteValid, InOfficeOK, InOffice, Active,
        TokensOK, CallsOK
  <2>2. Outsiders'
    BY <1>1 DEF Offices, Outsiders, TypeOK
  <2>3. QED
    BY <2>1, <2>2
<1>7. QED
  BY <1>4, <1>5, <1>6 DEF Offices

LEMMA CreateOrgOK ==
    ASSUME Offices, CreateOrg
    PROVE  Offices'
<1>1. /\ signing \in Signing /\ signing.pc = "group" /\ signing # Idle
      /\ signing.user \in Users /\ signing.org \in Orgs
      /\ groups' = groups \cup {signing.org}
      /\ UNCHANGED <<status, enabled, members, admins, tokens, link, calls, lost, told>>
  BY DEF CreateOrg, Offices, TypeOK, Signing
<1>2. TypeOK'
  BY <1>1 DEF CreateOrg, Offices, TypeOK, Signing
<1>3. OneOrgEach' /\ Outsiders' /\ Linked' /\ InOfficeOK' /\ TokensOK' /\ CallsOK'
  BY <1>1 DEF Offices, OneOrgEach, Outsiders, Linked, InviteValid, InOfficeOK, InOffice, Active,
     TokensOK, CallsOK
<1>4. SigningOK'
  <2>1. CASE signing.org \in groups
    BY <2>1 DEF CreateOrg, SigningOK
  <2>2. CASE signing.org \notin groups
    <3>1. signing' = [signing EXCEPT !.pc = "member"]
      BY <2>2 DEF CreateOrg
    <3>2. members[signing.org] = {}
      BY <1>1, <2>2 DEF Offices, OneOrgEach
    <3>3. signing.founder /\ signing.founder \in BOOLEAN
      BY <1>1 DEF Offices, SigningOK, Signing
    <3>4. /\ signing'.user = signing.user /\ signing'.org = signing.org /\ signing'.pc = "member"
          /\ signing'.founder = signing.founder
      BY <1>1, <3>1 DEF Signing
    <3>5. QED
      BY <1>1, <3>2, <3>3, <3>4 DEF Offices, SigningOK
  <2>3. QED
    BY <2>1, <2>2
<1>5. QED
  BY <1>2, <1>3, <1>4 DEF Offices

LEMMA AddMemberOK ==
    ASSUME Offices, AddMember
    PROVE  Offices'
<1>1. /\ signing \in Signing /\ signing.pc = "member" /\ signing # Idle
      /\ signing.user \in Users /\ signing.org \in Orgs
      /\ members' = [members EXCEPT ![signing.org] = @ \cup {signing.user}]
      /\ UNCHANGED <<status, enabled, groups, admins, tokens, link, calls, lost, told>>
  BY DEF AddMember, Offices, TypeOK, Signing
<1>2. /\ status[signing.user] # "none" /\ signing.org \in groups
      /\ \A o \in Orgs : signing.user \notin members[o]
  BY <1>1 DEF Offices, SigningOK
<1>3. TypeOK'
  BY <1>1 DEF AddMember, Offices, TypeOK, Signing
<1>4. \A o \in Orgs : members'[o] = IF o = signing.org THEN members[o] \cup {signing.user} ELSE members[o]
  BY <1>1 DEF Offices, TypeOK
<1>5. OneOrgEach'
  <2>1. \A o, p \in Orgs : members'[o] \cap members'[p] # {} => o = p
    <3>1. SUFFICES ASSUME NEW o \in Orgs, NEW p \in Orgs, NEW u \in members'[o], u \in members'[p]
                   PROVE  o = p
      OBVIOUS
    <3>2. CASE u = signing.user
      <4>1. ASSUME NEW q \in Orgs, q # signing.org
            PROVE  signing.user \notin members'[q]
        <5>1. members'[q] = members[q]
          BY <1>4, <4>1
        <5>2. QED
          BY <1>2, <5>1
      <4>2. QED
        BY <3>1, <3>2, <4>1
    <3>3. CASE u # signing.user
      <4>1. u \in members[o] /\ u \in members[p]
        BY <1>4, <3>1, <3>3
      <4>2. members[o] \cap members[p] # {}
        BY <4>1
      <4>3. QED
        BY <3>1, <4>2 DEF Offices, OneOrgEach
    <3>4. QED
      BY <3>2, <3>3
  <2>2. \A o \in Orgs : admins[o] \subseteq members'[o] /\ (members'[o] # {} => o \in groups)
    BY <1>2, <1>4 DEF Offices, OneOrgEach
  <2>3. \A t \in tokens : t.user \in members'[t.org]
    <3>1. \A t \in tokens : t.org \in Orgs /\ t.user \in members[t.org]
      BY DEF Offices, OneOrgEach, TypeOK, Token
    <3>2. QED
      BY <1>4, <3>1
  <2>4. QED
    BY <1>1, <2>1, <2>2, <2>3 DEF OneOrgEach
<1>6. Outsiders'
  BY <1>1, <1>2, <1>4 DEF Offices, Outsiders
<1>7. Linked'
  BY <1>1, <1>4 DEF Offices, Linked, InviteValid
<1>8. InOfficeOK' /\ TokensOK'
  BY <1>1 DEF Offices, InOfficeOK, InOffice, Active, TokensOK
<1>9. CallsOK'
  <2>1. \A c \in calls : c.org \in Orgs
    BY DEF Offices, TypeOK, Call
  <2>2. QED
    BY <1>1, <1>4, <2>1 DEF Offices, CallsOK
<1>10. SigningOK'
  <2>1. CASE signing.founder
    <3>1. /\ signing' = [signing EXCEPT !.pc = "admin"] /\ members[signing.org] = {}
          /\ lost[signing.user] = Forgotten
      BY <1>1, <2>1 DEF AddMember, Offices, SigningOK
    <3>2. /\ signing'.user = signing.user /\ signing'.org = signing.org /\ signing'.pc = "admin"
          /\ signing'.founder = signing.founder
      BY <1>1, <3>1 DEF Signing
    <3>3. members'[signing.org] = {signing.user}
      BY <1>1, <1>4, <3>1
    <3>4. QED
      BY <1>1, <1>2, <2>1, <3>1, <3>2, <3>3 DEF SigningOK
  <2>2. CASE ~signing.founder
    BY <2>2 DEF AddMember, SigningOK
  <2>3. QED
    BY <2>1, <2>2
<1>11. QED
  BY <1>3, <1>5, <1>6, <1>7, <1>8, <1>9, <1>10 DEF Offices

\* Rights of the others stay, office is watched: what a founder's grant and a
\* role change have in common.
LEMMA GrantOK ==
    ASSUME Offices, Watch,
           enabled' \subseteq Users, admins' \in [Orgs -> SUBSET Users],
           \A o \in Orgs : admins'[o] \subseteq members[o],
           UNCHANGED <<status, groups, members, tokens, link>>
    PROVE  /\ OneOrgEach' /\ Outsiders' /\ Linked' /\ InOfficeOK' /\ TokensOK'
           /\ lost' \in [Users -> 0..Forgotten]
           /\ \A u \in Users : lost'[u] <= lost[u]
<1>1. TypeOK
  BY DEF Offices
<1>2. /\ lost' \in [Users -> 0..Forgotten] /\ InOfficeOK'
      /\ \A u \in Users : lost'[u] <= lost[u]
      /\ \A u \in Users : ~InOffice(u)' => lost'[u] = lost[u]
  BY <1>1, WatchLowers
<1>3. \A u \in Users : lost[u] \in Nat /\ lost'[u] \in Nat
  BY <1>1, <1>2, AccountsAssumption DEF TypeOK, Forgotten
<1>4. OneOrgEach'
  BY DEF Offices, OneOrgEach
<1>5. Outsiders'
  <2>1. ASSUME NEW u \in Users, status'[u] = "none"
        PROVE  lost'[u] = Forgotten /\ \A o \in Orgs : u \notin members'[o]
    <3>1. lost[u] = Forgotten /\ \A o \in Orgs : u \notin members[o]
      BY <2>1 DEF Offices, Outsiders
    <3>2. ~InOffice(u)'
      BY <3>1 DEF InOffice, Active
    <3>3. QED
      BY <1>2, <3>1, <3>2
  <2>2. QED
    BY <2>1 DEF Outsiders
<1>6. Linked'
  <2>1. ASSUME NEW o \in Orgs, InviteValid(o)'
        PROVE  \E v \in members'[o] : lost'[v] < TokenLife + link'[o]
    <3>1. PICK v \in members[o] : lost[v] < TokenLife + link[o]
      BY <2>1 DEF Offices, Linked, InviteValid
    <3>2. v \in Users /\ link[o] \in Nat
      BY <1>1, AccountsAssumption DEF TypeOK
    <3>3. lost'[v] < TokenLife + link[o]
      BY <1>2, <1>3, <3>1, <3>2, AccountsAssumption
    <3>4. QED
      BY <3>3
  <2>2. QED
    BY <2>1 DEF Linked
<1>7. TokensOK'
  <2>1. ASSUME NEW t \in tokens, t.admin
        PROVE  lost'[t.user] <= t.age
    <3>1. t.user \in Users /\ t.age \in Nat /\ lost[t.user] <= t.age
      BY <1>1, <2>1, AccountsAssumption DEF Offices, TokensOK, TypeOK, Token
    <3>2. QED
      BY <1>2, <1>3, <3>1
  <2>2. QED
    BY <2>1 DEF TokensOK
<1>8. QED
  BY <1>2, <1>4, <1>5, <1>6, <1>7

\* Calls stay good when absences only get shorter.
LEMMA CallsStay ==
    ASSUME Offices, lost' \in [Users -> 0..Forgotten], \A u \in Users : lost'[u] <= lost[u],
           members' = members, NEW c \in calls
    PROVE  /\ c.by \in members'[c.org] /\ c.target \in members'[c.org]
           /\ lost'[c.by] < TokenLife
           /\ c.by = c.target => c.grant
<1>1. c.by \in Users /\ lost[c.by] \in Nat /\ lost'[c.by] \in Nat /\ lost'[c.by] <= lost[c.by]
  BY AccountsAssumption DEF Offices, TypeOK, Call, Forgotten
<1>2. QED
  BY <1>1, AccountsAssumption DEF Offices, CallsOK

LEMMA MakeFounderAdminOK ==
    ASSUME Offices, MakeFounderAdmin
    PROVE  Offices'
<1>1. /\ signing \in Signing /\ signing.pc = "admin" /\ signing # Idle
      /\ signing.user \in Users /\ signing.org \in Orgs
      /\ admins' = [admins EXCEPT ![signing.org] = @ \cup {signing.user}]
      /\ signing' = Idle /\ Watch
      /\ UNCHANGED <<status, enabled, groups, members, tokens, link, calls>>
  BY DEF MakeFounderAdmin, Offices, TypeOK, Signing
<1>2. members[signing.org] = {signing.user}
  BY <1>1 DEF Offices, SigningOK
<1>3. admins' \in [Orgs -> SUBSET Users] /\ enabled' \subseteq Users
  BY <1>1 DEF Offices, TypeOK
<1>4. \A o \in Orgs : admins'[o] \subseteq members[o]
  BY <1>1, <1>2 DEF Offices, TypeOK, OneOrgEach
<1>5. /\ OneOrgEach' /\ Outsiders' /\ Linked' /\ InOfficeOK' /\ TokensOK'
      /\ lost' \in [Users -> 0..Forgotten]
      /\ \A u \in Users : lost'[u] <= lost[u]
  BY <1>1, <1>3, <1>4, GrantOK
<1>6. told' \in [Rights -> [Users -> BOOLEAN \cup {Unclear}]]
  BY <1>1 DEF MakeFounderAdmin, Offices, TypeOK, Rights
<1>7. TypeOK'
  BY <1>1, <1>3, <1>5, <1>6 DEF Offices, TypeOK
<1>8. CallsOK'
  BY <1>1, <1>5, CallsStay DEF CallsOK
<1>9. SigningOK'
  BY <1>1 DEF SigningOK
<1>10. QED
  BY <1>5, <1>7, <1>8, <1>9 DEF Offices

\* Actions that leave the directory, the absences and the links alone.
LEMMA QuietOK ==
    ASSUME Offices, UNCHANGED <<directory, lost>>,
           TypeOK', Linked', TokensOK', CallsOK', SigningOK',
           \A t \in tokens' : t.user \in members[t.org]
    PROVE  Offices'
BY DEF Offices, directory, OneOrgEach, Outsiders, InOfficeOK, InOffice, Active

LEMMA SigningFailsOK ==
    ASSUME Offices, SigningFails \/ (\E u \in Users : Confirm(u))
    PROVE  Offices'
<1>1. CASE SigningFails
  <2>1. TypeOK' /\ Linked' /\ TokensOK' /\ CallsOK' /\ SigningOK'
    BY <1>1 DEF SigningFails, directory, Offices, TypeOK, Linked, InviteValid, TokensOK,
        CallsOK, SigningOK
  <2>2. UNCHANGED <<directory, lost>> /\ tokens' = tokens
    BY <1>1 DEF SigningFails
  <2>3. QED
    BY <2>1, <2>2, QuietOK DEF Offices, OneOrgEach
<1>2. ASSUME NEW u \in Users, Confirm(u)
      PROVE  Offices'
  <2>1. /\ signing = Idle /\ status[u] = "unconfirmed" /\ status' = [status EXCEPT ![u] = "confirmed"]
        /\ UNCHANGED <<enabled, groups, members, admins, tokens, link, signing, calls, lost, told>>
    BY <1>2 DEF Confirm
  <2>2. TypeOK' /\ Outsiders'
    BY <2>1 DEF Offices, TypeOK, Outsiders
  <2>3. QED
    BY <2>1, <2>2 DEF Offices, OneOrgEach, Linked, InviteValid, InOfficeOK, InOffice, Active,
       TokensOK, CallsOK, SigningOK
<1>3. QED
  BY <1>1, <1>2

LEMMA IssueTokenOK ==
    ASSUME Offices, NEW u \in Users, IssueToken(u)
    PROVE  Offices'
<1>1. PICK t \in Claims(u) : tokens' = tokens \cup {t}
  BY DEF IssueToken
<1>2. UNCHANGED <<directory, link, signing, calls, lost, told>>
  BY DEF IssueToken
<1>3. PICK o \in Orgs : /\ u \in members[o]
                        /\ t = [user |-> u, org |-> o, admin |-> u \in admins[o], age |-> 0]
  BY <1>1 DEF Claims
<1>4. t \in Token
  <2>1. (u \in admins[o]) \in BOOLEAN
    OBVIOUS
  <2>2. 0 \in 0..(TokenLife - 1)
    BY AccountsAssumption
  <2>3. QED
    BY <1>3, <2>1, <2>2 DEF Token
<1>5. t.admin => lost[t.user] <= t.age
  <2>1. t.user = u /\ t.age = 0 /\ t.admin = (u \in admins[o]) /\ u \in enabled
    BY <1>3 DEF IssueToken
  <2>2. t.admin => InOffice(u)
    BY <2>1 DEF InOffice, Active
  <2>3. InOffice(u) => lost[u] = 0
    BY DEF Offices, InOfficeOK
  <2>4. QED
    BY <2>1, <2>2, <2>3
<1>6. TypeOK'
  BY <1>1, <1>2, <1>4 DEF Offices, TypeOK, directory
<1>7. TokensOK'
  BY <1>1, <1>2, <1>5 DEF Offices, TokensOK
<1>8. \A s \in tokens' : s.user \in members[s.org]
  BY <1>1, <1>3 DEF Offices, OneOrgEach
<1>9. Linked' /\ CallsOK' /\ SigningOK'
  BY <1>2 DEF Offices, Linked, InviteValid, CallsOK, SigningOK, directory
<1>10. QED
  BY <1>2, <1>6, <1>7, <1>8, <1>9, QuietOK

LEMMA CreateInviteOK ==
    ASSUME Offices, NEW t \in tokens, CreateInvite(t)
    PROVE  Offices'
<1>1. /\ t.admin /\ link' = [link EXCEPT ![t.org] = 0]
      /\ UNCHANGED <<directory, tokens, signing, calls, lost, told>>
  BY DEF CreateInvite, Admins
<1>2. t.user \in Users /\ t.org \in Orgs /\ t.age \in 0..(TokenLife - 1)
  BY DEF Offices, TypeOK, Token
<1>3. 0 \in 0..(InviteLife + 1)
  BY AccountsAssumption
<1>4. TypeOK'
  BY <1>1, <1>2, <1>3 DEF Offices, TypeOK, directory
<1>5. t.user \in members[t.org] /\ lost[t.user] < TokenLife
  <2>1. lost[t.user] <= t.age /\ lost[t.user] \in Nat
    BY <1>1, <1>2, AccountsAssumption DEF Offices, TokensOK, TypeOK, Forgotten
  <2>2. QED
    BY <1>2, <2>1, AccountsAssumption DEF Offices, OneOrgEach
<1>6. Linked'
  <2>1. ASSUME NEW o \in Orgs, InviteValid(o)'
        PROVE  \E v \in members[o] : lost[v] < TokenLife + link'[o]
    <3>1. CASE o = t.org
      <4>1. link'[o] = 0
        BY <1>1, <3>1 DEF Offices, TypeOK
      <4>2. QED
        BY <1>5, <3>1, <4>1, AccountsAssumption
    <3>2. CASE o # t.org
      <4>1. link'[o] = link[o]
        BY <1>1, <3>2 DEF Offices, TypeOK
      <4>2. QED
        BY <2>1, <4>1 DEF Offices, Linked, InviteValid
    <3>3. QED
      BY <3>1, <3>2
  <2>2. QED
    BY <1>1, <2>1 DEF Linked, directory
<1>7. TokensOK' /\ CallsOK' /\ SigningOK'
  BY <1>1 DEF Offices, TokensOK, CallsOK, SigningOK, directory
<1>8. QED
  BY <1>1, <1>4, <1>6, <1>7, QuietOK DEF Offices, OneOrgEach

LEMMA BeginOK ==
    ASSUME Offices, NEW t \in tokens, NEW u \in Users, NEW right \in Rights, NEW grant \in BOOLEAN,
           Begin(t, u, right, grant), u = t.user => grant
    PROVE  Offices'
<1> DEFINE c == [by |-> t.user, org |-> t.org, target |-> u, right |-> right,
                 grant |-> grant, pc |-> "change"]
<1>1. /\ t.admin /\ u \in members[t.org] /\ calls' = calls \cup {c}
      /\ UNCHANGED <<directory, tokens, link, signing, lost, told>>
  BY DEF Begin, Admins, RequireOrgMember
<1>2. t.user \in Users /\ t.org \in Orgs /\ t.age \in 0..(TokenLife - 1)
  BY DEF Offices, TypeOK, Token
<1>3. c \in Call
  BY <1>2 DEF Call
<1>4. TypeOK'
  BY <1>1, <1>3 DEF Offices, TypeOK, directory
<1>5. t.user \in members[t.org] /\ lost[t.user] < TokenLife
  <2>1. lost[t.user] <= t.age /\ lost[t.user] \in Nat
    BY <1>1, <1>2, AccountsAssumption DEF Offices, TokensOK, TypeOK, Forgotten
  <2>2. QED
    BY <1>2, <2>1, AccountsAssumption DEF Offices, OneOrgEach
<1>6. CallsOK'
  <2>1. /\ c.by \in members[c.org] /\ c.target \in members[c.org]
        /\ lost[c.by] < TokenLife /\ (c.by = c.target => c.grant)
    BY <1>1, <1>5
  <2>2. QED
    BY <1>1, <2>1 DEF Offices, CallsOK, directory
<1>7. Linked' /\ TokensOK' /\ SigningOK'
  BY <1>1 DEF Offices, Linked, InviteValid, TokensOK, SigningOK, directory
<1>8. QED
  BY <1>1, <1>4, <1>6, <1>7, QuietOK DEF Offices, OneOrgEach

LEMMA ChangeOK ==
    ASSUME Offices, NEW c \in calls, Change(c)
    PROVE  Offices'
<1> DEFINE d == [c EXCEPT !.pc = "log"]
<1>1. /\ c.pc = "change" /\ calls' = (calls \ {c}) \cup {d} /\ Watch /\ Doubt(c)
      /\ UNCHANGED <<status, groups, members, tokens, link, signing>>
  BY DEF Change, Become
<1>2. c \in Call /\ c.target \in Users /\ c.org \in Orgs /\ c.right \in Rights
  BY DEF Offices, TypeOK, Call
<1>3. c.target \in members[c.org]
  BY DEF Offices, CallsOK
<1>4. enabled' \subseteq Users /\ \A u \in enabled' : u \in enabled \/ u = c.target
  BY <1>2 DEF Change, Offices, TypeOK
<1>5. admins' \in [Orgs -> SUBSET Users]
  BY <1>2 DEF Change, Offices, TypeOK
<1>6. \A o \in Orgs, u \in Users : u \in admins'[o] => u \in admins[o] \/ (u = c.target /\ o = c.org)
  <2>1. CASE c.right = "enabled"
    BY <2>1 DEF Change
  <2>2. CASE c.right # "enabled"
    <3>1. admins' = [admins EXCEPT ![c.org] = IF c.grant THEN @ \cup {c.target} ELSE @ \ {c.target}]
      BY <2>2 DEF Change
    <3>2. QED
      BY <1>2, <3>1 DEF Offices, TypeOK
  <2>3. QED
    BY <2>1, <2>2
<1>7. \A o \in Orgs : admins'[o] \subseteq members[o]
  <2>1. ASSUME NEW o \in Orgs, NEW u \in admins'[o]
        PROVE  u \in members[o]
    BY <1>3, <1>5, <1>6, <2>1 DEF Offices, OneOrgEach
  <2>2. QED
    BY <2>1
<1>8. /\ OneOrgEach' /\ Outsiders' /\ Linked' /\ InOfficeOK' /\ TokensOK'
      /\ lost' \in [Users -> 0..Forgotten]
      /\ \A u \in Users : lost'[u] <= lost[u]
  BY <1>1, <1>4, <1>5, <1>7, GrantOK
<1>9. d \in Call /\ d.by = c.by /\ d.org = c.org /\ d.target = c.target /\ d.grant = c.grant
  BY <1>2 DEF Call
<1>10. told' \in [Rights -> [Users -> BOOLEAN \cup {Unclear}]]
  BY <1>1, <1>2 DEF Doubt, Offices, TypeOK
<1>11. TypeOK'
  BY <1>1, <1>4, <1>5, <1>8, <1>9, <1>10 DEF Offices, TypeOK
<1>12. CallsOK'
  <2>1. \A e \in calls : /\ e.by \in members'[e.org] /\ e.target \in members'[e.org]
                         /\ lost'[e.by] < TokenLife /\ (e.by = e.target => e.grant)
    BY <1>1, <1>8, CallsStay
  <2>2. QED
    BY <1>1, <1>9, <2>1 DEF CallsOK
<1>13. SigningOK'
  <2> SUFFICES ASSUME signing # Idle PROVE SigningOK'
    BY <1>1 DEF SigningOK
  <2>1. signing \in Signing /\ signing.user \in Users /\ signing.org \in Orgs
    BY DEF Offices, TypeOK, Signing
  <2>2. signing.founder => lost'[signing.user] = Forgotten
    <3>1. SUFFICES ASSUME signing.founder PROVE lost'[signing.user] = Forgotten
      OBVIOUS
    <3>2. lost[signing.user] = Forgotten /\ Forgotten # 0
      BY <3>1, AccountsAssumption DEF Offices, SigningOK, Forgotten
    <3>3. ~InOffice(signing.user)
      BY <2>1, <3>2 DEF Offices, InOfficeOK
    <3>4. c.target # signing.user
      BY <3>1, FounderUntouched
    <3>5. ~InOffice(signing.user)'
      BY <1>1, <1>4, <1>6, <2>1, <3>3, <3>4 DEF InOffice, Active
    <3>6. lost'[signing.user] = lost[signing.user]
      BY <1>1, <2>1, <3>5, WatchLowers DEF Offices
    <3>7. QED
      BY <3>2, <3>6
  <2>3. ~signing.founder => \E v \in members[signing.org] : lost'[v] < Forgotten
    <3>1. SUFFICES ASSUME ~signing.founder PROVE \E v \in members[signing.org] : lost'[v] < Forgotten
      OBVIOUS
    <3>2. PICK v \in members[signing.org] : lost[v] < Forgotten
      BY <3>1 DEF Offices, SigningOK
    <3>3. v \in Users /\ lost[v] \in Nat /\ lost'[v] \in Nat /\ lost'[v] <= lost[v] /\ Forgotten \in Nat
      BY <1>8, <2>1, AccountsAssumption DEF Offices, TypeOK, Forgotten
    <3>4. QED
      BY <3>2, <3>3
  <2>4. QED
    BY <1>1, <2>2, <2>3 DEF Offices, SigningOK
<1>14. QED
  BY <1>8, <1>11, <1>12, <1>13 DEF Offices

LEMMA EndCallOK ==
    ASSUME Offices,
           \/ \E c \in calls : CallFails(c) \/ LogEvent(c)
           \/ Restart
    PROVE  Offices'
<1>1. UNCHANGED <<directory, tokens, link, lost>> /\ calls' \subseteq calls /\ signing' \in {signing, Idle}
  BY DEF CallFails, LogEvent, Restart
<1>2. told' \in [Rights -> [Users -> BOOLEAN \cup {Unclear}]]
  <2>1. ASSUME NEW c \in calls, CallFails(c) PROVE told' \in [Rights -> [Users -> BOOLEAN \cup {Unclear}]]
    BY <2>1 DEF CallFails, Offices, TypeOK
  <2>2. ASSUME NEW c \in calls, LogEvent(c) PROVE told' \in [Rights -> [Users -> BOOLEAN \cup {Unclear}]]
    <3>1. c.grant \in BOOLEAN /\ c.right \in Rights /\ c.target \in Users
      BY DEF Offices, TypeOK, Call
    <3>2. PICK event \in {c.grant, Unclear} :
              told' = [told EXCEPT ![c.right][c.target] = IF @ = Unclear THEN @ ELSE event]
      BY <2>2 DEF LogEvent
    <3>3. event \in BOOLEAN \cup {Unclear}
      BY <3>1
    <3>4. QED
      BY <3>1, <3>2, <3>3 DEF Offices, TypeOK
  <2>3. ASSUME Restart PROVE told' \in [Rights -> [Users -> BOOLEAN \cup {Unclear}]]
    BY <2>3 DEF Restart, Offices, TypeOK
  <2>4. QED
    BY <2>1, <2>2, <2>3
<1>3. TypeOK'
  BY <1>1, <1>2 DEF Offices, TypeOK, directory
<1>4. Linked' /\ TokensOK' /\ CallsOK' /\ SigningOK'
  BY <1>1 DEF Offices, Linked, InviteValid, TokensOK, CallsOK, SigningOK, directory
<1>5. QED
  BY <1>1, <1>3, <1>4, QuietOK DEF Offices, OneOrgEach

LEMMA TickOK ==
    ASSUME Offices, Tick
    PROVE  Offices'
<1>1. /\ signing = Idle /\ calls = {}
      /\ tokens' = {t \in {[s EXCEPT !.age = Older(@, TokenLife)] : s \in tokens} : Unexpired(t)}
      /\ link' = [o \in Orgs |-> Older(link[o], InviteLife + 1)]
      /\ lost' = [u \in Users |-> IF InOffice(u) THEN 0 ELSE Older(lost[u], Forgotten)]
      /\ UNCHANGED <<directory, signing, calls, told>>
  BY DEF Tick
<1>2. TokenLife \in Nat /\ InviteLife \in Nat /\ Forgotten = TokenLife + InviteLife
  BY AccountsAssumption DEF Forgotten
<1>3. \A u \in Users : lost[u] \in 0..Forgotten /\ lost'[u] \in 0..Forgotten /\ lost'[u] <= lost[u] + 1
  BY <1>1, <1>2 DEF Offices, TypeOK, Older
<1>4. \A u \in Users : lost[u] = Forgotten /\ ~InOffice(u) => lost'[u] = Forgotten
  BY <1>1, <1>2 DEF Older
<1>5. ASSUME NEW t \in tokens'
      PROVE  /\ t \in Token
             /\ \E s \in tokens : /\ t.user = s.user /\ t.org = s.org /\ t.admin = s.admin
                                  /\ t.age = s.age + 1
  <2>1. PICK s \in tokens : t = [s EXCEPT !.age = Older(@, TokenLife)]
    BY <1>1
  <2>2. s \in Token /\ s.age \in 0..(TokenLife - 1) /\ Unexpired(t)
    BY <1>1 DEF Offices, TypeOK, Token
  <2>3. t.user = s.user /\ t.org = s.org /\ t.admin = s.admin /\ t.age = Older(s.age, TokenLife)
    BY <2>1, <2>2 DEF Token
  <2>4. t.age = s.age + 1 /\ t.age \in 0..(TokenLife - 1)
    BY <1>2, <2>2, <2>3 DEF Older, Unexpired
  <2>5. t = [user |-> s.user, org |-> s.org, admin |-> s.admin, age |-> t.age]
    BY <2>1, <2>2, <2>3 DEF Token
  <2>6. QED
    BY <2>2, <2>3, <2>4, <2>5 DEF Token
<1>6. TypeOK'
  <2>1. lost' \in [Users -> 0..Forgotten]
    BY <1>1, <1>3
  <2>2. link' \in [Orgs -> 0..(InviteLife + 1)]
    BY <1>1, <1>2 DEF Offices, TypeOK, Older
  <2>3. tokens' \subseteq Token
    BY <1>5
  <2>4. QED
    BY <1>1, <2>1, <2>2, <2>3 DEF Offices, TypeOK, directory
<1>7. OneOrgEach'
  <2>1. \A t \in tokens' : t.user \in members[t.org]
    BY <1>5 DEF Offices, OneOrgEach
  <2>2. QED
    BY <1>1, <2>1 DEF Offices, OneOrgEach, directory
<1>8. Outsiders'
  <2>1. ASSUME NEW u \in Users, status[u] = "none"
        PROVE  lost'[u] = Forgotten /\ \A o \in Orgs : u \notin members[o]
    <3>1. lost[u] = Forgotten /\ \A o \in Orgs : u \notin members[o]
      BY <2>1 DEF Offices, Outsiders
    <3>2. ~InOffice(u)
      BY <3>1 DEF Offices, OneOrgEach, InOffice, Active
    <3>3. QED
      BY <1>4, <3>1, <3>2
  <2>2. QED
    BY <1>1, <2>1 DEF Outsiders, directory
<1>9. Linked'
  <2>1. ASSUME NEW o \in Orgs, InviteValid(o)'
        PROVE  \E v \in members[o] : lost'[v] < TokenLife + link'[o]
    <3>1. link[o] \in 0..(InviteLife + 1) /\ link'[o] = Older(link[o], InviteLife + 1)
      BY <1>1 DEF Offices, TypeOK
    <3>2. link'[o] <= InviteLife
      BY <2>1 DEF InviteValid
    <3>3. link'[o] = link[o] + 1 /\ link[o] <= InviteLife
      BY <1>2, <3>1, <3>2 DEF Older
    <3>4. PICK v \in members[o] : lost[v] < TokenLife + link[o]
      BY <3>3 DEF Offices, Linked, InviteValid
    <3>5. v \in Users
      BY <3>4 DEF Offices, TypeOK
    <3>6. lost'[v] < TokenLife + link'[o]
      BY <1>2, <1>3, <3>1, <3>3, <3>4, <3>5
    <3>7. QED
      BY <3>4, <3>6
  <2>2. QED
    BY <1>1, <2>1 DEF Linked, directory
<1>10. InOfficeOK'
  BY <1>1 DEF InOfficeOK, InOffice, Active, directory
<1>11. TokensOK'
  <2>1. ASSUME NEW t \in tokens', t.admin
        PROVE  lost'[t.user] <= t.age
    <3>1. PICK s \in tokens : t.user = s.user /\ t.admin = s.admin /\ t.age = s.age + 1
      BY <1>5
    <3>2. s.user \in Users /\ s.age \in Nat /\ lost[s.user] <= s.age
      BY <1>2, <2>1, <3>1 DEF Offices, TokensOK, TypeOK, Token
    <3>3. QED
      BY <1>2, <1>3, <3>1, <3>2
  <2>2. QED
    BY <2>1 DEF TokensOK
<1>12. CallsOK' /\ SigningOK'
  BY <1>1 DEF CallsOK, SigningOK
<1>13. QED
  BY <1>6, <1>7, <1>8, <1>9, <1>10, <1>11, <1>12 DEF Offices

LEMMA OfficesStep == Offices /\ [Next]_vars => Offices'
<1> SUFFICES ASSUME Offices, [Next]_vars PROVE Offices'
  OBVIOUS
<1>1. ASSUME NEW u \in Users, NEW o \in Orgs, Signup(u, o) \/ Join(u, o) PROVE Offices'
  BY <1>1, BeginSigningOK
<1>2. CASE CreateOrg
  BY <1>2, CreateOrgOK
<1>3. CASE AddMember
  BY <1>3, AddMemberOK
<1>4. CASE MakeFounderAdmin
  BY <1>4, MakeFounderAdminOK
<1>5. CASE SigningFails \/ \E u \in Users : Confirm(u)
  BY <1>5, SigningFailsOK
<1>6. ASSUME NEW u \in Users, IssueToken(u) PROVE Offices'
  BY <1>6, IssueTokenOK
<1>7. ASSUME NEW t \in tokens, CreateInvite(t) PROVE Offices'
  BY <1>7, CreateInviteOK
<1>8. ASSUME NEW t \in tokens, NEW u \in Users,
             Suspend(t, u) \/ Unsuspend(t, u) \/ Promote(t, u) \/ Demote(t, u)
      PROVE  Offices'
  <2>1. "enabled" \in Rights /\ "admin" \in Rights /\ TRUE \in BOOLEAN /\ FALSE \in BOOLEAN
    BY DEF Rights
  <2>2. CASE Suspend(t, u)
    BY <2>1, <2>2, BeginOK DEF Suspend
  <2>3. CASE Unsuspend(t, u)
    BY <2>1, <2>3, BeginOK DEF Unsuspend
  <2>4. CASE Promote(t, u)
    BY <2>1, <2>4, BeginOK DEF Promote
  <2>5. CASE Demote(t, u)
    BY <2>1, <2>5, BeginOK DEF Demote
  <2>6. QED
    BY <1>8, <2>2, <2>3, <2>4, <2>5
<1>9. ASSUME NEW c \in calls, Change(c) PROVE Offices'
  BY <1>9, ChangeOK
<1>10. CASE (\E c \in calls : CallFails(c) \/ LogEvent(c)) \/ Restart
  BY <1>10, EndCallOK
<1>11. CASE Tick
  BY <1>11, TickOK
<1>12. CASE UNCHANGED vars
  BY <1>12 DEF vars, Offices, TypeOK, OneOrgEach, Outsiders, SigningOK, Linked, InviteValid,
     InOfficeOK, InOffice, Active, TokensOK, CallsOK
<1>13. QED
  BY <1>1, <1>2, <1>3, <1>4, <1>5, <1>6, <1>7, <1>8, <1>9, <1>10, <1>11, <1>12 DEF Next

-----------------------------------------------------------------------------
LEMMA ChangeEffect ==
    ASSUME Offices, NEW c \in calls, Change(c)
    PROVE  /\ \A u \in Users : (u \in enabled') # (u \in enabled) =>
                  u = c.target /\ c.right = "enabled" /\ (u \in enabled' <=> c.grant)
           /\ \A u \in Users, o \in Orgs : (u \in admins'[o]) # (u \in admins[o]) =>
                  u = c.target /\ o = c.org /\ c.right = "admin" /\ (u \in admins'[o] <=> c.grant)
           /\ c.right = "enabled" => (c.target \in enabled' <=> c.grant)
           /\ c.right = "admin" => (c.target \in admins'[c.org] <=> c.grant)
<1>1. /\ c.target \in Users /\ c.org \in Orgs /\ c.right \in {"enabled", "admin"}
      /\ c.grant \in BOOLEAN
  BY DEF Offices, TypeOK, Call, Rights
<1>2. CASE c.right = "enabled"
  <2>1. /\ admins' = admins
        /\ enabled' = IF c.grant THEN enabled \cup {c.target} ELSE enabled \ {c.target}
    BY <1>2 DEF Change
  <2>2. QED
    BY <1>1, <1>2, <2>1
<1>3. CASE c.right = "admin"
  <2>1. /\ enabled' = enabled
        /\ admins' = [admins EXCEPT ![c.org] = IF c.grant THEN @ \cup {c.target} ELSE @ \ {c.target}]
    BY <1>3 DEF Change
  <2>2. \A o \in Orgs : admins'[o] = IF o # c.org THEN admins[o]
                                     ELSE IF c.grant THEN admins[o] \cup {c.target}
                                     ELSE admins[o] \ {c.target}
    BY <1>1, <2>1 DEF Offices, TypeOK
  <2>3. QED
    BY <1>1, <1>3, <2>1, <2>2
<1>4. QED
  BY <1>1, <1>2, <1>3

\* Rights of a user change by a role change about him, or by his own signup.
LEMMA OnlyCallsChange ==
    ASSUME Offices, [Next]_vars, NEW u \in Users, NEW o \in Orgs,
           \/ (u \in enabled') # (u \in enabled)
           \/ (u \in admins'[o]) # (u \in admins[o])
    PROVE  \/ \E c \in calls : Change(c) /\ c.target = u
           \/ /\ MakeFounderAdmin /\ signing # Idle /\ signing.user = u
              /\ enabled' = enabled /\ admins[o] \subseteq admins'[o]
<1>1. ASSUME NEW c \in calls, Change(c)
      PROVE  c.target = u
  BY <1>1, ChangeEffect
<1>2. CASE MakeFounderAdmin
  <2>1. /\ signing # Idle /\ signing \in Signing /\ enabled' = enabled
        /\ admins' = [admins EXCEPT ![signing.org] = @ \cup {signing.user}]
    BY <1>2 DEF MakeFounderAdmin, Offices, TypeOK
  <2>2. admins'[o] = IF o = signing.org THEN admins[o] \cup {signing.user} ELSE admins[o]
    BY <2>1 DEF Offices, TypeOK
  <2>3. QED
    BY <1>2, <2>1, <2>2
<1>3. (~\E c \in calls : Change(c)) /\ ~MakeFounderAdmin => UNCHANGED <<enabled, admins>>
  BY DEF Next, vars, directory, Signup, Join, CreateOrg, AddMember, SigningFails, Confirm,
      IssueToken,
     CreateInvite, Suspend, Unsuspend, Promote, Demote, Begin, CallFails, LogEvent, Restart, Tick
<1>4. QED
  BY <1>1, <1>2, <1>3

LEMMA ChangedByCall ==
    ASSUME Offices, [Next]_vars, NEW u \in Users, NEW o \in Orgs, u \in members[o], Changed(u, o)
    PROVE  \E c \in calls : /\ Change(c) /\ c.target = u /\ c.org = o
                            /\ c.by \in members[o] /\ lost[c.by] < TokenLife
                            /\ (c.by = u => c.grant)
<1>1. PICK c \in calls : Change(c) /\ c.target = u
  BY OnlyCallsChange DEF Changed
<1>2. c.org \in Orgs /\ u \in members[c.org]
  BY <1>1 DEF Offices, TypeOK, Call, CallsOK
<1>3. c.org = o
  <2>1. u \in members[c.org] \cap members[o]
    BY <1>2
  <2>2. QED
    BY <1>2, <2>1 DEF Offices, OneOrgEach
<1>4. QED
  BY <1>1, <1>3 DEF Offices, CallsOK

LEMMA ApartStep == Offices /\ [Next]_vars =>
    \A u \in Users, o \in Orgs : u \in members[o] /\ Changed(u, o) =>
        \E c \in calls : /\ c.target = u /\ c.by \in members[o]
                         /\ c.by = u => c.grant
BY ChangedByCall

LEMMA FadeStep ==
    ASSUME Offices, [Next]_vars, NEW o \in Orgs
    PROVE  /\ (\E u \in members[o] : Changed(u, o)) => \E v \in members[o] : lost[v] < TokenLife
           /\ (members[o] # {} /\ members'[o] # members[o]) =>
                  \E v \in members[o] : lost[v] < TokenLife + InviteLife
<1>1. ASSUME NEW u \in members[o], Changed(u, o)
      PROVE  \E v \in members[o] : lost[v] < TokenLife
  <2>1. u \in Users
    BY DEF Offices, TypeOK
  <2>2. QED
    BY <1>1, <2>1, ChangedByCall
<1>2. ASSUME members[o] # {}, members'[o] # members[o]
      PROVE  \E v \in members[o] : lost[v] < TokenLife + InviteLife
  <2>1. AddMember
    BY <1>2 DEF Next, vars, directory, Signup, Join, CreateOrg, MakeFounderAdmin,
        SigningFails, Confirm,
       IssueToken, CreateInvite, Suspend, Unsuspend, Promote, Demote, Begin, Change, CallFails,
       LogEvent, Restart, Tick
  <2>2. /\ signing # Idle /\ signing.pc = "member" /\ signing \in Signing
        /\ members' = [members EXCEPT ![signing.org] = @ \cup {signing.user}]
    BY <2>1 DEF AddMember, Offices, TypeOK
  <2>3. signing.org = o
    BY <1>2, <2>2 DEF Offices, TypeOK
  <2>4. QED
    BY <1>2, <2>2, <2>3 DEF Offices, SigningOK, Forgotten
<1>3. QED
  BY <1>1, <1>2

LEMMA LastAdminStep ==
    ASSUME Offices, [Next]_vars, NEW o \in Orgs, Active(o) # {}, Active(o)' = {}
    PROVE  \E c \in calls : c.pc = "change" /\ c.org = o /\ c.by \notin Active(o)
<1>1. PICK v \in Active(o) : TRUE
  OBVIOUS
<1>2. v \in Users /\ v \in members[o] /\ v \in enabled /\ v \in admins[o]
  BY <1>1 DEF Active, Offices, OneOrgEach, TypeOK
<1>3. v \notin enabled' \/ v \notin admins'[o]
  BY DEF Active
<1>4. Changed(v, o)
  <2>1. CASE \E c \in calls : Change(c) /\ c.target = v
    <3>1. PICK c \in calls : Change(c) /\ c.target = v
      BY <2>1
    <3>2. ASSUME signing # Idle, signing.user = v
          PROVE  FALSE
      <4>1. signing.pc = "admin" /\ signing \in Signing
        BY <1>2, <3>2 DEF Offices, SigningOK, TypeOK
      <4>2. signing.founder
        BY <3>2, <4>1 DEF Offices, SigningOK
      <4>3. QED
        BY <3>1, <3>2, <4>2, FounderUntouched
    <3>3. QED
      BY <1>2, <1>3, <3>2 DEF Changed
  <2>2. CASE MakeFounderAdmin /\ enabled' = enabled /\ admins[o] \subseteq admins'[o]
    BY <1>2, <1>3, <2>2
  <2>3. QED
    BY <1>2, <1>3, <2>1, <2>2, OnlyCallsChange
<1>5. PICK c \in calls : Change(c) /\ c.target = v /\ c.org = o
  BY <1>2, <1>4, ChangedByCall
<1>6. c.pc = "change" /\ c.by \in Users /\ c.by \in members[o]
  BY <1>5 DEF Change, Offices, CallsOK, TypeOK, Call
<1>7. ASSUME c.by \in Active(o)
      PROVE  FALSE
  <2>1. c.by \in enabled /\ c.by \in admins[o] /\ (c.by \notin enabled' \/ c.by \notin admins'[o])
    BY <1>7 DEF Active
  <2>2. c.by = c.target /\ ~c.grant
    BY <1>5, <1>6, <2>1, ChangeEffect
  <2>3. QED
    BY <2>2 DEF Offices, CallsOK
<1>8. QED
  BY <1>5, <1>6, <1>7

-----------------------------------------------------------------------------
LEMMA AuditInitially == Init => AuditOK
<1> SUFFICES ASSUME Init PROVE AuditOK
  OBVIOUS
<1>1. ASSUME NEW u \in Users
      PROVE  told["enabled"][u] = Has(u, "enabled") /\ told["admin"][u] = Has(u, "admin")
  <2>1. (u \in enabled) = TRUE /\ (\E o \in Orgs : u \in admins[o]) = FALSE
    BY DEF Init
  <2>2. told["enabled"][u] = TRUE /\ told["admin"][u] = FALSE
    BY DEF Init, Rights
  <2>3. QED
    BY <2>1, <2>2 DEF Has
<1>2. \A right \in Rights, u \in Users : Logging(u, right) = {}
  BY DEF Init, Logging
<1>3. QED
  BY <1>1, <1>2 DEF AuditOK, Rights

\* Neither the rights nor the events in flight change.
LEMMA AuditQuiet ==
    ASSUME AuditOK, UNCHANGED <<enabled, admins, told>>,
           \A right \in Rights, u \in Users : Logging(u, right)' = Logging(u, right)
    PROVE  AuditOK'
<1>1. \A right \in Rights, u \in Users : Has(u, right)' = Has(u, right)
  BY DEF Has
<1>2. QED
  BY <1>1 DEF AuditOK

LEMMA AuditFounder ==
    ASSUME Offices, AuditOK, MakeFounderAdmin
    PROVE  AuditOK'
<1>1. /\ signing \in Signing /\ signing.pc = "admin" /\ signing # Idle
      /\ signing.user \in Users /\ signing.org \in Orgs /\ signing.founder
  <2>1. signing # Idle /\ signing \in Signing /\ signing.pc = "admin"
    BY DEF MakeFounderAdmin, Offices, TypeOK
  <2>2. QED
    BY <2>1 DEF Offices, SigningOK, Signing
<1>2. /\ admins' = [admins EXCEPT ![signing.org] = @ \cup {signing.user}]
      /\ told' = [told EXCEPT !["admin"][signing.user] = TRUE]
      /\ UNCHANGED <<enabled, calls>>
  BY DEF MakeFounderAdmin
<1>3. \A c \in calls : c.target # signing.user
  BY <1>1, FounderUntouched
<1>4. \A o \in Orgs : admins'[o] = IF o = signing.org THEN admins[o] \cup {signing.user} ELSE admins[o]
  BY <1>2 DEF Offices, TypeOK
<1>5. ASSUME NEW right \in Rights, NEW u \in Users, told'[right][u] # Unclear
      PROVE  /\ Logging(u, right)' = {} => told'[right][u] = Has(u, right)'
             /\ \A c \in Logging(u, right)' : Logging(u, right)' = {c} /\ c.grant = Has(u, right)'
  <2>1. Logging(u, right)' = Logging(u, right)
    BY <1>2 DEF Logging
  <2>2. CASE right = "admin" /\ u = signing.user
    <3>1. told'[right][u] = TRUE
      BY <1>2, <2>2 DEF Offices, TypeOK
    <3>2. Has(u, right)' = TRUE
      BY <1>1, <1>4, <2>2 DEF Has
    <3>3. Logging(u, right) = {}
      BY <1>3, <2>2 DEF Logging
    <3>4. QED
      BY <2>1, <3>1, <3>2, <3>3
  <2>3. CASE ~(right = "admin" /\ u = signing.user)
    <3>1. told'[right][u] = told[right][u]
      BY <1>2, <2>3 DEF Offices, TypeOK
    <3>2. Has(u, right)' = Has(u, right)
      <4>1. CASE right = "enabled"
        BY <1>2, <4>1 DEF Has
      <4>2. CASE right = "admin"
        <5>1. ASSUME NEW o \in Orgs
              PROVE  u \in admins'[o] <=> u \in admins[o]
          <6>1. u # signing.user
            BY <2>3, <4>2
          <6>2. CASE o = signing.org
            <7>1. admins'[o] = admins[o] \cup {signing.user}
              BY <1>4, <6>2
            <7>2. QED
              BY <6>1, <7>1
          <6>3. CASE o # signing.org
            BY <1>4, <6>3
          <6>4. QED
            BY <6>2, <6>3
        <5>2. (\E o \in Orgs : u \in admins'[o]) = (\E o \in Orgs : u \in admins[o])
          BY <5>1
        <5>3. QED
          BY <4>2, <5>2 DEF Has
      <4>3. QED
        BY <4>1, <4>2 DEF Rights
    <3>3. QED
      BY <1>5, <2>1, <3>1, <3>2 DEF AuditOK
  <2>4. QED
    BY <2>2, <2>3
<1>6. QED
  BY <1>5 DEF AuditOK

LEMMA AuditChange ==
    ASSUME Offices, AuditOK, NEW c \in calls, Change(c)
    PROVE  AuditOK'
<1> DEFINE d == [c EXCEPT !.pc = "log"]
<1>1. c.pc = "change" /\ calls' = (calls \ {c}) \cup {d} /\ Doubt(c)
  BY DEF Change, Become
<1>2. /\ c \in Call /\ c.target \in Users /\ c.org \in Orgs /\ c.right \in Rights
      /\ c.grant \in BOOLEAN /\ c.target \in members[c.org]
  BY DEF Offices, TypeOK, Call, CallsOK
<1>3. d.pc = "log" /\ d.target = c.target /\ d.right = c.right /\ d.grant = c.grant
  BY <1>2 DEF Call
<1>4. ASSUME NEW right \in Rights, NEW u \in Users, told'[right][u] # Unclear
      PROVE  /\ Logging(u, right)' = {} => told'[right][u] = Has(u, right)'
             /\ \A e \in Logging(u, right)' : Logging(u, right)' = {e} /\ e.grant = Has(u, right)'
  <2>1. CASE right = c.right /\ u = c.target
    <3>1. Unlogged(c) = {}
      BY <1>1, <1>2, <1>4, <2>1 DEF Doubt, Offices, TypeOK
    <3>2. Logging(u, right)' = {d}
      <4>1. \A e \in calls' : e.pc = "log" /\ e.right = right /\ e.target = u => e = d
        BY <1>1, <2>1, <3>1 DEF Unlogged
      <4>2. QED
        BY <1>1, <1>3, <2>1, <4>1 DEF Logging
    <3>3. c.grant = Has(u, right)'
      <4>1. CASE right = "enabled"
        <5>1. c.target \in enabled' <=> c.grant
          BY <2>1, <4>1, ChangeEffect
        <5>2. Has(u, right)' = (c.target \in enabled')
          BY <2>1, <4>1 DEF Has
        <5>3. QED
          BY <1>2, <5>1, <5>2
      <4>2. CASE right = "admin"
        <5>1. c.target \in admins'[c.org] <=> c.grant
          BY <2>1, <4>2, ChangeEffect
        <5>2. ASSUME NEW o \in Orgs, o # c.org
              PROVE  c.target \notin admins'[o]
          <6>1. c.target \notin members[o]
            <7>1. c.target \in members[o] => members[c.org] \cap members[o] # {}
              BY <1>2
            <7>2. QED
              BY <1>2, <5>2, <7>1 DEF Offices, OneOrgEach
          <6>2. c.target \notin admins[o]
            BY <6>1 DEF Offices, OneOrgEach
          <6>3. QED
            BY <1>2, <5>2, <6>2, ChangeEffect
        <5>3. (\E o \in Orgs : c.target \in admins'[o]) <=> c.grant
          BY <1>2, <5>1, <5>2
        <5>4. Has(u, right)' = (\E o \in Orgs : c.target \in admins'[o])
          BY <2>1, <4>2 DEF Has
        <5>5. QED
          BY <1>2, <5>3, <5>4
      <4>3. QED
        BY <4>1, <4>2 DEF Rights
    <3>4. QED
      BY <1>3, <3>2, <3>3
  <2>2. CASE ~(right = c.right /\ u = c.target)
    <3>1. told'[right][u] = told[right][u]
      BY <1>1, <1>2, <2>2 DEF Doubt, Offices, TypeOK
    <3>2. Logging(u, right)' = Logging(u, right)
      BY <1>1, <1>3, <2>2 DEF Logging
    <3>3. Has(u, right)' = Has(u, right)
      <4>1. CASE right = "enabled"
        BY <2>2, <4>1, ChangeEffect DEF Has
      <4>2. CASE right = "admin"
        <5>1. \A o \in Orgs : (u \in admins'[o]) = (u \in admins[o])
          BY <2>2, <4>2, ChangeEffect
        <5>2. QED
          BY <4>2, <5>1 DEF Has
      <4>3. QED
        BY <4>1, <4>2 DEF Rights
    <3>4. QED
      BY <1>4, <3>1, <3>2, <3>3 DEF AuditOK
  <2>3. QED
    BY <2>1, <2>2
<1>5. QED
  BY <1>4 DEF AuditOK

LEMMA AuditLogEvent ==
    ASSUME Offices, AuditOK, NEW c \in calls, LogEvent(c)
    PROVE  AuditOK'
<1>1. c.pc = "log" /\ calls' = calls \ {c} /\ UNCHANGED <<enabled, admins>>
  BY DEF LogEvent, directory
<1>2. c.target \in Users /\ c.right \in Rights
  BY DEF Offices, TypeOK, Call
<1>3. PICK event \in {c.grant, Unclear} :
          told' = [told EXCEPT ![c.right][c.target] = IF @ = Unclear THEN @ ELSE event]
  BY DEF LogEvent
<1>4. \A right \in Rights, u \in Users : Has(u, right)' = Has(u, right)
  BY <1>1 DEF Has
<1>5. ASSUME NEW right \in Rights, NEW u \in Users, told'[right][u] # Unclear
      PROVE  /\ Logging(u, right)' = {} => told'[right][u] = Has(u, right)
             /\ \A e \in Logging(u, right)' : Logging(u, right)' = {e} /\ e.grant = Has(u, right)
  <2>1. CASE right = c.right /\ u = c.target
    <3>1. told[right][u] # Unclear /\ told'[right][u] = c.grant
      BY <1>2, <1>3, <1>5, <2>1 DEF Offices, TypeOK
    <3>2. c \in Logging(u, right)
      BY <1>1, <2>1 DEF Logging
    <3>3. Logging(u, right) = {c} /\ c.grant = Has(u, right)
      BY <3>1, <3>2 DEF AuditOK
    <3>4. Logging(u, right)' = {}
      BY <1>1, <3>3 DEF Logging
    <3>5. QED
      BY <3>1, <3>3, <3>4
  <2>2. CASE ~(right = c.right /\ u = c.target)
    <3>1. told'[right][u] = told[right][u]
      BY <1>2, <1>3, <2>2 DEF Offices, TypeOK
    <3>2. Logging(u, right)' = Logging(u, right)
      BY <1>1, <2>2 DEF Logging
    <3>3. QED
      BY <1>5, <3>1, <3>2 DEF AuditOK
  <2>3. QED
    BY <2>1, <2>2
<1>6. QED
  BY <1>4, <1>5 DEF AuditOK

LEMMA AuditRestart ==
    ASSUME Offices, AuditOK, Restart
    PROVE  AuditOK'
<1>1. calls' = {} /\ UNCHANGED <<enabled, admins>>
  BY DEF Restart, directory
<1>2. ASSUME NEW right \in Rights, NEW u \in Users
      PROVE  told'[right][u] = IF Logging(u, right) # {} THEN Unclear ELSE told[right][u]
  BY <1>2 DEF Restart, Logging
<1>3. \A right \in Rights, u \in Users : Has(u, right)' = Has(u, right) /\ Logging(u, right)' = {}
  BY <1>1 DEF Has, Logging
<1>4. QED
  BY <1>2, <1>3 DEF AuditOK

LEMMA AuditStep == Offices /\ AuditOK /\ [Next]_vars => AuditOK'
<1> SUFFICES ASSUME Offices, AuditOK, [Next]_vars PROVE AuditOK'
  OBVIOUS
<1>1. CASE MakeFounderAdmin
  BY <1>1, AuditFounder
<1>2. ASSUME NEW c \in calls, Change(c) PROVE AuditOK'
  BY <1>2, AuditChange
<1>3. ASSUME NEW c \in calls, LogEvent(c) PROVE AuditOK'
  BY <1>3, AuditLogEvent
<1>4. CASE Restart
  BY <1>4, AuditRestart
<1>5. ASSUME NEW c \in calls, CallFails(c) PROVE AuditOK'
  <2>1. c.pc = "change" /\ calls' = calls \ {c} /\ UNCHANGED <<enabled, admins, told>>
    BY <1>5 DEF CallFails, directory
  <2>2. \A right \in Rights, u \in Users : Logging(u, right)' = Logging(u, right)
    BY <2>1 DEF Logging
  <2>3. QED
    BY <2>1, <2>2, AuditQuiet
<1>6. ASSUME NEW t \in tokens, NEW u \in Users, NEW right, NEW grant, Begin(t, u, right, grant)
      PROVE  AuditOK'
  <2>1. /\ calls' = calls \cup {[by |-> t.user, org |-> t.org, target |-> u, right |-> right,
                                grant |-> grant, pc |-> "change"]}
        /\ UNCHANGED <<enabled, admins, told>>
    BY <1>6 DEF Begin, directory
  <2>2. \A r \in Rights, v \in Users : Logging(v, r)' = Logging(v, r)
    BY <2>1 DEF Logging
  <2>3. QED
    BY <2>1, <2>2, AuditQuiet
<1>7. ASSUME UNCHANGED <<enabled, admins, told, calls>> PROVE AuditOK'
  BY <1>7, AuditQuiet DEF Logging
<1>8. CASE UNCHANGED vars
  BY <1>7, <1>8 DEF vars
<1>9. QED
  BY <1>1, <1>2, <1>3, <1>4, <1>5, <1>6, <1>7, <1>8
     DEF Next, directory, Signup, Join, CreateOrg, AddMember, SigningFails, Confirm, IssueToken,
         CreateInvite, Suspend, Unsuspend, Promote, Demote, Tick

-----------------------------------------------------------------------------
\* Nobody can be in two organizations, and every token names its holder's.
THEOREM OneOrganizationEach == Spec => [](TypeOK /\ OneOrgEach)
BY OfficesInitially, OfficesStep, PTL DEF Spec, Offices

\* Whoever loses or gains a right does so by somebody of his organization, and
\* nobody takes a right from himself (_require_org_member, suspend_user).
THEOREM TenantsStayApart == Spec => TenantsApart
<1>1. Offices /\ [Next]_vars =>
          [\A u \in Users, o \in Orgs : u \in members[o] /\ Changed(u, o) =>
               \E c \in calls : /\ c.target = u /\ c.by \in members[o]
                                /\ c.by = u => c.grant]_vars
  BY ApartStep
<1>2. QED
  BY <1>1, OfficesInitially, OfficesStep, PTL DEF Spec, TenantsApart

\* A suspended or demoted admin is powerless after TokenLife, and the links he
\* made after InviteLife more (verify_id_token, decode_invite_token).
THEOREM PowersEnd == Spec => PowersFade
<1>1. Offices /\ [Next]_vars =>
          [\A o \in Orgs :
               /\ (\E u \in members[o] : Changed(u, o)) => \E v \in members[o] : lost[v] < TokenLife
               /\ (members[o] # {} /\ members'[o] # members[o]) =>
                      \E v \in members[o] : lost[v] < TokenLife + InviteLife]_vars
  BY FadeStep
<1>2. QED
  BY <1>1, OfficesInitially, OfficesStep, PTL DEF Spec, PowersFade

\* The block on self-demotion keeps an active admin in an organization unless
\* the caller himself is none any more (auth_service.py:462-484).
THEOREM LastAdminStays == Spec => LastAdminByStaleToken
<1>1. Offices /\ [Next]_vars =>
          [\A o \in Orgs : Active(o) # {} /\ Active(o)' = {} =>
               \E c \in calls : c.pc = "change" /\ c.org = o /\ c.by \notin Active(o)]_vars
  BY LastAdminStep
<1>2. QED
  BY <1>1, OfficesInitially, OfficesStep, PTL DEF Spec, LastAdminByStaleToken

\* The last event about a right tells it truly, unless one was lost or two
\* overlapped (the log_event call after each change, api/admin.py:99-165).
THEOREM AuditIsTrue == Spec => []AuditTellsRights
<1>1. Offices /\ AuditOK => AuditTellsRights
  <2>1. SUFFICES ASSUME Offices, AuditOK, NEW right \in Rights, NEW u \in Users,
                        told[right][u] # Unclear, told[right][u] # Has(u, right)
                 PROVE  \E c \in calls : c.pc = "log" /\ c.right = right /\ c.target = u
    BY DEF AuditTellsRights
  <2>2. Logging(u, right) # {}
    BY <2>1 DEF AuditOK
  <2>3. QED
    BY <2>2 DEF Logging
<1>2. IInv /\ [Next]_vars => IInv'
  BY OfficesStep, AuditStep DEF IInv
<1>3. QED
  BY <1>1, <1>2, OfficesInitially, AuditInitially, PTL DEF Spec, IInv
=============================================================================
