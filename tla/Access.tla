------------------------------- MODULE Access -------------------------------
(***************************************************************************)
(* Administrators of the CMS: accounts, roles and teams in Postgres        *)
(* (services/voting_service/cms_store/rbac.py and teams.py), their tokens  *)
(* and failed logins in Redis (cms/auth.py, cms_auth.py), and the requests *)
(* that use and change them (cms/access.py, cms/overview.py and, for the   *)
(* sessions, retrospectives and boards of a team, cms_team_access.py).     *)
(*                                                                         *)
(* A step is one command of Redis, one statement or one transaction of     *)
(* Postgres; delete_team is taken statement by statement, since nothing    *)
(* but the rows it updates keeps others out between them.  Whether a       *)
(* session runs is in Redis (SessionStore): its row in Postgres, which     *)
(* delete_team looks at, follows with the sync (CmsSync).  A role is told  *)
(* apart by whether it allows to manage access, a password by its number.  *)
(***************************************************************************)
EXTENDS Naturals, FiniteSets

CONSTANTS
    Admins,
    Roots,       \* the superusers, which only the bootstrap makes
    Roles,
    SystemRoles, \* those that allow to manage access and cannot be edited
    Teams,
    Default,     \* the team with the slug "default"
    Records,     \* sessions and retrospectives
    Retros,      \* the retrospectives
    Tokens,
    Signed,      \* who the tokens have been issued to at first
    Handlers,    \* the requests the service works on at a time
    Forms,       \* what the form of an administrator may ask for
    MaxFailures, \* CMS_LOGIN_MAX_ATTEMPTS
    MaxRequests, \* bound: the requests that begin
    MaxCrashes,  \* bound: the crashes
    None

\* The rows: accounts with their roles and teams, and sessions or retrospectives.
Accounts == [active : BOOLEAN, version : Nat, password : Nat, roles : SUBSET Roles,
             teams : SUBSET Teams]
Owned    == [team : Teams \cup {None}, live : BOOLEAN]
Issued   == [admin : Admins, version : Nat]

\* Somebody has signed in at first; None is no row and no value.
ASSUME AccessAssumption ==
    /\ Tokens # {} /\ None \notin Accounts \cup Owned \cup Issued \cup BOOLEAN
    /\ Roots \subseteq Admins /\ SystemRoles \subseteq Roles
    /\ Default \in Teams /\ None \notin Teams
    /\ Retros \subseteq Records /\ Signed \in [Tokens -> Admins]
    /\ Forms \subseteq [active : BOOLEAN, roles : SUBSET Roles, teams : SUBSET Teams,
                        password : BOOLEAN]
    /\ MaxFailures \in Nat \ {0} /\ MaxRequests \in Nat /\ MaxCrashes \in Nat

VARIABLES
    account,  \* cms_admin_accounts with cms_admin_roles and cms_admin_teams
    role,     \* cms_roles: whether they allow to manage access
    team,     \* cms_teams: whether they are active
    record,   \* cms_sessions and cms_retros: the team, is_active or status "live"
    running,  \* the sessions that run, in Redis
    token,    \* cms_token:*
    failures, \* cms_login_fail:*
    req,      \* the requests being worked on
    lapsed,   \* history: the tokens older than a confirmed change that ends them
    raced,    \* history: two requests have been worked on at a time
    missed,   \* history: the records that went live after a deletion of their
              \* team had counted their kind
    begun, crashes

stores  == <<account, role, team, record, token, failures>>
history == <<lapsed, raced, begun, crashes, running, missed>>
vars    == <<stores, req, history>>

Zero     == [count |-> 0, ttl |-> FALSE]
Wrong    == MaxRequests + 1 \* a password nobody has

Known(f)     == {x \in DOMAIN f : f[x] # None}
Active(a)    == a \in Known(account) /\ account[a].active

\* get_admin_principal: what the roles allow, and the teams that are active.
MayManage(a) == a \in Roots \/ \E r \in account[a].roles : role[r] = TRUE
TeamsOf(a)   == {t \in account[a].teams : team[t] = TRUE}

Idle == [pc |-> "idle", op |-> "none", key |-> None, x |-> None, change |-> None,
         admin |-> None, version |-> 0, teams |-> {}, linked |-> {}, late |-> FALSE]

\* A service that runs: the bootstrap has made the superusers, who have made
\* the other administrators that are signed in.
Init ==
    /\ account = [a \in Admins |->
          IF \E k \in Tokens : Signed[k] = a
          THEN [active |-> TRUE, version |-> 1, password |-> 0, roles |-> SystemRoles,
                teams |-> IF a \in Roots THEN {} ELSE Teams]
          ELSE None]
    /\ role = [r \in Roles |-> IF r \in SystemRoles THEN TRUE ELSE None]
    /\ team = [t \in Teams |-> TRUE]
    /\ record = [r \in Records |-> None]
    /\ token = [k \in Tokens |-> [admin |-> Signed[k], version |-> 1]]
    /\ failures = [a \in Admins |-> Zero]
    /\ req = [h \in Handlers |-> Idle]
    /\ running = {} /\ missed = {}
    /\ lapsed = {} /\ raced = FALSE /\ begun = 0 /\ crashes = 0

-----------------------------------------------------------------------------
(* Requests.                                                               *)

Begin(h, r) ==
    /\ req[h] = Idle /\ begun < MaxRequests
    /\ req' = [req EXCEPT ![h] = r]
    /\ begun' = begun + 1
    /\ raced' = (raced \/ \E g \in Handlers : req[g] # Idle)
    /\ UNCHANGED <<stores, lapsed, crashes, running, missed>>

SignIn(h) == \E a \in Known(account) : \E p \in {account[a].password, Wrong} :
    Begin(h, [Idle EXCEPT !.pc = "limit", !.op = "login", !.x = a, !.change = p])

\* The others bring a token.
Ask(h, op, x, change) == \E k \in Known(token) :
    Begin(h, [Idle EXCEPT !.pc = "token", !.op = op, !.key = k, !.x = x,
                          !.change = change, !.late = (k \in lapsed)])

\* What is asked for is a change of what the client has seen.
SignOut(h)      == Ask(h, "logout", None, None)
CreateRole(h)   == \E r \in Roles, m \in BOOLEAN : role[r] = None /\ Ask(h, "newrole", r, m)
UpdateRole(h)   == \E r \in Known(role) : Ask(h, "role", r, ~role[r])
CreateAdmin(h)  == \E a \in Admins \ Known(account), f \in Forms : Ask(h, "newadmin", a, f)
UpdateAdmin(h)  == \E a \in Known(account), f \in Forms : Ask(h, "admin", a, f)
CreateTeam(h)   == \E t \in Teams \ Known(team) : Ask(h, "newteam", t, TRUE)
UpdateTeam(h)   == \E t \in Known(team) : Ask(h, "team", t, ~team[t])
DeleteTeam(h)   == \E t \in Known(team) : Ask(h, "rmteam", t, None)
CreateRecord(h) == \E r \in Records \ Known(record), t \in Known(team) \cup {None} :
    Ask(h, "newrecord", r, t)
ManageRecord(h) == \E r \in Known(record) :
    Ask(h, "record", r, IF r \in Retros THEN ~record[r].live ELSE r \notin running)

Arrive(h) ==
    \/ SignIn(h) \/ SignOut(h) \/ CreateRole(h) \/ UpdateRole(h) \/ CreateAdmin(h)
    \/ UpdateAdmin(h) \/ CreateTeam(h) \/ UpdateTeam(h) \/ DeleteTeam(h)
    \/ CreateRecord(h) \/ ManageRecord(h)

At(h, stage) == req[h].pc = stage
Move(h, r)   == req' = [req EXCEPT ![h] = r]
Goto(h, stage) == Move(h, [req[h] EXCEPT !.pc = stage])
Done(h)      == Move(h, Idle)

-----------------------------------------------------------------------------
(* Login: the counter, the account, the counter again, the token.          *)

Limited(a) == failures[a].count >= MaxFailures

\* _ensure_login_not_limited
CheckLimit(h) ==
    /\ At(h, "limit")
    /\ IF Limited(req[h].x) THEN Done(h) ELSE Goto(h, "password")
    /\ UNCHANGED <<stores, history>>

\* The rows a deletion of a team has updated and not committed.
Locked(a) == \E g \in Handlers : At(g, "erase") /\ a \in req[g].linked

\* verify_admin_login, which notes the time of the login in the row.
CheckPassword(h) ==
    /\ At(h, "password")
    /\ IF Active(req[h].x) /\ account[req[h].x].password = req[h].change
       THEN ~Locked(req[h].x) /\ Goto(h, "principal") ELSE Goto(h, "failed")
    /\ UNCHANGED <<stores, history>>

ReadPrincipal(h) ==
    /\ At(h, "principal")
    /\ IF Active(req[h].x)
       THEN Move(h, [req[h] EXCEPT !.pc = "clear", !.version = account[req[h].x].version])
       ELSE Goto(h, "failed")
    /\ UNCHANGED <<stores, history>>

ClearFailures(h) ==
    /\ At(h, "clear") /\ Goto(h, "issue")
    /\ failures' = [failures EXCEPT ![req[h].x] = Zero]
    /\ UNCHANGED <<account, role, team, record, token, history>>

\* A new token is none that a request still carries.
IssueToken(h) ==
    /\ At(h, "issue") /\ Done(h)
    /\ \E k \in Tokens \ Known(token) :
          /\ \A g \in Handlers : req[g].key # k
          /\ token' = [token EXCEPT ![k] = [admin |-> req[h].x, version |-> req[h].version]]
    /\ UNCHANGED <<account, role, team, record, failures, history>>

\* Mutant: the window is set by the failure that reaches the limit, and never
\* when a later login counts from there.
SetsWindowLate(count) == count > MaxFailures

\* _record_login_failure: INCR, and EXPIRE by the one who has counted one.
SetsWindow(count) == count = 1

CountFailure(h) ==
    /\ At(h, "failed")
    /\ failures' = [failures EXCEPT ![req[h].x].count = @ + 1]
    /\ IF SetsWindow(failures[req[h].x].count + 1) THEN Goto(h, "window") ELSE Done(h)
    /\ UNCHANGED <<account, role, team, record, token, history>>

SetWindow(h) ==
    /\ At(h, "window") /\ Done(h)
    /\ failures' = [failures EXCEPT ![req[h].x].ttl = (failures[req[h].x].count > 0)]
    /\ UNCHANGED <<account, role, team, record, token, history>>

Login(h) ==
    \/ CheckLimit(h) \/ CheckPassword(h) \/ ReadPrincipal(h) \/ ClearFailures(h)
    \/ IssueToken(h) \/ CountFailure(h) \/ SetWindow(h)

-----------------------------------------------------------------------------
(* _require_auth and the checks of permission and team.  Permissions other *)
(* than that to manage access are taken as held.                           *)

ReadToken(h) ==
    /\ At(h, "token")
    /\ IF req[h].key \in Known(token)
       THEN Move(h, [req[h] EXCEPT !.pc = "account", !.admin = token[req[h].key].admin,
                                   !.version = token[req[h].key].version])
       ELSE Done(h)
    /\ UNCHANGED <<stores, history>>

Current(h) == Active(req[h].admin) /\ account[req[h].admin].version = req[h].version

DropToken(h) ==
    /\ At(h, "drop") /\ Done(h)
    /\ token' = [token EXCEPT ![req[h].key] = None]
    /\ lapsed' = lapsed \ {req[h].key}
    /\ UNCHANGED <<account, role, team, record, failures, raced, begun, crashes, running, missed>>

Permitted(h, manage) ==
    CASE req[h].op \in {"newrole", "role", "newadmin", "admin"} -> manage
      [] req[h].op \in {"newteam", "team", "rmteam"} -> req[h].admin \in Roots
      [] OTHER -> TRUE

\* get_admin_principal: its queries, of the account, the roles and the teams, are
\* one step.
ReadAccount(h) ==
    /\ At(h, "account")
    /\ LET a == req[h].admin IN
       IF ~Current(h) THEN Goto(h, "drop")
       ELSE IF ~Permitted(h, MayManage(a)) THEN Done(h)
       ELSE Move(h, [req[h] EXCEPT !.pc = "act", !.teams = TeamsOf(a)])
    /\ UNCHANGED <<stores, history>>

Super(h) == req[h].admin \in Roots

Acts(h, op) == At(h, "act") /\ req[h].op = op

LogOut(h) ==
    /\ Acts(h, "logout") /\ Done(h)
    /\ token' = [token EXCEPT ![req[h].key] = None]
    /\ lapsed' = lapsed \ {req[h].key}
    /\ UNCHANGED <<account, role, team, record, failures, raced, begun, crashes, running, missed>>

-----------------------------------------------------------------------------
(* Roles and administrators.                                               *)

WriteRole(h) ==
    /\ Acts(h, "newrole") \/ Acts(h, "role")
    /\ LET r == req[h].x
           fits == IF req[h].op = "newrole" THEN role[r] = None ELSE r \notin SystemRoles
       IN  role' = IF fits THEN [role EXCEPT ![r] = req[h].change] ELSE role
    /\ Done(h)
    /\ UNCHANGED <<account, team, record, token, failures, history>>

\* _replace_admin_roles and _replace_admin_teams
LinkedRoles(f) == f.roles \cap Known(role)
LinkedTeams(f) == {t \in f.teams : team[t] = TRUE}

NewAccount(h, f) ==
    [active |-> f.active, version |-> 1, password |-> 0, roles |-> LinkedRoles(f),
     teams |-> IF Super(h) THEN LinkedTeams(f) ELSE {}]

\* Mutant: a new password leaves the tokens of before.
ChangedKeepingVersion(a, f, super) ==
    [active |-> f.active, version |-> a.version,
     password |-> a.password + (IF f.password THEN 1 ELSE 0),
     roles |-> LinkedRoles(f), teams |-> IF super THEN LinkedTeams(f) ELSE a.teams]

\* A password ends the tokens of before; only a superuser changes the teams.
Changed(a, f, super) ==
    [active |-> f.active,
     version |-> a.version + (IF f.password THEN 1 ELSE 0),
     password |-> a.password + (IF f.password THEN 1 ELSE 0),
     roles |-> LinkedRoles(f),
     teams |-> IF super THEN LinkedTeams(f) ELSE a.teams]

\* Mutant: an administrator may deactivate the account in use.
MayChangeAny(h, a, f) == Super(h) \/ f.teams = {}

\* What the routes refuse before they call the store.
MayChange(h, a, f) ==
    /\ ~(req[h].op = "admin" /\ a = req[h].admin /\ ~f.active)
    /\ Super(h) \/ f.teams = {}

TokensOf(admins) == {k \in Known(token) : token[k].admin \in admins}

WriteAdmin(h) ==
    /\ Acts(h, "newadmin") \/ Acts(h, "admin")
    /\ LET a == req[h].x
           f == req[h].change
           insert == MayChange(h, a, f) /\ req[h].op = "newadmin" /\ a \notin Known(account)
           update == MayChange(h, a, f) /\ req[h].op = "admin"
       IN  /\ update => ~Locked(a)
           /\ account' = IF insert THEN [account EXCEPT ![a] = NewAccount(h, f)]
                         ELSE IF update
                         THEN [account EXCEPT ![a] = Changed(account[a], f, Super(h))]
                         ELSE account
           /\ lapsed' = IF update /\ f.password THEN lapsed \cup TokensOf({a}) ELSE lapsed
    /\ Done(h)
    /\ UNCHANGED <<role, team, record, token, failures, raced, begun, crashes, running, missed>>

-----------------------------------------------------------------------------
(* Teams and what belongs to them.                                         *)

\* Mutant: only the sessions are counted.
LiveOfSessions(t, records) ==
    {r \in (records \ Retros) \cap Known(record) : record[r].team = t /\ record[r].live}

WriteTeam(h) ==
    /\ Acts(h, "newteam") \/ Acts(h, "team")
    /\ LET t == req[h].x
           fits == (req[h].op = "newteam") = (team[t] = None)
       IN  team' = IF fits THEN [team EXCEPT ![t] = req[h].change] ELSE team
    /\ Done(h)
    /\ UNCHANGED <<account, role, record, token, failures, history>>

LiveOf(t, records) == {r \in records \cap Known(record) : record[r].team = t /\ record[r].live}

FindTeam(h) ==
    /\ Acts(h, "rmteam")
    /\ IF req[h].x \in Known(team) \ {Default} THEN Goto(h, "sessions") ELSE Done(h)
    /\ UNCHANGED <<stores, history>>

CountSessions(h) ==
    /\ At(h, "sessions")
    /\ IF LiveOf(req[h].x, Records \ Retros) = {} THEN Goto(h, "retros") ELSE Done(h)
    /\ UNCHANGED <<stores, history>>

CountRetros(h) ==
    /\ At(h, "retros")
    /\ IF LiveOf(req[h].x, Retros) = {} THEN Goto(h, "bump") ELSE Done(h)
    /\ UNCHANGED <<stores, history>>

\* The foreign keys: what belonged to the team belongs to none.
Detached(t) == [r \in Records |-> IF r \in Known(record) /\ record[r].team = t
                                  THEN [record[r] EXCEPT !.team = None] ELSE record[r]]

\* The update of its administrators, whose rows stay locked until the commit.  A
\* second deletion that waits for them raises the versions once more.
RaiseVersions(h) ==
    /\ At(h, "bump")
    /\ Move(h, [req[h] EXCEPT !.pc = "erase",
                              !.linked = {a \in Known(account) : req[h].x \in account[a].teams}])
    /\ UNCHANGED <<stores, history>>

\* The DELETE and the commit: the links go with the team, those of an
\* administrator who was given it since the update too, and that one keeps the
\* tokens.
EraseTeam(h) ==
    /\ At(h, "erase")
    /\ LET t == req[h].x IN
          /\ account' = [a \in Admins |-> IF a \notin Known(account) THEN None
                 ELSE [account[a] EXCEPT
                         !.version = IF a \in req[h].linked THEN @ + 1 ELSE @,
                         !.teams   = @ \ {t}]]
          /\ team' = [team EXCEPT ![t] = None]
          /\ record' = Detached(t)
    /\ lapsed' = lapsed \cup TokensOf(req[h].linked)
    /\ Done(h)
    /\ UNCHANGED <<role, token, failures, raced, begun, crashes, running, missed>>

\* resolve_create_team_id: the teams a record may be given, None for none.
Resolved(h, t) ==
    IF Super(h) THEN {t}
    ELSE IF t # None THEN {t} \cap req[h].teams
    ELSE IF req[h].teams = {} THEN {None}
    ELSE IF Cardinality(req[h].teams) = 1 THEN req[h].teams ELSE {}

InsertRecord(h) ==
    /\ Acts(h, "newrecord")
    /\ LET r == req[h].x
           fits == {t \in Resolved(h, req[h].change) : t = None \/ t \in Known(team)}
       IN  IF r \in Known(record) \/ fits = {} THEN UNCHANGED record
           ELSE \E t \in fits : record' = [record EXCEPT ![r] = [team |-> t, live |-> FALSE]]
    /\ Done(h)
    /\ UNCHANGED <<account, role, team, token, failures, history>>

\* assert_record_access, on the row that is read before the change.
LoadRecord(h) ==
    /\ Acts(h, "record")
    /\ LET t == record[req[h].x].team IN
       IF Super(h) \/ t = None \/ t \in req[h].teams THEN Goto(h, "write") ELSE Done(h)
    /\ UNCHANGED <<stores, history>>

\* Whether a deletion of its team has already counted its kind.
Counted(r) ==
    \E g \in Handlers : /\ req[g].x = record[r].team
                        /\ At(g, "bump") \/ At(g, "erase") \/ (r \notin Retros /\ At(g, "retros"))

\* The row of r says from now on whether it is live.
Mark(r, live) ==
    /\ record' = [record EXCEPT ![r].live = live]
    /\ missed' = IF ~live THEN missed \ {r} ELSE IF Counted(r) THEN missed \cup {r} ELSE missed

\* A retrospective is started and finished in its row, a session in Redis.
SetLive(h) ==
    /\ At(h, "write") /\ Done(h)
    /\ LET r == req[h].x IN
       IF r \in Retros THEN Mark(r, req[h].change) /\ UNCHANGED running
       ELSE /\ running' = IF req[h].change THEN running \cup {r} ELSE running \ {r}
            /\ UNCHANGED <<record, missed>>
    /\ UNCHANGED <<account, role, team, token, failures, lapsed, raced, begun, crashes>>

\* sync_session, which the background worker runs.
SyncSession(r) ==
    /\ r \in Known(record) \ Retros /\ record[r].live # (r \in running)
    /\ Mark(r, r \in running)
    /\ UNCHANGED <<account, role, team, token, failures, req, lapsed, raced, begun, crashes,
                   running>>

Authenticate(h) == ReadToken(h) \/ ReadAccount(h) \/ DropToken(h)

Act(h) ==
    \/ LogOut(h) \/ WriteRole(h) \/ WriteAdmin(h) \/ WriteTeam(h)
    \/ FindTeam(h) \/ CountSessions(h) \/ CountRetros(h) \/ RaiseVersions(h) \/ EraseTeam(h)
    \/ InsertRecord(h) \/ LoadRecord(h) \/ SetLive(h)

Step(h) == Login(h) \/ Authenticate(h) \/ Act(h)

-----------------------------------------------------------------------------
(* Time and crashes.                                                       *)

ExpireWindow(a) ==
    /\ failures[a].ttl
    /\ failures' = [failures EXCEPT ![a] = Zero]
    /\ UNCHANGED <<account, role, team, record, token, req, history>>

\* That a token has expired shows when it is used: one that no request is about
\* to read waits for the next.
ExpireToken(k) ==
    /\ k \in Known(token) /\ \E h \in Handlers : At(h, "token") /\ req[h].key = k
    /\ token' = [token EXCEPT ![k] = None]
    /\ lapsed' = lapsed \ {k}
    /\ UNCHANGED <<account, role, team, record, failures, req, raced, begun, crashes,
                   running, missed>>

\* ensure_access_defaults when the service starts again: the system roles get
\* their permissions, and a team is made if there is none.
Restart ==
    /\ crashes < MaxCrashes /\ \E h \in Handlers : req[h] # Idle
    /\ crashes' = crashes + 1
    /\ req' = [h \in Handlers |-> Idle]
    /\ role' = [r \in Roles |-> IF r \in SystemRoles THEN TRUE ELSE role[r]]
    /\ team' = IF Known(team) = {} THEN [team EXCEPT ![Default] = TRUE] ELSE team
    /\ UNCHANGED <<account, record, token, failures, lapsed, raced, begun, running, missed>>

Next ==
    \/ \E h \in Handlers : Arrive(h) \/ Step(h)
    \/ \E r \in Records : SyncSession(r)
    \/ \E a \in Admins : ExpireWindow(a)
    \/ \E k \in Tokens : ExpireToken(k)
    \/ Restart

Spec == Init /\ [][Next]_vars

-----------------------------------------------------------------------------
(* Properties.                                                             *)

\* Once a new password, or the deletion of a team, has been confirmed, no request
\* that is sent with a token from before gets past authentication, whatever is
\* being worked on when it is confirmed.  The deletion ends the tokens of those who
\* had the team when it raised their versions.
OldTokensEnd ==
    \A h \in Handlers : req[h].late => req[h].pc \in {"token", "account", "drop"}

\* As long as requests come one at a time, an administrator remains who can
\* sign in: nobody deactivates the last one.  Two that deactivate each other at
\* the same time both succeed.
SomebodyRemains == ~raced => \E a \in Admins : Active(a)

\* A counter of failed logins ends: whoever began it is about to set its window,
\* or the service has died between the two commands.  A clearing or an expiry in
\* between leaves no counter behind that nobody ends.
LimitLifts ==
    \A a \in Admins : failures[a].count > 0 /\ ~failures[a].ttl =>
        crashes > 0 \/ \E h \in Handlers : At(h, "window") /\ req[h].x = a

\* Whatever else is being worked on, a session or a retrospective whose row is live
\* keeps its team, unless it went live after the deletion had counted its kind: the
\* counts of delete_team lock nothing.  The row of a session that has been started
\* goes live with the sync only.
OnlyMissedDetached ==
    [][ \A r \in Known(record) :
          record[r].live /\ record'[r].team # record[r].team => r \in missed ]_vars
=============================================================================
