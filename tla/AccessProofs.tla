---------------------------- MODULE AccessProofs ----------------------------
(***************************************************************************)
(* Proofs about the administrators of the CMS (Access), for any number of  *)
(* accounts, roles, teams, tokens and requests that are worked on at once: *)
(* that old tokens end, that the limit of failed logins lifts, that only a *)
(* row that went live after it could be counted loses its team, and, while *)
(* requests come one at a time, that somebody can sign in.                 *)
(***************************************************************************)
EXTENDS Access, TLAPS

\* What a request may hold.
Things  == Admins \cup Roles \cup Teams \cup Records \cup {None}
Changes == Forms \cup BOOLEAN \cup Nat \cup Teams \cup {None}
LoginStages == {"limit", "password", "principal", "clear", "issue", "failed", "window"}
Stages == LoginStages \cup {"idle", "token", "account", "drop", "act", "sessions", "retros",
                            "bump", "erase", "write"}
Ops == {"none", "login", "logout", "newrole", "role", "newadmin", "admin", "newteam", "team",
        "rmteam", "newrecord", "record"}
Requests ==
    [pc : Stages, op : Ops, key : Tokens \cup {None}, x : Things, change : Changes,
     admin : Admins \cup {None}, version : Nat, teams : SUBSET Teams,
     linked : SUBSET Admins, late : BOOLEAN]

TypeOK ==
    /\ account \in [Admins -> Accounts \cup {None}]
    /\ role \in [Roles -> BOOLEAN \cup {None}]
    /\ team \in [Teams -> BOOLEAN \cup {None}]
    /\ record \in [Records -> Owned \cup {None}]
    /\ token \in [Tokens -> Issued \cup {None}]
    /\ failures \in [Admins -> [count : Nat, ttl : BOOLEAN]]
    /\ req \in [Handlers -> Requests]
    /\ lapsed \subseteq Tokens /\ raced \in BOOLEAN /\ begun \in Nat /\ crashes \in Nat

\* A token belongs to an account and is no newer than it; one that a confirmed
\* change ends is older.
TokensFit ==
    /\ \A k \in Known(token) : /\ token[k].admin \in Known(account)
                               /\ token[k].version <= account[token[k].admin].version
    /\ \A k \in lapsed : /\ k \in Known(token)
                         /\ token[k].version < account[token[k].admin].version

\* What a request has learned still holds when the request goes on: accounts and
\* records stay known, and versions only grow.
Fit(r, acc, rec, tok, lap) ==
    /\ r.pc \in LoginStages => r.x \in Known(acc)
    /\ r.pc \in {"clear", "issue"} => r.version <= acc[r.x].version
    /\ r.op = "admin" => r.x \in Known(acc) /\ r.change \in Forms
    /\ r.op = "newadmin" => r.x \in Admins /\ r.change \in Forms
    /\ r.op \in {"newrole", "role", "newteam", "team", "record"} => r.change \in BOOLEAN
    /\ r.op = "record" => r.x \in Known(rec)
    /\ r.pc = "write" => r.op = "record"
    /\ r.pc = "erase" => r.linked \subseteq Known(acc)
    /\ r.pc \in {"account", "act"} => r.admin \in Known(acc)
    /\ r.late => r.pc \in {"token", "account", "drop"}
    /\ r.late /\ r.pc = "token" => r.key \notin Known(tok) \/ r.key \in lap
    /\ r.late /\ r.pc = "account" => r.version < acc[r.admin].version

RequestsFit == \A h \in Handlers : Fit(req[h], account, record, token, lapsed)

\* While requests come one at a time, whoever has signed in is still active.
Checked(r) == r.pc = "act" => Active(r.admin)

Alone ==
    ~raced =>
      /\ \A g, h \in Handlers : req[g] # Idle /\ req[h] # Idle => g = h
      /\ \A h \in Handlers : Checked(req[h])
      /\ \E a \in Admins : Active(a)

IInv == TypeOK /\ TokensFit /\ RequestsFit /\ Alone /\ LimitLifts

-----------------------------------------------------------------------------
(* Lemmas about one request.                                               *)

LEMMA IdleFits ==
    /\ Idle \in Requests /\ Idle.pc = "idle"
    /\ \A acc, rec, tok, lap : Fit(Idle, acc, rec, tok, lap)
<1>1. Idle \in Requests
      BY DEF Idle, Requests, Stages, Ops, Things, Changes
<1>2. Idle.pc = "idle" /\ Idle.op = "none" /\ Idle.late = FALSE
      BY DEF Idle
<1>3. ASSUME NEW acc, NEW rec, NEW tok, NEW lap
      PROVE  Fit(Idle, acc, rec, tok, lap)
      BY <1>2 DEF Fit, LoginStages
<1>4. QED
      BY <1>1, <1>2, <1>3

\* The stores change in no way that a request could be surprised by.
Grows ==
    /\ Known(account) \subseteq Known(account')
    /\ \A a \in Known(account) : account[a].version <= account'[a].version
    /\ Known(record) \subseteq Known(record')
    /\ \A k \in Known(token') \ Known(token) : \A h \in Handlers : req[h].key # k
    /\ \A k \in lapsed : k \in lapsed' \/ k \notin Known(token')

\* The other requests stay where they are.
Others(h) == \A g \in Handlers \ {h} : req'[g] = req[g]

LEMMA FitKept ==
    ASSUME IInv, TypeOK', Grows, NEW h \in Handlers, Others(h),
           Fit(req'[h], account', record', token', lapsed')
    PROVE  RequestsFit'
<1> SUFFICES ASSUME NEW g \in Handlers, g # h
             PROVE  Fit(req[g], account', record', token', lapsed')
    BY DEF RequestsFit, Others
<1>1. Fit(req[g], account, record, token, lapsed)
      BY DEF IInv, RequestsFit
<1>2. /\ req[g] \in Requests
      /\ \A a \in Known(account) : a \in Admins
      /\ account \in [Admins -> Accounts \cup {None}]
      /\ account' \in [Admins -> Accounts \cup {None}]
      BY DEF IInv, TypeOK, Known
<1>3. \A a \in Known(account) : account[a].version \in Nat /\ account'[a].version \in Nat
      BY <1>2 DEF Known, Grows, Accounts
<1>4. req[g].version \in Nat
      BY <1>2 DEF Requests
<1>5. req[g].late /\ req[g].pc = "token" => req[g].key \notin Known(token') \/ req[g].key \in lapsed'
      BY <1>1 DEF Fit, Grows
<1>6. req[g].pc \in {"clear", "issue"} => req[g].version <= account'[req[g].x].version
      BY <1>1, <1>3, <1>4 DEF Fit, Grows, LoginStages
<1>7. req[g].late /\ req[g].pc = "account" => req[g].version < account'[req[g].admin].version
      BY <1>1, <1>3, <1>4 DEF Fit, Grows
<1>8. QED
      BY <1>1, <1>5, <1>6, <1>7 DEF Fit, Grows

\* A request that has come to its end leaves everybody idle.
LEMMA AloneAtEnd ==
    ASSUME IInv, NEW h \in Handlers, req[h] # Idle, req' = [req EXCEPT ![h] = Idle],
           raced' = raced, ~raced => \E a \in Admins : Active(a)'
    PROVE  Alone'
<1> SUFFICES ASSUME ~raced
             PROVE  /\ \A g \in Handlers : req'[g] = Idle
                    /\ \E a \in Admins : Active(a)'
    BY IdleFits DEF Alone, Checked
<1>1. \A g \in Handlers : g # h => req[g] = Idle
      BY DEF IInv, Alone
<1>2. QED
      BY <1>1 DEF IInv, TypeOK

LEMMA LimitKept ==
    ASSUME LimitLifts, NEW h \in Handlers, Others(h), ~At(h, "window"),
           UNCHANGED <<failures, crashes>>
    PROVE  LimitLifts'
BY DEF LimitLifts, Others, At

\* A step of a request that only reads what the invariant is about.
Quiet(h) ==
    /\ req[h] # Idle /\ Others(h)
    /\ req' \in [Handlers -> Requests]
    /\ UNCHANGED <<account, record, token, lapsed, raced, begun, crashes>>
    /\ role' \in [Roles -> BOOLEAN \cup {None}]
    /\ team' \in [Teams -> BOOLEAN \cup {None}]
    /\ failures' \in [Admins -> [count : Nat, ttl : BOOLEAN]]
    /\ Fit(req'[h], account, record, token, lapsed)
    /\ raced \/ Checked(req'[h])

LEMMA QuietKeeps ==
    ASSUME IInv, NEW h \in Handlers, Quiet(h)
    PROVE  TypeOK' /\ TokensFit' /\ RequestsFit' /\ Alone'
<1>1. TypeOK'
      BY DEF IInv, TypeOK, Quiet
<1>2. TokensFit'
      BY DEF IInv, TokensFit, Quiet, Known
<1>3. RequestsFit'
  <2>1. Grows
    <3>1. \A a \in Known(account) : account[a].version \in Nat
          BY DEF IInv, TypeOK, Known, Accounts
    <3>2. QED
          BY <3>1 DEF Grows, Quiet
  <2>2. QED
        BY <1>1, <2>1, FitKept DEF Quiet
<1>4. Alone'
  <2> SUFFICES ASSUME ~raced
               PROVE  /\ \A f, g \in Handlers : req'[f] # Idle /\ req'[g] # Idle => f = g
                      /\ \A g \in Handlers : Checked(req[g])'
                      /\ \E a \in Admins : Active(a)'
      BY DEF Alone, Quiet
  <2>1. \A g \in Handlers : g # h => req'[g] = Idle
        BY DEF IInv, Alone, Quiet, Others
  <2>2. Checked(req'[h])
        BY DEF Quiet
  <2>3. \A g \in Handlers : Checked(req[g])'
        BY <2>1, <2>2, IdleFits DEF Checked, Quiet, Active, Known
  <2>4. \E a \in Admins : Active(a)'
        BY DEF IInv, Alone, Active, Known, Quiet
  <2>5. QED
        BY <2>1, <2>3, <2>4
<1>5. QED
      BY <1>1, <1>2, <1>3, <1>4
-----------------------------------------------------------------------------
(* Requests that arrive.                                                   *)

LEMMA BeginKeeps ==
    ASSUME IInv, NEW h \in Handlers, NEW r \in Requests, r.pc \in {"limit", "token"},
           Fit(r, account, record, token, lapsed), Begin(h, r)
    PROVE  IInv'
<1>1. TypeOK'
  <2>1. raced' \in BOOLEAN
        BY DEF Begin
  <2>2. req' \in [Handlers -> Requests] /\ begun' \in Nat
        BY DEF IInv, TypeOK, Begin
  <2>3. QED
        BY <2>1, <2>2 DEF IInv, TypeOK, Begin, stores
<1>2. UNCHANGED <<account, role, team, record, token, failures, lapsed, crashes>>
      BY DEF Begin, stores
<1>3. Others(h) /\ req'[h] = r /\ req[h] = Idle
      BY DEF IInv, TypeOK, Begin, Others
<1>4. TokensFit'
      BY <1>2 DEF IInv, TokensFit, Known
<1>5. Grows
  <2>1. \A a \in Known(account) : account[a].version \in Nat
        BY DEF IInv, TypeOK, Known, Accounts
  <2>2. QED
        BY <1>2, <2>1 DEF Grows
<1>6. RequestsFit'
      BY <1>1, <1>2, <1>3, <1>5, FitKept
<1>7. Alone'
  <2> SUFFICES ASSUME ~raced'
               PROVE  /\ \A f, g \in Handlers : req'[f] # Idle /\ req'[g] # Idle => f = g
                      /\ \A g \in Handlers : Checked(req[g])'
                      /\ \E a \in Admins : Active(a)'
      BY DEF Alone
  <2>1. ~raced /\ \A g \in Handlers : req[g] = Idle
        BY DEF Begin
  <2>2. \A g \in Handlers : g # h => req'[g] = Idle
        BY <1>3, <2>1 DEF Others
  <2>3. \A g \in Handlers : Checked(req[g])'
        BY <1>3, <2>2, IdleFits DEF Checked
  <2>4. \E a \in Admins : Active(a)'
        BY <1>2, <2>1 DEF IInv, Alone, Active, Known
  <2>5. QED
        BY <2>2, <2>3, <2>4
<1>8. LimitLifts'
      BY <1>2, <1>3, LimitKept, IdleFits DEF IInv, At
<1>9. QED
      BY <1>1, <1>4, <1>6, <1>7, <1>8 DEF IInv

\* What a request brings with it fits.
Arriving(h) ==
    \E r \in Requests : /\ r.pc \in {"limit", "token"}
                        /\ Fit(r, account, record, token, lapsed)
                        /\ Begin(h, r)

LEMMA SignInArrives == ASSUME IInv, NEW h \in Handlers, SignIn(h) PROVE Arriving(h)
<1>0. PICK a \in Known(account) : \E p \in {account[a].password, Wrong} :
          Begin(h, [Idle EXCEPT !.pc = "limit", !.op = "login", !.x = a, !.change = p])
      BY DEF SignIn
<1>1. PICK p \in {account[a].password, Wrong} :
          Begin(h, [Idle EXCEPT !.pc = "limit", !.op = "login", !.x = a, !.change = p])
      BY <1>0
<1> DEFINE r == [Idle EXCEPT !.pc = "limit", !.op = "login", !.x = a, !.change = p]
<1>2. a \in Admins /\ p \in Nat
      BY AccessAssumption DEF IInv, TypeOK, Known, Accounts, Wrong
<1>3. r \in Requests
      BY <1>2 DEF Idle, Requests, Things, Changes, Stages, LoginStages, Ops
<1>4. Fit(r, account, record, token, lapsed)
      BY DEF Idle, Fit, LoginStages
<1>5. r.pc = "limit"
      BY DEF Idle
<1>6. QED
      BY <1>1, <1>3, <1>4, <1>5 DEF Arriving

LEMMA AskArrives ==
    ASSUME IInv, NEW h \in Handlers, NEW op \in Ops, NEW x \in Things,
           NEW change \in Changes, Ask(h, op, x, change),
           op = "admin" => x \in Known(account) /\ change \in Forms,
           op = "newadmin" => x \in Admins /\ change \in Forms,
           op \in {"newrole", "role", "newteam", "team", "record"} => change \in BOOLEAN,
           op = "record" => x \in Known(record)
    PROVE  Arriving(h)
<1>1. PICK k \in Known(token) :
          Begin(h, [Idle EXCEPT !.pc = "token", !.op = op, !.key = k, !.x = x,
                                !.change = change, !.late = (k \in lapsed)])
      BY DEF Ask
<1> DEFINE r == [Idle EXCEPT !.pc = "token", !.op = op, !.key = k, !.x = x,
                             !.change = change, !.late = (k \in lapsed)]
<1>2. k \in Tokens /\ (k \in lapsed) \in BOOLEAN
      BY DEF IInv, TypeOK, Known
<1>3. r \in Requests
      BY <1>2 DEF Idle, Requests, Stages
<1>4. /\ r.pc = "token" /\ r.op = op /\ r.key = k /\ r.x = x /\ r.change = change
      /\ r.late => k \in lapsed
      BY DEF Idle
<1>5. Fit(r, account, record, token, lapsed)
      BY <1>4 DEF Fit, LoginStages
<1>6. QED
      BY <1>1, <1>3, <1>4, <1>5 DEF Arriving

LEMMA EachArrives == ASSUME IInv, NEW h \in Handlers, Arrive(h) PROVE Arriving(h)
<1> USE DEF Things, Changes, Ops
<1>1. CASE SignIn(h)
      BY <1>1, SignInArrives
<1>2. CASE SignOut(h)
      BY <1>2, AskArrives DEF SignOut
<1>3. CASE CreateRole(h)
      BY <1>3, AskArrives DEF CreateRole
<1>4. CASE UpdateRole(h)
  <2>1. PICK r \in Known(role) : Ask(h, "role", r, ~role[r])
        BY <1>4 DEF UpdateRole
  <2>2. r \in Roles /\ (~role[r]) \in BOOLEAN
        BY DEF IInv, TypeOK, Known
  <2>3. QED
        BY <2>1, <2>2, AskArrives
<1>5. CASE CreateAdmin(h)
      BY <1>5, AskArrives DEF CreateAdmin
<1>6. CASE UpdateAdmin(h)
  <2>1. PICK a \in Known(account), f \in Forms : Ask(h, "admin", a, f)
        BY <1>6 DEF UpdateAdmin
  <2>2. a \in Admins
        BY DEF IInv, TypeOK, Known
  <2>3. QED
        BY <2>1, <2>2, AskArrives
<1>7. CASE CreateTeam(h)
      BY <1>7, AskArrives DEF CreateTeam
<1>8. CASE UpdateTeam(h)
  <2>1. PICK t \in Known(team) : Ask(h, "team", t, ~team[t])
        BY <1>8 DEF UpdateTeam
  <2>2. t \in Teams /\ (~team[t]) \in BOOLEAN
        BY DEF IInv, TypeOK, Known
  <2>3. QED
        BY <2>1, <2>2, AskArrives
<1>9. CASE DeleteTeam(h)
  <2>1. PICK t \in Known(team) : Ask(h, "rmteam", t, None)
        BY <1>9 DEF DeleteTeam
  <2>2. t \in Teams
        BY DEF IInv, TypeOK, Known
  <2>3. QED
        BY <2>1, <2>2, AskArrives
<1>10. CASE CreateRecord(h)
  <2>1. PICK r \in Records \ Known(record), t \in Known(team) \cup {None} :
            Ask(h, "newrecord", r, t)
        BY <1>10 DEF CreateRecord
  <2>2. t \in Teams \cup {None}
        BY DEF IInv, TypeOK, Known
  <2>3. QED
        BY <2>1, <2>2, AskArrives
<1>11. CASE ManageRecord(h)
  <2>1. PICK r \in Known(record) :
            Ask(h, "record", r, IF r \in Retros THEN ~record[r].live ELSE r \notin running)
        BY <1>11 DEF ManageRecord
  <2>2. /\ r \in Records
        /\ (IF r \in Retros THEN ~record[r].live ELSE r \notin running) \in BOOLEAN
        BY DEF IInv, TypeOK, Known
  <2>3. QED
        BY <2>1, <2>2, AskArrives
<1>12. QED
      BY <1>1, <1>2, <1>3, <1>4, <1>5, <1>6, <1>7, <1>8, <1>9, <1>10, <1>11 DEF Arrive

LEMMA ArriveKeeps == ASSUME IInv, NEW h \in Handlers, Arrive(h) PROVE IInv'
BY EachArrives, BeginKeeps DEF Arriving

-----------------------------------------------------------------------------
(* Steps that only read, or write what the invariant is hardly about.      *)

LEMMA MoveIsQuiet ==
    ASSUME IInv, NEW h \in Handlers, NEW r \in Requests, req[h].pc # "idle", Move(h, r),
           UNCHANGED <<account, record, token, history>>,
           role' \in [Roles -> BOOLEAN \cup {None}], team' \in [Teams -> BOOLEAN \cup {None}],
           failures' \in [Admins -> [count : Nat, ttl : BOOLEAN]],
           Fit(r, account, record, token, lapsed), raced \/ Checked(r)
    PROVE  /\ TypeOK' /\ TokensFit' /\ RequestsFit' /\ Alone'
           /\ Others(h) /\ req'[h] = r
<1>1. Others(h) /\ req'[h] = r /\ req' \in [Handlers -> Requests]
      BY DEF IInv, TypeOK, Move, Others
<1>2. Quiet(h)
      BY <1>1, IdleFits DEF Quiet, history
<1>3. QED
      BY <1>1, <1>2, QuietKeeps

LEMMA ReadingKeeps ==
    ASSUME IInv, NEW h \in Handlers, NEW r \in Requests, req[h].pc \notin {"idle", "window"},
           Move(h, r), UNCHANGED <<stores, history>>,
           Fit(r, account, record, token, lapsed), raced \/ Checked(r)
    PROVE  IInv'
<1>1. /\ role' \in [Roles -> BOOLEAN \cup {None}]
      /\ team' \in [Teams -> BOOLEAN \cup {None}]
      /\ failures' \in [Admins -> [count : Nat, ttl : BOOLEAN]]
      /\ UNCHANGED <<account, record, token, failures, crashes>>
      BY DEF IInv, TypeOK, stores, history
<1>2. TypeOK' /\ TokensFit' /\ RequestsFit' /\ Alone' /\ Others(h)
      BY <1>1, MoveIsQuiet
<1>3. LimitLifts'
      BY <1>1, <1>2, LimitKept DEF IInv, At
<1>4. QED
      BY <1>2, <1>3 DEF IInv

\* To end fits always.
LEMMA EndingKeeps ==
    ASSUME IInv, NEW h \in Handlers, req[h].pc \notin {"idle", "window"},
           Done(h), UNCHANGED <<stores, history>>
    PROVE  IInv'
BY IdleFits, ReadingKeeps DEF Done, Checked

LEMMA GotoFields ==
    ASSUME NEW r \in Requests, NEW stage \in Stages
    PROVE  LET q == [r EXCEPT !.pc = stage] IN
           /\ q \in Requests /\ q.pc = stage /\ q.op = r.op /\ q.key = r.key /\ q.x = r.x
           /\ q.change = r.change /\ q.admin = r.admin /\ q.version = r.version
           /\ q.late = r.late
BY DEF Requests

\* A request that goes on to a stage at which nothing else is asked of it.
LEMMA GoingOnKeeps ==
    ASSUME IInv, NEW h \in Handlers, NEW stage \in Stages \ {"act", "account", "token", "clear", "issue"},
           req[h].pc \notin {"idle", "window"}, Goto(h, stage), UNCHANGED <<stores, history>>,
           stage \in LoginStages => req[h].pc \in LoginStages,
           stage = "write" => req[h].op = "record",
           req[h].late => stage = "drop",
           stage # "erase"
    PROVE  IInv'
<1> DEFINE r == [req[h] EXCEPT !.pc = stage]
<1>1. req[h] \in Requests /\ Fit(req[h], account, record, token, lapsed)
      BY DEF IInv, TypeOK, RequestsFit
<1>2. /\ r \in Requests /\ r.pc = stage /\ r.op = req[h].op /\ r.x = req[h].x
      /\ r.change = req[h].change /\ r.late = req[h].late
      BY <1>1, GotoFields
<1>3. Fit(r, account, record, token, lapsed)
      BY <1>1, <1>2 DEF Fit
<1>4. raced \/ Checked(r)
      BY <1>2 DEF Checked
<1>5. Move(h, r)
      BY DEF Goto
<1> HIDE DEF r
<1>6. QED
      BY <1>2, <1>3, <1>4, <1>5, ReadingKeeps

LEMMA CheckLimitKeeps == ASSUME IInv, NEW h \in Handlers, CheckLimit(h) PROVE IInv'
<1>1. ~req[h].late
      BY DEF IInv, RequestsFit, Fit, CheckLimit, At
<1>2. QED
      BY <1>1, EndingKeeps, GoingOnKeeps DEF CheckLimit, At, LoginStages, Stages

LEMMA CheckPasswordKeeps == ASSUME IInv, NEW h \in Handlers, CheckPassword(h) PROVE IInv'
<1>1. ~req[h].late
      BY DEF IInv, RequestsFit, Fit, CheckPassword, At
<1>2. QED
      BY <1>1, GoingOnKeeps DEF CheckPassword, At, LoginStages, Stages

LEMMA ReadPrincipalKeeps == ASSUME IInv, NEW h \in Handlers, ReadPrincipal(h) PROVE IInv'
<1> DEFINE r == [req[h] EXCEPT !.pc = "clear", !.version = account[req[h].x].version]
<1>1. /\ req[h] \in Requests /\ req[h].pc = "principal" /\ ~req[h].late
      /\ Fit(req[h], account, record, token, lapsed)
      BY DEF IInv, TypeOK, RequestsFit, Fit, ReadPrincipal, At
<1>2. CASE Active(req[h].x)
  <2>1. req[h].x \in Known(account) /\ account[req[h].x].version \in Nat
        BY <1>2 DEF IInv, TypeOK, Active, Known, Accounts
  <2>2. /\ r \in Requests /\ r.pc = "clear" /\ r.op = req[h].op /\ r.x = req[h].x
        /\ r.change = req[h].change /\ r.late = req[h].late
        /\ r.version = account[req[h].x].version
        BY <1>1, <2>1 DEF Requests, Stages, LoginStages
  <2>3. Fit(r, account, record, token, lapsed)
        BY <1>1, <2>1, <2>2 DEF Fit
  <2>4. Checked(r)
        BY <2>2 DEF Checked
  <2>5. Move(h, r) /\ UNCHANGED <<stores, history>>
        BY <1>2 DEF ReadPrincipal
  <2> HIDE DEF r
  <2>6. QED
        BY <1>1, <2>2, <2>3, <2>4, <2>5, ReadingKeeps
<1>3. CASE ~Active(req[h].x)
      BY <1>1, <1>3, GoingOnKeeps DEF ReadPrincipal, LoginStages, Stages
<1>4. QED
      BY <1>2, <1>3

\* Whoever clears a counter of failures leaves none behind.
LEMMA ClearFailuresKeeps == ASSUME IInv, NEW h \in Handlers, ClearFailures(h) PROVE IInv'
<1> DEFINE r == [req[h] EXCEPT !.pc = "issue"]
<1>1. /\ req[h] \in Requests /\ req[h].pc = "clear" /\ ~req[h].late
      /\ Fit(req[h], account, record, token, lapsed)
      BY DEF IInv, TypeOK, RequestsFit, Fit, ClearFailures, At
<1>2. /\ r \in Requests /\ r.pc = "issue" /\ r.op = req[h].op /\ r.x = req[h].x
      /\ r.change = req[h].change /\ r.late = req[h].late /\ r.version = req[h].version
      BY <1>1, GotoFields DEF Stages, LoginStages
<1>3. Fit(r, account, record, token, lapsed) /\ Checked(r)
      BY <1>1, <1>2 DEF Fit, Checked, LoginStages
<1>4. Move(h, r)
      BY DEF ClearFailures, Goto
<1>5. failures' \in [Admins -> [count : Nat, ttl : BOOLEAN]]
      BY DEF IInv, TypeOK, ClearFailures, Zero
<1> HIDE DEF r
<1>6. TypeOK' /\ TokensFit' /\ RequestsFit' /\ Alone' /\ Others(h)
  <2>1. UNCHANGED <<account, role, team, record, token, history>>
        BY DEF ClearFailures
  <2>2. QED
        BY <1>1, <1>2, <1>3, <1>4, <1>5, <2>1, MoveIsQuiet DEF IInv, TypeOK
<1>7. LimitLifts'
  <2>1. /\ failures \in [Admins -> [count : Nat, ttl : BOOLEAN]]
        /\ failures' = [failures EXCEPT ![req[h].x] = Zero] /\ crashes' = crashes
        BY DEF IInv, TypeOK, ClearFailures, history
  <2> SUFFICES ASSUME NEW b \in Admins, failures'[b].count > 0, ~failures'[b].ttl,
                      ~(crashes' > 0)
               PROVE  \E g \in Handlers : At(g, "window")' /\ req'[g].x = b
        BY DEF LimitLifts
  <2>2. b # req[h].x
        BY <2>1 DEF Zero
  <2>3. failures'[b] = failures[b]
        BY <2>1, <2>2
  <2>4. PICK g \in Handlers : At(g, "window") /\ req[g].x = b
        BY <2>1, <2>3 DEF IInv, LimitLifts
  <2>5. g # h
        BY <1>1, <2>4 DEF At
  <2>6. req'[g] = req[g]
        BY <1>6, <2>5 DEF Others
  <2>7. QED
        BY <2>4, <2>6 DEF At
<1>8. QED
      BY <1>6, <1>7 DEF IInv

\* Whoever counts the first failure is about to set the window.
LEMMA CountFailureKeeps == ASSUME IInv, NEW h \in Handlers, CountFailure(h) PROVE IInv'
<1> DEFINE a == req[h].x
           r == IF failures[a].count = 0 THEN [req[h] EXCEPT !.pc = "window"] ELSE Idle
<1>1. /\ req[h] \in Requests /\ req[h].pc = "failed" /\ ~req[h].late /\ a \in Known(account)
      /\ Fit(req[h], account, record, token, lapsed)
      BY DEF IInv, TypeOK, RequestsFit, Fit, CountFailure, At, LoginStages
<1>2. a \in Admins /\ failures[a] \in [count : Nat, ttl : BOOLEAN]
      BY <1>1 DEF IInv, TypeOK, Known
<1>3. LET q == [req[h] EXCEPT !.pc = "window"] IN
      /\ q \in Requests /\ q.pc = "window" /\ q.op = req[h].op /\ q.x = req[h].x
      /\ q.change = req[h].change /\ q.late = req[h].late
      BY <1>1, GotoFields DEF Stages, LoginStages
<1>4. r \in Requests /\ Fit(r, account, record, token, lapsed) /\ Checked(r)
      BY <1>1, <1>3, IdleFits DEF Fit, Checked, LoginStages
<1>5. Move(h, r)
      BY <1>2 DEF CountFailure, SetsWindow, Goto, Done
<1>6. /\ failures' \in [Admins -> [count : Nat, ttl : BOOLEAN]]
      /\ failures'[a].ttl = failures[a].ttl
      /\ \A b \in Admins : b # a => failures'[b] = failures[b]
      BY <1>2 DEF IInv, TypeOK, CountFailure
<1>7. failures[a].count = 0 => r.pc = "window" /\ r.x = a
      BY <1>3
<1> HIDE DEF r
<1>8. TypeOK' /\ TokensFit' /\ RequestsFit' /\ Alone' /\ Others(h) /\ req'[h] = r
  <2>1. UNCHANGED <<account, role, team, record, token, history>>
        BY DEF CountFailure
  <2>2. QED
        BY <1>1, <1>4, <1>5, <1>6, <2>1, MoveIsQuiet DEF IInv, TypeOK
<1>9. LimitLifts'
  <2> SUFFICES ASSUME NEW b \in Admins, failures'[b].count > 0, ~failures'[b].ttl
               PROVE  crashes' > 0 \/ \E g \in Handlers : req'[g].pc = "window" /\ req'[g].x = b
      BY DEF LimitLifts, At
  <2>1. crashes' = crashes
        BY DEF CountFailure, history
  <2>2. CASE b = a /\ failures[a].count = 0
        BY <1>7, <1>8, <2>2
  <2>3. CASE b # a \/ failures[a].count > 0
    <3>1. crashes > 0 \/ \E g \in Handlers : req[g].pc = "window" /\ req[g].x = b
          BY <1>2, <1>6, <2>3 DEF IInv, LimitLifts, At
    <3>2. QED
          BY <1>1, <1>8, <2>1, <3>1 DEF Others
  <2>4. QED
        BY <1>2, <2>2, <2>3
<1>10. QED
      BY <1>8, <1>9 DEF IInv

\* A window that is set ends what is counted; another one who is about to set it for
\* another account still is.
LEMMA SetWindowKeeps == ASSUME IInv, NEW h \in Handlers, SetWindow(h) PROVE IInv'
<1> DEFINE a == req[h].x
<1>1. req[h] \in Requests /\ req[h].pc = "window" /\ a \in Known(account)
      BY DEF IInv, TypeOK, RequestsFit, Fit, SetWindow, At, LoginStages
<1>2. a \in Admins /\ failures[a] \in [count : Nat, ttl : BOOLEAN]
      BY <1>1 DEF IInv, TypeOK, Known
<1>3. (failures[a].count > 0) \in BOOLEAN
      OBVIOUS
<1>4. /\ failures' \in [Admins -> [count : Nat, ttl : BOOLEAN]]
      /\ failures'[a].ttl = (failures[a].count > 0) /\ failures'[a].count = failures[a].count
      /\ \A b \in Admins : b # a => failures'[b] = failures[b]
      BY <1>2, <1>3 DEF IInv, TypeOK, SetWindow
<1>5. TypeOK' /\ TokensFit' /\ RequestsFit' /\ Alone' /\ Others(h)
  <2>1. UNCHANGED <<account, role, team, record, token, history>> /\ Move(h, Idle)
        BY DEF SetWindow, Done
  <2>2. QED
        BY <1>1, <1>4, <2>1, IdleFits, MoveIsQuiet DEF IInv, TypeOK, Checked
<1>6. LimitLifts'
      BY <1>1, <1>4, <1>5 DEF IInv, LimitLifts, At, Others, SetWindow, history
<1>7. QED
      BY <1>5, <1>6 DEF IInv

LEMMA ReadTokenKeeps == ASSUME IInv, NEW h \in Handlers, ReadToken(h) PROVE IInv'
<1> DEFINE k == req[h].key
           r == [req[h] EXCEPT !.pc = "account", !.admin = token[k].admin,
                               !.version = token[k].version]
<1>1. /\ req[h] \in Requests /\ req[h].pc = "token"
      /\ Fit(req[h], account, record, token, lapsed)
      BY DEF IInv, TypeOK, RequestsFit, ReadToken, At
<1>2. CASE k \in Known(token)
  <2>1. /\ token[k] \in Issued /\ token[k].admin \in Known(account)
        /\ k \in lapsed => token[k].version < account[token[k].admin].version
        BY <1>2 DEF IInv, TypeOK, TokensFit, Known
  <2>2. /\ r \in Requests /\ r.pc = "account" /\ r.op = req[h].op /\ r.x = req[h].x
        /\ r.change = req[h].change /\ r.late = req[h].late
        /\ r.admin = token[k].admin /\ r.version = token[k].version
        BY <1>1, <2>1 DEF Requests, Stages, Issued
  <2>3. Fit(r, account, record, token, lapsed) /\ Checked(r)
        BY <1>1, <1>2, <2>1, <2>2 DEF Fit, Checked, LoginStages
  <2>4. Move(h, r) /\ UNCHANGED <<stores, history>>
        BY <1>2 DEF ReadToken
  <2> HIDE DEF r
  <2>5. QED
        BY <1>1, <2>2, <2>3, <2>4, ReadingKeeps
<1>3. CASE k \notin Known(token)
      BY <1>1, <1>3, EndingKeeps DEF ReadToken
<1>4. QED
      BY <1>2, <1>3

\* A request with an old token has a version that is not current.
LEMMA ReadAccountKeeps == ASSUME IInv, NEW h \in Handlers, ReadAccount(h) PROVE IInv'
<1> DEFINE a == req[h].admin
           r == [req[h] EXCEPT !.pc = "act", !.teams = TeamsOf(a)]
<1>1. /\ req[h] \in Requests /\ req[h].pc = "account"
      /\ Fit(req[h], account, record, token, lapsed)
      BY DEF IInv, TypeOK, RequestsFit, ReadAccount, At
<1>2. CASE ~Current(h)
      BY <1>1, <1>2, GoingOnKeeps DEF ReadAccount, LoginStages, Stages
<1>3. CASE Current(h) /\ ~Permitted(h, MayManage(a))
      BY <1>1, <1>3, EndingKeeps DEF ReadAccount
<1>4. CASE Current(h) /\ Permitted(h, MayManage(a))
  <2>1. a \in Known(account) /\ account[a] \in Accounts /\ account[a].version = req[h].version
        BY <1>4 DEF Current, Active, IInv, TypeOK, Known
  <2>2. ~req[h].late
        BY <1>1, <2>1 DEF Fit, Accounts
  <2>3. TeamsOf(a) \in SUBSET Teams
        BY <2>1 DEF TeamsOf, Accounts
  <2>4. /\ r \in Requests /\ r.pc = "act" /\ r.op = req[h].op /\ r.x = req[h].x
        /\ r.change = req[h].change /\ r.late = req[h].late /\ r.admin = a
        BY <1>1, <2>3 DEF Requests, Stages
  <2>5. Fit(r, account, record, token, lapsed)
        BY <1>1, <2>1, <2>2, <2>4 DEF Fit, LoginStages
  <2>6. Checked(r)
        BY <1>4, <2>4 DEF Checked, Current
  <2>7. Move(h, r) /\ UNCHANGED <<stores, history>>
        BY <1>4 DEF ReadAccount
  <2> HIDE DEF r
  <2>8. QED
        BY <1>1, <2>4, <2>5, <2>6, <2>7, ReadingKeeps
<1>5. QED
      BY <1>2, <1>3, <1>4

LEMMA WriteRoleKeeps == ASSUME IInv, NEW h \in Handlers, WriteRole(h) PROVE IInv'
<1>1. req[h].change \in BOOLEAN /\ req[h].pc = "act"
      BY DEF IInv, RequestsFit, Fit, WriteRole, Acts, At
<1>2. role' \in [Roles -> BOOLEAN \cup {None}]
      BY <1>1 DEF IInv, TypeOK, WriteRole
<1>3. TypeOK' /\ TokensFit' /\ RequestsFit' /\ Alone' /\ Others(h)
  <2>1. UNCHANGED <<account, team, record, token, failures, history>> /\ Move(h, Idle)
        BY DEF WriteRole, Done
  <2>2. QED
        BY <1>1, <1>2, <2>1, IdleFits, MoveIsQuiet DEF IInv, TypeOK, Checked
<1>4. LimitLifts'
      BY <1>1, <1>3, LimitKept DEF IInv, WriteRole, history, At
<1>5. QED
      BY <1>3, <1>4 DEF IInv

LEMMA WriteTeamKeeps == ASSUME IInv, NEW h \in Handlers, WriteTeam(h) PROVE IInv'
<1>1. req[h].change \in BOOLEAN /\ req[h].pc = "act"
      BY DEF IInv, RequestsFit, Fit, WriteTeam, Acts, At
<1>2. team' \in [Teams -> BOOLEAN \cup {None}]
      BY <1>1 DEF IInv, TypeOK, WriteTeam
<1>3. TypeOK' /\ TokensFit' /\ RequestsFit' /\ Alone' /\ Others(h)
  <2>1. UNCHANGED <<account, role, record, token, failures, history>> /\ Move(h, Idle)
        BY DEF WriteTeam, Done
  <2>2. QED
        BY <1>1, <1>2, <2>1, IdleFits, MoveIsQuiet DEF IInv, TypeOK, Checked
<1>4. LimitLifts'
      BY <1>1, <1>3, LimitKept DEF IInv, WriteTeam, history, At
<1>5. QED
      BY <1>3, <1>4 DEF IInv

LEMMA LookingKeeps ==
    ASSUME IInv, NEW h \in Handlers,
           FindTeam(h) \/ CountSessions(h) \/ CountRetros(h) \/ LoadRecord(h)
    PROVE  IInv'
<1>1. ASSUME req[h].pc \in {"act", "sessions", "retros"} PROVE ~req[h].late
      BY <1>1 DEF IInv, RequestsFit, Fit
<1> USE DEF At, LoginStages, Stages
<1>2. CASE FindTeam(h)
      BY <1>1, <1>2, EndingKeeps, GoingOnKeeps DEF FindTeam, Acts
<1>3. CASE CountSessions(h)
      BY <1>1, <1>3, EndingKeeps, GoingOnKeeps DEF CountSessions
<1>4. CASE CountRetros(h)
      BY <1>1, <1>4, EndingKeeps, GoingOnKeeps DEF CountRetros
<1>5. CASE LoadRecord(h)
      BY <1>1, <1>5, EndingKeeps, GoingOnKeeps DEF LoadRecord, Acts
<1>6. QED
      BY <1>2, <1>3, <1>4, <1>5

LEMMA RaiseVersionsKeeps == ASSUME IInv, NEW h \in Handlers, RaiseVersions(h) PROVE IInv'
<1> DEFINE linked == {a \in Known(account) : req[h].x \in account[a].teams}
           r == [req[h] EXCEPT !.pc = "erase", !.linked = linked]
<1>1. /\ req[h] \in Requests /\ req[h].pc = "bump" /\ ~req[h].late
      /\ Fit(req[h], account, record, token, lapsed)
      BY DEF IInv, TypeOK, RequestsFit, Fit, RaiseVersions, At
<1>2. linked \subseteq Known(account) /\ linked \in SUBSET Admins
      BY DEF IInv, TypeOK, Known
<1>3. Move(h, r) /\ UNCHANGED <<stores, history>>
      BY DEF RaiseVersions
<1> HIDE DEF linked
<1>4. /\ r \in Requests /\ r.pc = "erase" /\ r.op = req[h].op /\ r.x = req[h].x
      /\ r.change = req[h].change /\ r.late = req[h].late /\ r.linked = linked
      BY <1>1, <1>2 DEF Requests, Stages
<1>5. Fit(r, account, record, token, lapsed) /\ Checked(r)
      BY <1>1, <1>2, <1>4 DEF Fit, Checked, LoginStages
<1> HIDE DEF r
<1>6. QED
      BY <1>1, <1>3, <1>4, <1>5, ReadingKeeps

-----------------------------------------------------------------------------
(* Steps that write tokens, accounts and records.                          *)

LEMMA WritingKeeps ==
    ASSUME IInv, NEW h \in Handlers, req[h].pc \notin {"idle", "window"}, Done(h),
           TypeOK', TokensFit', Grows, UNCHANGED <<failures, raced, crashes>>,
           ~raced => \E a \in Admins : Active(a)'
    PROVE  IInv'
<1>1. Others(h) /\ req'[h] = Idle /\ req[h] # Idle
      BY IdleFits DEF IInv, TypeOK, Done, Move, Others
<1>2. RequestsFit'
      BY <1>1, FitKept, IdleFits
<1>3. Alone'
      BY <1>1, AloneAtEnd DEF Done, Move
<1>4. LimitLifts'
      BY <1>1, LimitKept DEF IInv, At
<1>5. QED
      BY <1>2, <1>3, <1>4 DEF IInv

LEMMA EndType == ASSUME IInv, NEW h \in Handlers, Done(h) PROVE req' \in [Handlers -> Requests]
BY IdleFits DEF IInv, TypeOK, Done, Move

LEMMA SameAccounts ==
    ASSUME IInv, UNCHANGED account
    PROVE  /\ Known(account) \subseteq Known(account')
           /\ \A a \in Known(account) : account[a].version <= account'[a].version
           /\ ~raced => \E a \in Admins : Active(a)'
<1>1. \A a \in Known(account) : account[a].version \in Nat
      BY DEF IInv, TypeOK, Known, Accounts
<1>2. QED
      BY <1>1 DEF IInv, Alone, Active, Known

\* A token that goes takes nothing with it; it is no longer among those to end.
LEMMA TokenGoes ==
    ASSUME IInv, NEW k \in Tokens \cup {None}, token' = [token EXCEPT ![k] = None],
           lapsed' = lapsed \ {k}, UNCHANGED <<account, record>>
    PROVE  /\ token' \in [Tokens -> Issued \cup {None}] /\ lapsed' \subseteq Tokens
           /\ TokensFit' /\ Grows
<1>1. /\ token' \in [Tokens -> Issued \cup {None}] /\ lapsed' \subseteq Tokens
      /\ Known(token') = Known(token) \ {k}
      /\ \A j \in Known(token') : token'[j] = token[j]
      BY DEF IInv, TypeOK, Known
<1>2. TokensFit'
      BY <1>1 DEF IInv, TokensFit
<1>3. Grows
      BY <1>1, SameAccounts DEF Grows
<1>4. QED
      BY <1>1, <1>2, <1>3

LEMMA DropTokenKeeps ==
    ASSUME IInv, NEW h \in Handlers, DropToken(h) \/ LogOut(h) PROVE IInv'
<1>1. /\ req[h].pc \in {"drop", "act"} /\ Done(h) /\ req[h].key \in Tokens \cup {None}
      /\ token' = [token EXCEPT ![req[h].key] = None] /\ lapsed' = lapsed \ {req[h].key}
      /\ UNCHANGED <<account, role, team, record, failures, raced, begun, crashes>>
      BY DEF DropToken, LogOut, Acts, At, IInv, TypeOK, Requests
<1>2. TokensFit' /\ Grows
      BY <1>1, TokenGoes
<1>3. TypeOK'
      BY <1>1, TokenGoes, EndType DEF IInv, TypeOK
<1>4. QED
      BY <1>1, <1>2, <1>3, SameAccounts, WritingKeeps

\* No request carries the new token, and it is as old as the account was.
LEMMA IssueTokenKeeps == ASSUME IInv, NEW h \in Handlers, IssueToken(h) PROVE IInv'
<1>1. PICK k \in Tokens \ Known(token) :
          /\ \A g \in Handlers : req[g].key # k
          /\ token' = [token EXCEPT ![k] = [admin |-> req[h].x, version |-> req[h].version]]
      BY DEF IssueToken
<1>2. /\ req[h].pc = "issue" /\ Done(h)
      /\ UNCHANGED <<account, role, team, record, failures, lapsed, raced, begun, crashes>>
      BY DEF IssueToken, At, history
<1>3. /\ req[h].x \in Known(account) /\ req[h].x \in Admins /\ req[h].version \in Nat
      /\ req[h].version <= account[req[h].x].version
      BY <1>2 DEF IInv, TypeOK, RequestsFit, Fit, LoginStages, Known, Requests
<1>4. token' \in [Tokens -> Issued \cup {None}]
      BY <1>1, <1>3 DEF IInv, TypeOK, Issued
<1>5. TypeOK'
      BY <1>2, <1>4, EndType DEF IInv, TypeOK
<1>6. /\ token'[k].admin = req[h].x /\ token'[k].version = req[h].version
      /\ Known(token') \subseteq Known(token) \cup {k} /\ Known(token) \subseteq Known(token')
      /\ \A j \in Known(token) : token'[j] = token[j]
      BY <1>1 DEF IInv, TypeOK, Known
<1>7. TokensFit'
      BY <1>2, <1>3, <1>6 DEF IInv, TokensFit
<1>8. Grows
      BY <1>1, <1>2, <1>6, SameAccounts DEF Grows
<1>9. QED
      BY <1>2, <1>5, <1>7, <1>8, SameAccounts, WritingKeeps

\* What a change of accounts does to tokens: those it makes older than their account are
\* exactly those it adds to the ones that have to end.
LEMMA AccountsChange ==
    ASSUME IInv, account' \in [Admins -> Accounts \cup {None}],
           Known(account) \subseteq Known(account'),
           NEW bumped, bumped \subseteq Known(account),
           \A a \in Known(account) \ bumped : account'[a].version = account[a].version,
           \A a \in bumped : account'[a].version = account[a].version + 1,
           token' = token, Known(record) \subseteq Known(record'),
           lapsed' = lapsed \cup TokensOf(bumped)
    PROVE  lapsed' \subseteq Tokens /\ TokensFit' /\ Grows
<1>1. \A a \in Known(account) : account[a].version \in Nat
      BY DEF IInv, TypeOK, Known, Accounts
<1>2. \A a \in Known(account) : account[a].version <= account'[a].version
      BY <1>1
<1>3. \A k \in Known(token) : k \in Tokens /\ token[k].version \in Nat
      BY DEF IInv, TypeOK, Known, Issued
<1>4. \A k \in TokensOf(bumped) : /\ k \in Known(token)
                                  /\ token[k].version < account'[token[k].admin].version
  <2> SUFFICES ASSUME NEW k \in Known(token), token[k].admin \in bumped
               PROVE  token[k].version < account'[token[k].admin].version
      BY DEF TokensOf
  <2>1. token[k].version <= account[token[k].admin].version
        BY DEF IInv, TokensFit
  <2>2. QED
        BY <1>1, <1>3, <2>1
<1>5. \A k \in lapsed : /\ k \in Known(token)
                        /\ token[k].version < account'[token[k].admin].version
  <2> SUFFICES ASSUME NEW k \in lapsed
               PROVE  /\ k \in Known(token)
                      /\ token[k].version < account'[token[k].admin].version
      OBVIOUS
  <2>1. /\ k \in Known(token) /\ token[k].admin \in Known(account)
        /\ token[k].version < account[token[k].admin].version
        BY DEF IInv, TokensFit
  <2>2. account'[token[k].admin].version \in Nat
        BY <2>1 DEF Known, Accounts
  <2>3. QED
        BY <1>1, <1>2, <1>3, <2>1, <2>2
<1>6. \A k \in Known(token) : /\ token[k].admin \in Known(account')
                              /\ token[k].version <= account'[token[k].admin].version
  <2> SUFFICES ASSUME NEW k \in Known(token)
               PROVE  /\ token[k].admin \in Known(account')
                      /\ token[k].version <= account'[token[k].admin].version
      OBVIOUS
  <2>1. /\ token[k].admin \in Known(account)
        /\ token[k].version <= account[token[k].admin].version
        BY DEF IInv, TokensFit
  <2>2. account'[token[k].admin].version \in Nat
        BY <2>1 DEF Known, Accounts
  <2>3. QED
        BY <1>1, <1>2, <1>3, <2>1, <2>2
<1>7. TokensFit'
      BY <1>4, <1>5, <1>6 DEF TokensFit
<1>8. Grows
      BY <1>2 DEF Grows
<1>9. QED
      BY <1>3, <1>4, <1>5, <1>7, <1>8

\* The administrator who asks was signed in and, alone, still is: the routes let nobody
\* deactivate themselves.
LEMMA WriteAdminKeeps == ASSUME IInv, NEW h \in Handlers, WriteAdmin(h) PROVE IInv'
<1> DEFINE a == req[h].x
           f == req[h].change
           b == req[h].admin
           insert == MayChange(h, a, f) /\ req[h].op = "newadmin" /\ a \notin Known(account)
           update == MayChange(h, a, f) /\ req[h].op = "admin"
           super == Super(h)
<1>1. /\ req[h].pc = "act" /\ Done(h) /\ req[h].op \in {"newadmin", "admin"}
      /\ UNCHANGED <<role, team, record, token, failures, raced, begun, crashes>>
      BY DEF WriteAdmin, Acts, At
<1>2. /\ f \in Forms /\ a \in Admins /\ b \in Known(account)
      /\ req[h].op = "admin" => a \in Known(account)
      BY <1>1 DEF IInv, TypeOK, RequestsFit, Fit, Known
<1>3. /\ f.active \in BOOLEAN /\ f.password \in BOOLEAN
      /\ LinkedRoles(f) \in SUBSET Roles /\ LinkedTeams(f) \in SUBSET Teams
      BY <1>2, AccessAssumption DEF LinkedRoles, LinkedTeams
<1>4. account \in [Admins -> Accounts \cup {None}] /\ None \notin Accounts
      BY AccessAssumption DEF IInv, TypeOK
<1>5. ~raced => Active(b)
      BY <1>1 DEF IInv, Alone, Checked
<1>6. Known(record) \subseteq Known(record')
      BY <1>1
<1>7. SUFFICES /\ account' \in [Admins -> Accounts \cup {None}]
               /\ lapsed' \subseteq Tokens /\ TokensFit' /\ Grows
               /\ ~raced => b \in Known(account') /\ account'[b].active
  <2>1. TypeOK'
        BY <1>1, <1>7, EndType DEF IInv, TypeOK
  <2>2. b \in Admins
        BY <1>2 DEF IInv, TypeOK, Known
  <2>3. ~raced => \E c \in Admins : Active(c)'
        BY <1>7, <2>2 DEF Active
  <2>4. QED
        BY <1>1, <1>7, <2>1, <2>3, WritingKeeps
<1>8. CASE insert
  <2>1. NewAccount(h, f) \in Accounts
        BY <1>3 DEF NewAccount, Accounts
  <2>2. account' = [account EXCEPT ![a] = NewAccount(h, f)] /\ lapsed' = lapsed
        BY <1>8 DEF WriteAdmin
  <2>3. /\ account' \in [Admins -> Accounts \cup {None}]
        /\ Known(account) \subseteq Known(account')
        /\ \A c \in Known(account) : account'[c] = account[c]
        BY <1>2, <1>4, <1>8, <2>1, <2>2 DEF Known
  <2>4. lapsed' = lapsed \cup TokensOf({})
        BY <2>2 DEF TokensOf
  <2>5. lapsed' \subseteq Tokens /\ TokensFit' /\ Grows
        BY <1>1, <1>6, <2>3, <2>4, AccountsChange
  <2>6. ~raced => b \in Known(account') /\ account'[b].active
        BY <1>2, <1>5, <2>3 DEF Active
  <2>7. QED
        BY <2>3, <2>5, <2>6
<1>9. CASE update
  <2> DEFINE row == Changed(account[a], f, super)
             bumped == IF f.password THEN {a} ELSE {}
  <2>1. a \in Known(account) /\ account[a] \in Accounts
        BY <1>2, <1>4, <1>9 DEF Known
  <2>2. /\ row \in Accounts /\ row.active = f.active
        /\ row.version = account[a].version + (IF f.password THEN 1 ELSE 0)
        BY <1>3, <2>1 DEF Changed, Accounts
  <2>3. /\ account' = [account EXCEPT ![a] = row]
        /\ lapsed' = IF f.password THEN lapsed \cup TokensOf({a}) ELSE lapsed
        BY <1>9 DEF WriteAdmin
  <2> HIDE DEF row
  <2>4. /\ account' \in [Admins -> Accounts \cup {None}]
        /\ Known(account') = Known(account) /\ account'[a] = row
        /\ \A c \in Known(account) \ {a} : account'[c] = account[c]
        BY <1>2, <1>4, <2>1, <2>2, <2>3 DEF Known
  <2>5. lapsed' = lapsed \cup TokensOf(bumped)
        BY <2>3 DEF TokensOf
  <2>6. /\ \A c \in Known(account) \ bumped : account'[c].version = account[c].version
        /\ \A c \in bumped : account'[c].version = account[c].version + 1
        BY <2>1, <2>2, <2>4 DEF Accounts
  <2>10. bumped \subseteq Known(account)
        BY <2>1
  <2> HIDE DEF bumped
  <2>7. lapsed' \subseteq Tokens /\ TokensFit' /\ Grows
    <3>1. Known(account) \subseteq Known(account') /\ token' = token
          BY <1>1, <2>4
    <3>2. \A c \in Known(account) \ bumped : account'[c].version = account[c].version
          BY <2>6
    <3>3. \A c \in bumped : account'[c].version = account[c].version + 1
          BY <2>6
    <3>4. QED
          BY <1>6, <2>10, <2>4, <2>5, <3>1, <3>2, <3>3, AccountsChange
  <2>8. ~raced => b \in Known(account') /\ account'[b].active
    <3>1. a = b => f.active
          BY <1>9 DEF MayChange
    <3>2. QED
          BY <1>2, <1>5, <2>2, <2>4, <3>1 DEF Active
  <2>9. QED
        BY <2>4, <2>7, <2>8
<1>10. CASE ~insert /\ ~update
  <2>1. account' = account /\ lapsed' = lapsed
        BY <1>10 DEF WriteAdmin
  <2>2. lapsed' = lapsed \cup TokensOf({})
        BY <2>1 DEF TokensOf
  <2>3. lapsed' \subseteq Tokens /\ TokensFit' /\ Grows
        BY <1>1, <1>4, <1>6, <2>1, <2>2, AccountsChange
  <2>4. QED
        BY <1>4, <1>5, <2>1, <2>3 DEF Active, Known
<1>11. QED
      BY <1>8, <1>9, <1>10

LEMMA EraseTeamKeeps == ASSUME IInv, NEW h \in Handlers, EraseTeam(h) PROVE IInv'
<1> DEFINE t == req[h].x
           linked == req[h].linked
           row(a) == [account[a] EXCEPT !.version = IF a \in linked THEN @ + 1 ELSE @,
                                        !.teams   = @ \ {t}]
<1>1. /\ req[h].pc = "erase" /\ Done(h)
      /\ account' = [a \in Admins |-> IF a \notin Known(account) THEN None ELSE row(a)]
      /\ team' = [team EXCEPT ![t] = None]
      /\ record' = Detached(t) /\ lapsed' = lapsed \cup TokensOf(linked)
      /\ UNCHANGED <<role, token, failures, raced, begun, crashes>>
      BY DEF EraseTeam, At
<1> HIDE DEF linked, row
<1>2. /\ account \in [Admins -> Accounts \cup {None}] /\ linked \subseteq Known(account)
      /\ None \notin Accounts /\ None \notin Owned /\ Known(account) \subseteq Admins
      BY <1>1, AccessAssumption DEF IInv, TypeOK, RequestsFit, Fit, Known, linked
<1>3. \A a \in Known(account) :
          /\ account'[a] \in Accounts /\ account'[a].active = account[a].active
          /\ account'[a].version = account[a].version + (IF a \in linked THEN 1 ELSE 0)
  <2> SUFFICES ASSUME NEW a \in Known(account)
               PROVE  /\ account'[a] \in Accounts /\ account'[a].active = account[a].active
                      /\ account'[a].version
                           = account[a].version + (IF a \in linked THEN 1 ELSE 0)
      OBVIOUS
  <2>1. account[a] \in Accounts /\ a \in Admins
        BY <1>2 DEF Known
  <2>2. account'[a] = row(a)
        BY <1>1, <2>1
  <2>3. account[a].version \in Nat /\ account[a].teams \ {t} \in SUBSET Teams
        BY <2>1 DEF Accounts
  <2>4. CASE a \in linked
    <3>1. row(a) = [account[a] EXCEPT !.version = account[a].version + 1, !.teams = @ \ {t}]
          BY <2>1, <2>4 DEF Accounts, row
    <3>2. account[a].version + 1 \in Nat
          BY <2>3
    <3>3. row(a) \in Accounts /\ row(a).active = account[a].active
          BY <2>1, <2>3, <3>1, <3>2 DEF Accounts
    <3>4. row(a).version = account[a].version + 1
          BY <2>1, <3>1 DEF Accounts
    <3>5. QED
          BY <2>2, <2>4, <3>3, <3>4
  <2>5. CASE a \notin linked
    <3>1. row(a) = [account[a] EXCEPT !.teams = @ \ {t}]
          BY <2>1, <2>5 DEF Accounts, row
    <3>2. QED
          BY <2>1, <2>2, <2>3, <2>5, <3>1 DEF Accounts
  <2>6. QED
        BY <2>4, <2>5
<1>4. \A a \in Admins \ Known(account) : account'[a] = None
      BY <1>1
<1>5. account' \in [Admins -> Accounts \cup {None}] /\ Known(account') = Known(account)
      BY <1>1, <1>2, <1>3, <1>4 DEF Known
<1>6. /\ record' \in [Records -> Owned \cup {None}]
      /\ Known(record) \subseteq Known(record')
  <2>1. \A r \in Known(record) : record[r] \in Owned
        BY DEF IInv, TypeOK, Known
  <2>2. \A r \in Known(record) : [record[r] EXCEPT !.team = None] \in Owned
        BY <2>1 DEF Owned
  <2>3. \A r \in Records : \/ record'[r] = record[r]
                           \/ r \in Known(record) /\ record'[r] = [record[r] EXCEPT !.team = None]
        BY <1>1, Zenon DEF Detached
  <2>4. \A r \in Records : /\ record'[r] \in Owned \cup {None}
                           /\ r \in Known(record) => record'[r] \in Owned
        BY <2>1, <2>2, <2>3 DEF IInv, TypeOK
  <2>5. record' \in [Records -> Owned \cup {None}]
        BY <1>1, <2>4 DEF Detached
  <2>6. record \in [Records -> Owned \cup {None}]
        BY DEF IInv, TypeOK
  <2>7. QED
        BY <1>2, <2>4, <2>5, <2>6 DEF Known
<1>7. lapsed' \subseteq Tokens /\ TokensFit' /\ Grows
  <2>1. /\ \A a \in Known(account) \ linked : account'[a].version = account[a].version
        /\ \A a \in linked : account'[a].version = account[a].version + 1
    <3>1. \A a \in Known(account) : account[a].version \in Nat
          BY <1>2 DEF Known, Accounts
    <3>2. QED
          BY <1>2, <1>3, <3>1
  <2>2. QED
        BY <1>1, <1>2, <1>5, <1>6, <2>1, AccountsChange
<1>8. TypeOK'
  <2>1. team' \in [Teams -> BOOLEAN \cup {None}]
        BY <1>1 DEF IInv, TypeOK
  <2>2. QED
        BY <1>1, <1>5, <1>6, <1>7, <2>1, EndType DEF IInv, TypeOK
<1>9. ~raced => \E a \in Admins : Active(a)'
      BY <1>3, <1>5 DEF IInv, Alone, Active
<1>10. QED
      BY <1>1, <1>7, <1>8, <1>9, WritingKeeps

LEMMA RecordKeeps ==
    ASSUME IInv, NEW h \in Handlers, req[h].pc \notin {"idle", "window"}, Done(h),
           record' \in [Records -> Owned \cup {None}], Known(record) \subseteq Known(record'),
           UNCHANGED <<account, role, team, token, failures, lapsed, raced, begun, crashes>>
    PROVE  IInv'
<1>1. TypeOK'
      BY EndType DEF IInv, TypeOK, history
<1>2. TokensFit'
      BY DEF IInv, TokensFit, Known, history
<1>3. Grows
      BY SameAccounts DEF Grows, history
<1>4. QED
      BY <1>1, <1>2, <1>3, SameAccounts, WritingKeeps DEF history

LEMMA InsertRecordKeeps == ASSUME IInv, NEW h \in Handlers, InsertRecord(h) PROVE IInv'
<1>1. /\ req[h].pc = "act" /\ Done(h)
      /\ UNCHANGED <<account, role, team, token, failures, lapsed, raced, begun, crashes>>
      BY DEF InsertRecord, Acts, At, history
<1>2. CASE UNCHANGED record
      BY <1>1, <1>2, RecordKeeps DEF IInv, TypeOK
<1>3. CASE \E t \in Teams \cup {None} :
             record' = [record EXCEPT ![req[h].x] = [team |-> t, live |-> FALSE]]
  <2>1. PICK t \in Teams \cup {None} :
            record' = [record EXCEPT ![req[h].x] = [team |-> t, live |-> FALSE]]
        BY <1>3
  <2>2. [team |-> t, live |-> FALSE] \in Owned /\ None \notin Owned
        BY AccessAssumption DEF Owned
  <2>3. /\ record' \in [Records -> Owned \cup {None}]
        /\ Known(record) \subseteq Known(record')
        BY <2>1, <2>2 DEF IInv, TypeOK, Known
  <2>4. QED
        BY <1>1, <2>3, RecordKeeps
<1>4. QED
      BY <1>2, <1>3 DEF InsertRecord, IInv, TypeOK, Known

\* The row of a session or of a retrospective is marked.
LEMMA MarkedRows ==
    ASSUME IInv, NEW r \in Known(record), NEW live \in BOOLEAN, Mark(r, live)
    PROVE  /\ record' \in [Records -> Owned \cup {None}]
           /\ Known(record) \subseteq Known(record')
           /\ record'[r].team = record[r].team /\ record'[r].live = live
           /\ \A q \in Records \ {r} : record'[q] = record[q]
<1> DEFINE row == [record[r] EXCEPT !.live = live]
<1>1. /\ r \in Records /\ record[r] \in Owned /\ None \notin Owned
      /\ record \in [Records -> Owned \cup {None}]
      BY AccessAssumption DEF IInv, TypeOK, Known
<1>2. row \in Owned /\ row.team = record[r].team /\ row.live = live
      BY <1>1 DEF Owned
<1>3. record' = [record EXCEPT ![r] = row]
      BY DEF Mark
<1> HIDE DEF row
<1>4. QED
      BY <1>1, <1>2, <1>3 DEF Known

LEMMA SetLiveKeeps == ASSUME IInv, NEW h \in Handlers, SetLive(h) PROVE IInv'
<1>1. /\ req[h].pc = "write" /\ Done(h)
      /\ UNCHANGED <<account, role, team, token, failures, lapsed, raced, begun, crashes>>
      BY DEF SetLive, At
<1>2. req[h].x \in Known(record) /\ req[h].change \in BOOLEAN
      BY <1>1 DEF IInv, RequestsFit, Fit
<1>3. Mark(req[h].x, req[h].change) \/ UNCHANGED record
      BY DEF SetLive
<1>4. record' \in [Records -> Owned \cup {None}] /\ Known(record) \subseteq Known(record')
      BY <1>2, <1>3, MarkedRows DEF IInv, TypeOK
<1>5. QED
      BY <1>1, <1>4, RecordKeeps

LEMMA SyncSessionKeeps == ASSUME IInv, NEW r \in Records, SyncSession(r) PROVE IInv'
<1>1. /\ r \in Known(record) /\ Mark(r, r \in running)
      /\ UNCHANGED <<account, role, team, token, failures, req, lapsed, raced, begun, crashes>>
      BY DEF SyncSession
<1>2. (r \in running) \in BOOLEAN
      OBVIOUS
<1>3. record' \in [Records -> Owned \cup {None}] /\ Known(record) \subseteq Known(record')
      BY <1>1, <1>2, MarkedRows
<1>4. TypeOK' /\ TokensFit'
      BY <1>1, <1>3 DEF IInv, TypeOK, TokensFit, Known
<1>5. RequestsFit'
  <2> SUFFICES ASSUME NEW h \in Handlers
               PROVE  Fit(req[h], account, record', token, lapsed)
      BY <1>1 DEF RequestsFit
  <2>1. Fit(req[h], account, record, token, lapsed)
        BY DEF IInv, RequestsFit
  <2>2. QED
        BY <1>3, <2>1 DEF Fit
<1>6. Alone' /\ LimitLifts'
      BY <1>1 DEF IInv, Alone, Checked, Active, Known, LimitLifts, At
<1>7. QED
      BY <1>4, <1>5, <1>6 DEF IInv

-----------------------------------------------------------------------------
(* Time, restarts, and the beginning.                                      *)

LEMMA ExpiryKeeps ==
    ASSUME IInv, \/ \E a \in Admins : ExpireWindow(a)
                 \/ \E k \in Tokens : ExpireToken(k)
    PROVE  IInv'
<1>1. ASSUME NEW a \in Admins, ExpireWindow(a)
      PROVE  IInv'
  <2>1. /\ failures' \in [Admins -> [count : Nat, ttl : BOOLEAN]]
        /\ \A b \in Admins : failures'[b].count > 0 => failures'[b] = failures[b]
        BY <1>1 DEF IInv, TypeOK, ExpireWindow, Zero
  <2>2. UNCHANGED <<account, role, team, record, token, req, lapsed, raced, begun, crashes>>
        BY <1>1 DEF ExpireWindow, history
  <2>3. LimitLifts'
        BY <2>1, <2>2 DEF IInv, LimitLifts, At
  <2>4. TypeOK' /\ TokensFit' /\ RequestsFit' /\ Alone'
        BY <2>1, <2>2 DEF IInv, TypeOK, TokensFit, RequestsFit, Alone, Checked, Active, Known
  <2>5. QED
        BY <2>3, <2>4 DEF IInv
<1>2. ASSUME NEW k \in Tokens, ExpireToken(k)
      PROVE  IInv'
  <2>1. /\ UNCHANGED <<account, role, team, record, failures, req, raced, begun, crashes>>
        /\ token' = [token EXCEPT ![k] = None] /\ lapsed' = lapsed \ {k}
        BY <1>2 DEF ExpireToken
  <2>2. /\ token' \in [Tokens -> Issued \cup {None}] /\ lapsed' \subseteq Tokens
        /\ TokensFit' /\ Grows
        BY <2>1, TokenGoes
  <2>3. TypeOK'
        BY <2>1, <2>2 DEF IInv, TypeOK
  <2>4. RequestsFit'
    <3> SUFFICES ASSUME NEW h \in Handlers
                 PROVE  Fit(req[h], account', record', token', lapsed')
        BY <2>1 DEF RequestsFit
    <3>1. Fit(req[h], account, record, token, lapsed)
          BY DEF IInv, RequestsFit
    <3>2. QED
          BY <2>1, <2>2, <3>1 DEF Fit, Grows
  <2>5. Alone' /\ LimitLifts'
        BY <2>1 DEF IInv, Alone, Checked, Active, Known, LimitLifts, At
  <2>6. QED
        BY <2>2, <2>3, <2>4, <2>5 DEF IInv
<1>3. QED
      BY <1>1, <1>2

LEMMA RestartKeeps == IInv /\ Restart => IInv'
<1> SUFFICES ASSUME IInv, Restart
             PROVE  IInv'
    OBVIOUS
<1>1. /\ UNCHANGED <<account, record, token, failures, lapsed, raced, begun>>
      /\ req' = [h \in Handlers |-> Idle] /\ crashes' = crashes + 1
      BY DEF Restart
<1>2. TypeOK'
  <2>1. role' \in [Roles -> BOOLEAN \cup {None}]
        BY DEF IInv, TypeOK, Restart
  <2>2. team' \in [Teams -> BOOLEAN \cup {None}]
        BY DEF IInv, TypeOK, Restart
  <2>3. QED
        BY <1>1, <2>1, <2>2, IdleFits DEF IInv, TypeOK
<1>3. TokensFit'
      BY <1>1 DEF IInv, TokensFit, Known
<1>4. RequestsFit'
      BY <1>1, IdleFits DEF RequestsFit
<1>5. Alone'
      BY <1>1, IdleFits DEF IInv, Alone, Checked, Active, Known
<1>6. LimitLifts'
      BY <1>1 DEF IInv, TypeOK, LimitLifts
<1>7. QED
      BY <1>2, <1>3, <1>4, <1>5, <1>6 DEF IInv

LEMMA InitIInv == Init => IInv
<1> SUFFICES ASSUME Init
             PROVE  IInv
    OBVIOUS
<1>1. \A a \in Admins : (\E k \in Tokens : Signed[k] = a) =>
          account[a] \in Accounts /\ account[a].version = 1 /\ account[a].active
      BY AccessAssumption DEF Init, Accounts
<1>2. /\ account \in [Admins -> Accounts \cup {None}]
      /\ \A k \in Tokens : Signed[k] \in Known(account)
      BY <1>1, AccessAssumption DEF Init, Known
<1>3. TypeOK
  <2>1. token \in [Tokens -> Issued \cup {None}]
        BY AccessAssumption DEF Init, Issued
  <2>2. failures \in [Admins -> [count : Nat, ttl : BOOLEAN]]
        BY DEF Init, Zero
  <2>3. /\ role \in [Roles -> BOOLEAN \cup {None}] /\ team \in [Teams -> BOOLEAN \cup {None}]
        /\ record \in [Records -> Owned \cup {None}]
        BY DEF Init
  <2>4. QED
        BY <1>2, <2>1, <2>2, <2>3, IdleFits DEF Init, TypeOK
<1>4. TokensFit
  <2>1. \A k \in Tokens : token[k].admin = Signed[k] /\ token[k].version = 1
        BY DEF Init
  <2>2. \A k \in Tokens : account[Signed[k]].version = 1
        BY <1>1, AccessAssumption
  <2>3. Known(token) \subseteq Tokens /\ lapsed = {}
        BY DEF Init, Known
  <2>4. QED
        BY <1>2, <2>1, <2>2, <2>3 DEF TokensFit
<1>5. RequestsFit
      BY IdleFits DEF Init, RequestsFit
<1>6. Alone
      BY <1>1, <1>2, AccessAssumption, IdleFits DEF Init, Alone, Checked, Active, Known
<1>7. LimitLifts
      BY DEF Init, LimitLifts, Zero
<1>8. QED
      BY <1>3, <1>4, <1>5, <1>6, <1>7 DEF IInv

LEMMA StutterKeeps == IInv /\ UNCHANGED vars => IInv'
BY DEF IInv, TypeOK, TokensFit, RequestsFit, Alone, LimitLifts, Checked, Active, Known, At,
       vars, stores, history

LEMMA NextKeeps == IInv /\ Next => IInv'
<1> SUFFICES ASSUME IInv, Next
             PROVE  IInv'
    OBVIOUS
<1>1. ASSUME NEW h \in Handlers, Step(h)
      PROVE  IInv'
      BY <1>1, CheckLimitKeeps, CheckPasswordKeeps, ReadPrincipalKeeps, ClearFailuresKeeps,
         IssueTokenKeeps, CountFailureKeeps, SetWindowKeeps, ReadTokenKeeps, ReadAccountKeeps,
         DropTokenKeeps, WriteRoleKeeps, WriteAdminKeeps, WriteTeamKeeps, LookingKeeps,
         RaiseVersionsKeeps, EraseTeamKeeps, InsertRecordKeeps, SetLiveKeeps DEF Step, Login, Authenticate, Act
<1>2. QED
      BY <1>1, ArriveKeeps, SyncSessionKeeps, ExpiryKeeps, RestartKeeps DEF Next

\* IInv is an invariant: it holds at first, and each step keeps it.
THEOREM AccessInductive == Spec => []IInv
BY InitIInv, NextKeeps, StutterKeeps, PTL DEF Spec

\* However logins, changes of passwords and deletions of teams are interleaved with the
\* requests that are being authenticated (get_admin_principal, token_version), none
\* that was sent with a token that has to end gets past authentication.
THEOREM OldTokensAreRefused == Spec => []OldTokensEnd
<1>1. IInv => OldTokensEnd
      BY DEF IInv, RequestsFit, Fit, OldTokensEnd
<1>2. QED
      BY <1>1, AccessInductive, PTL

\* As long as requests come one at a time, cms_update_admin leaves somebody who can
\* sign in.
THEOREM SomebodyAlwaysRemains == Spec => []SomebodyRemains
<1>1. IInv => SomebodyRemains
      BY DEF IInv, Alone, SomebodyRemains
<1>2. QED
      BY <1>1, AccessInductive, PTL

\* Whatever logins succeed, fail and expire between INCR and EXPIRE, a counter of failed
\* logins is given its window, unless the service dies in between.
THEOREM LimitsLift == Spec => []LimitLifts
<1>1. IInv => LimitLifts
      BY DEF IInv
<1>2. QED
      BY <1>1, AccessInductive, PTL

-----------------------------------------------------------------------------
(* Rows that are live and deletions of their team.                         *)

\* What a deletion has counted: a row of the team that is live all the same went live
\* after its kind was counted.
CountFits(r) ==
    /\ r.pc \in {"sessions", "retros", "bump", "erase"} => r.x \in Teams
    /\ r.pc \in {"retros", "bump", "erase"} => LiveOf(r.x, Records \ Retros) \subseteq missed
    /\ r.pc \in {"bump", "erase"} => LiveOf(r.x, Retros) \subseteq missed

CountsFit == \A h \in Handlers : CountFits(req[h])

\* A request that only reads or writes other rows.
LEMMA CountsKept ==
    ASSUME CountsFit, NEW h \in Handlers, Others(h), UNCHANGED <<record, missed>>,
           \/ req'[h].pc \notin {"sessions", "retros", "bump", "erase"}
           \/ CountFits(req'[h])
    PROVE  CountsFit'
<1>1. \A r : CountFits(r)' <=> CountFits(r)
      BY DEF CountFits, LiveOf, Known
<1>2. CountFits(req'[h])
      BY DEF CountFits
<1>3. QED
      BY <1>1, <1>2 DEF CountsFit, Others

LEMMA DeletionCounts ==
    ASSUME IInv, CountsFit, NEW h \in Handlers,
           FindTeam(h) \/ CountSessions(h) \/ CountRetros(h) \/ RaiseVersions(h)
    PROVE  CountsFit'
<1>1. /\ req[h] \in Requests /\ req \in [Handlers -> Requests]
      /\ CountFits(req[h]) /\ Known(team) \subseteq Teams
      /\ UNCHANGED <<record, missed>>
      BY DEF IInv, TypeOK, CountsFit, Known, FindTeam, CountSessions, CountRetros,
         RaiseVersions, stores, history
<1>2. PICK r : Move(h, r) /\ (r.pc = "idle" \/ CountFits(r))
  <2>1. CASE FindTeam(h)
    <3>1. CASE req[h].x \in Known(team) \ {Default}
      <4>1. LET q == [req[h] EXCEPT !.pc = "sessions"] IN
            /\ Move(h, q) /\ q.pc = "sessions" /\ q.x = req[h].x
            BY <1>1, <2>1, <3>1 DEF FindTeam, Goto, Requests
      <4>2. QED
            BY <1>1, <3>1, <4>1 DEF CountFits
    <3>2. QED
          BY <2>1, <3>1, IdleFits DEF FindTeam, Done
  <2>2. CASE CountSessions(h)
    <3>1. CASE LiveOf(req[h].x, Records \ Retros) = {}
      <4>1. LET q == [req[h] EXCEPT !.pc = "retros"] IN
            /\ Move(h, q) /\ q.pc = "retros" /\ q.x = req[h].x
            BY <1>1, <2>2, <3>1 DEF CountSessions, Goto, Requests
      <4>2. QED
            BY <1>1, <2>2, <3>1, <4>1 DEF CountFits, CountSessions, At
    <3>2. QED
          BY <2>2, <3>1, IdleFits DEF CountSessions, Done
  <2>3. CASE CountRetros(h)
    <3>1. CASE LiveOf(req[h].x, Retros) = {}
      <4>1. LET q == [req[h] EXCEPT !.pc = "bump"] IN
            /\ Move(h, q) /\ q.pc = "bump" /\ q.x = req[h].x
            BY <1>1, <2>3, <3>1 DEF CountRetros, Goto, Requests
      <4>2. QED
            BY <1>1, <2>3, <3>1, <4>1 DEF CountFits, CountRetros, At
    <3>2. QED
          BY <2>3, <3>1, IdleFits DEF CountRetros, Done
  <2>4. CASE RaiseVersions(h)
    <3> DEFINE linked == {a \in Known(account) : req[h].x \in account[a].teams}
               q == [req[h] EXCEPT !.pc = "erase", !.linked = linked]
    <3>1. Move(h, q) /\ req[h].pc = "bump"
          BY <2>4 DEF RaiseVersions, At
    <3> HIDE DEF linked
    <3>2. q.pc = "erase" /\ q.x = req[h].x
          BY <1>1 DEF Requests
    <3>3. QED
          BY <1>1, <3>1, <3>2 DEF CountFits
  <2>5. QED
        BY <2>1, <2>2, <2>3, <2>4
<1>3. Others(h) /\ req'[h] = r
      BY <1>1, <1>2 DEF Move, Others
<1>4. QED
      BY <1>1, <1>2, <1>3, CountsKept

\* A row that goes live while its team is being deleted is counted or missed.
LEMMA MarkCounts ==
    ASSUME IInv, CountsFit, NEW r \in Known(record), NEW live \in BOOLEAN, Mark(r, live),
           \A h \in Handlers : req'[h] = req[h] \/ req'[h] = Idle
    PROVE  CountsFit'
<1>1. /\ Known(record') = Known(record) /\ record'[r].team = record[r].team
      /\ record'[r].live = live /\ \A q \in Records \ {r} : record'[q] = record[q]
      BY MarkedRows DEF IInv, TypeOK, Known, Mark
<1>2. \A t, q : q \in LiveOf(t, Records)' =>
          \/ q = r /\ live /\ record[r].team = t
          \/ q # r /\ q \in LiveOf(t, Records)
      BY <1>1 DEF LiveOf
<1>3. /\ \A q : q # r /\ q \in missed => q \in missed'
      /\ live /\ Counted(r) => r \in missed'
      BY DEF Mark
<1>4. ASSUME NEW h \in Handlers, CountFits(req[h])
      PROVE  CountFits(req[h])'
  <2>1. CASE req'[h] = Idle
        BY <2>1, IdleFits DEF CountFits
  <2>2. CASE req'[h] = req[h]
    <3>1. ASSUME req[h].pc \in {"retros", "bump", "erase"}, NEW q \in LiveOf(req[h].x, Records \ Retros)'
          PROVE  q \in missed'
      <4>0. q \in Records \ Retros /\ q \in LiveOf(req[h].x, Records)'
            BY <3>1, AccessAssumption DEF LiveOf
      <4>1. CASE q = r
        <5>1. live /\ record[r].team = req[h].x
              BY <1>2, <2>2, <4>0, <4>1
        <5>2. Counted(r)
              BY <3>1, <4>0, <4>1, <5>1 DEF Counted, At
        <5>3. QED
              BY <1>3, <4>1, <5>1, <5>2
      <4>2. CASE q # r
        <5>1. q \in LiveOf(req[h].x, Records \ Retros)
              BY <1>2, <2>2, <4>0, <4>2 DEF LiveOf
        <5>2. QED
              BY <1>3, <1>4, <3>1, <4>2, <5>1 DEF CountFits
      <4>3. QED
            BY <4>1, <4>2
    <3>2. ASSUME req[h].pc \in {"bump", "erase"}, NEW q \in LiveOf(req[h].x, Retros)'
          PROVE  q \in missed'
      <4>0. q \in Retros /\ q \in LiveOf(req[h].x, Records)'
            BY <3>2, AccessAssumption DEF LiveOf
      <4>1. CASE q = r
        <5>1. live /\ record[r].team = req[h].x
              BY <1>2, <2>2, <4>0, <4>1
        <5>2. Counted(r)
              BY <3>2, <4>0, <4>1, <5>1 DEF Counted, At
        <5>3. QED
              BY <1>3, <4>1, <5>1, <5>2
      <4>2. CASE q # r
        <5>1. q \in LiveOf(req[h].x, Retros)
              BY <1>2, <2>2, <4>0, <4>2 DEF LiveOf
        <5>2. QED
              BY <1>3, <1>4, <3>2, <4>2, <5>1 DEF CountFits
      <4>3. QED
            BY <4>1, <4>2
    <3>3. QED
          BY <1>4, <2>2, <3>1, <3>2 DEF CountFits, LiveOf
  <2>3. QED
        BY <2>1, <2>2
<1>5. QED
      BY <1>4 DEF CountsFit

\* A deletion takes rows away from its team only, and a new row is not live.
LEMMA RowsCount ==
    ASSUME IInv, CountsFit, NEW h \in Handlers, EraseTeam(h) \/ InsertRecord(h)
    PROVE  CountsFit'
<1>1. Others(h) /\ req'[h] = Idle /\ UNCHANGED missed
      BY DEF IInv, TypeOK, EraseTeam, InsertRecord, Done, Move, Others, history
<1>2. \A q \in Known(record) : q \in Records /\ record[q] \in Owned
      BY DEF IInv, TypeOK, Known
<1>3. \A t \in Teams : \A q : q \in LiveOf(t, Records)' => q \in LiveOf(t, Records)
  <2>1. CASE EraseTeam(h)
    <3>1. \A q \in Records : \/ record'[q] = record[q]
                             \/ q \in Known(record) /\ record'[q] = [record[q] EXCEPT !.team = None]
          BY <2>1, Zenon DEF EraseTeam, Detached
    <3>2. \A q \in Known(record) : [record[q] EXCEPT !.team = None].team = None
          BY <1>2 DEF Owned
    <3>3. DOMAIN record' = Records /\ DOMAIN record = Records
          BY <2>1 DEF EraseTeam, Detached, IInv, TypeOK
    <3>4. QED
          BY <3>1, <3>2, <3>3, AccessAssumption DEF LiveOf, Known
  <2>2. CASE InsertRecord(h)
    <3>1. CASE UNCHANGED record
          BY <3>1 DEF LiveOf, Known
    <3>2. CASE \E t \in Teams \cup {None} :
                 record' = [record EXCEPT ![req[h].x] = [team |-> t, live |-> FALSE]]
          BY <3>2 DEF LiveOf, Known, IInv, TypeOK
    <3>3. QED
          BY <2>2, <3>1, <3>2 DEF InsertRecord, IInv, TypeOK, Known
  <2>3. QED
        BY <2>1, <2>2
<1>4. ASSUME NEW g \in Handlers, CountFits(req[g])
      PROVE  CountFits(req[g])'
  <2>1. CASE g = h
        BY <1>1, <2>1, IdleFits DEF CountFits
  <2>2. CASE g # h
    <3>1. req'[g] = req[g]
          BY <1>1, <2>2 DEF Others
    <3>2. QED
          BY <1>1, <1>3, <1>4, <3>1, AccessAssumption DEF CountFits, LiveOf
  <2>3. QED
        BY <2>1, <2>2
<1>5. QED
      BY <1>4 DEF CountsFit

\* The steps that look at no team and write no row.
LEMMA OtherStepsCount ==
    ASSUME IInv, CountsFit, NEW h \in Handlers,
           \/ Arrive(h) \/ Login(h) \/ Authenticate(h)
           \/ LogOut(h) \/ WriteRole(h) \/ WriteAdmin(h) \/ WriteTeam(h) \/ LoadRecord(h)
    PROVE  CountsFit'
<1> DEFINE looks == {"sessions", "retros", "bump", "erase"}
<1>1. req[h] \in Requests /\ req \in [Handlers -> Requests]
      BY DEF IInv, TypeOK
<1>2. SUFFICES /\ \E r : Move(h, r) /\ r.pc \notin looks
               /\ UNCHANGED <<record, missed>>
  <2>1. PICK r : Move(h, r) /\ r.pc \notin looks
        BY <1>2
  <2>2. Others(h) /\ req'[h] = r
        BY <1>1, <2>1 DEF Move, Others
  <2>3. QED
        BY <1>2, <2>1, <2>2, CountsKept
<1>3. \A stage : Goto(h, stage) => \E r : Move(h, r) /\ r.pc = stage
  <2> SUFFICES ASSUME NEW stage, Goto(h, stage)
               PROVE  \E r : Move(h, r) /\ r.pc = stage
      OBVIOUS
  <2>1. [req[h] EXCEPT !.pc = stage].pc = stage
        BY <1>1 DEF Requests
  <2>2. QED
        BY <2>1 DEF Goto
<1>4. Done(h) => \E r : Move(h, r) /\ r.pc \notin looks
      BY IdleFits DEF Done
<1>5. CASE Arrive(h)
  <2>1. PICK r \in Requests : r.pc \in {"limit", "token"} /\ Begin(h, r)
        BY <1>5, EachArrives DEF Arriving
  <2>2. Move(h, r) /\ UNCHANGED <<record, missed>>
        BY <2>1 DEF Begin, Move, stores
  <2>3. QED
        BY <2>1, <2>2
<1>6. CASE Login(h)
  <2>1. UNCHANGED <<record, missed>>
        BY <1>6 DEF Login, CheckLimit, CheckPassword, ReadPrincipal, ClearFailures, IssueToken,
           CountFailure, SetWindow, stores, history
  <2>2. CASE CheckLimit(h) \/ CheckPassword(h) \/ ClearFailures(h)
        BY <1>3, <1>4, <2>1, <2>2 DEF CheckLimit, CheckPassword, ClearFailures
  <2>3. CASE IssueToken(h) \/ CountFailure(h) \/ SetWindow(h)
        BY <1>3, <1>4, <2>1, <2>3 DEF IssueToken, CountFailure, SetWindow
  <2>4. CASE ReadPrincipal(h)
    <3> DEFINE q == [req[h] EXCEPT !.pc = "clear", !.version = account[req[h].x].version]
    <3>1. q.pc = "clear" /\ (Move(h, q) \/ Goto(h, "failed"))
          BY <1>1, <2>4 DEF Requests, ReadPrincipal
    <3> HIDE DEF q
    <3>2. QED
          BY <1>3, <2>1, <3>1
  <2>5. QED
        BY <1>6, <2>2, <2>3, <2>4 DEF Login
<1>7. CASE Authenticate(h)
  <2>1. UNCHANGED <<record, missed>>
        BY <1>7 DEF Authenticate, ReadToken, ReadAccount, DropToken, stores, history
  <2>2. CASE ReadToken(h)
    <3> DEFINE q == [req[h] EXCEPT !.pc = "account", !.admin = token[req[h].key].admin,
                                   !.version = token[req[h].key].version]
    <3>1. q.pc = "account" /\ (Move(h, q) \/ Done(h))
          BY <1>1, <2>2 DEF Requests, ReadToken
    <3> HIDE DEF q
    <3>2. QED
          BY <1>4, <2>1, <3>1
  <2>3. CASE ReadAccount(h)
    <3> DEFINE q == [req[h] EXCEPT !.pc = "act", !.teams = TeamsOf(req[h].admin)]
    <3>1. q.pc = "act" /\ (Move(h, q) \/ Done(h) \/ Goto(h, "drop"))
          BY <1>1, <2>3 DEF Requests, ReadAccount
    <3> HIDE DEF q
    <3>2. QED
          BY <1>3, <1>4, <2>1, <3>1
  <2>4. CASE DropToken(h)
        BY <1>4, <2>1, <2>4 DEF DropToken
  <2>5. QED
        BY <1>7, <2>2, <2>3, <2>4 DEF Authenticate
<1>8. CASE LogOut(h) \/ WriteRole(h) \/ WriteAdmin(h) \/ WriteTeam(h)
  <2>1. Done(h) /\ UNCHANGED <<record, missed>>
        BY <1>8 DEF LogOut, WriteRole, WriteAdmin, WriteTeam, history
  <2>2. QED
        BY <1>4, <2>1
<1>9. CASE LoadRecord(h)
  <2>1. (Goto(h, "write") \/ Done(h)) /\ UNCHANGED <<record, missed>>
        BY <1>9 DEF LoadRecord, stores, history
  <2>2. QED
        BY <1>3, <1>4, <2>1
<1>10. QED
      BY <1>5, <1>6, <1>7, <1>8, <1>9

LEMMA NextCounts == IInv /\ CountsFit /\ [Next]_vars => CountsFit'
<1> SUFFICES ASSUME IInv, CountsFit, [Next]_vars
             PROVE  CountsFit'
    OBVIOUS
<1>1. ASSUME NEW h \in Handlers, SetLive(h)
      PROVE  CountsFit'
  <2>1. /\ req[h].x \in Known(record) /\ req[h].change \in BOOLEAN /\ Done(h)
        /\ Mark(req[h].x, req[h].change) \/ UNCHANGED <<record, missed>>
        BY <1>1 DEF SetLive, At, IInv, RequestsFit, Fit
  <2>2. /\ Others(h) /\ req'[h] = Idle
        /\ \A g \in Handlers : req'[g] = req[g] \/ req'[g] = Idle
        BY <2>1 DEF Done, Move, Others, IInv, TypeOK
  <2>3. CASE Mark(req[h].x, req[h].change)
        BY <2>1, <2>2, <2>3, MarkCounts
  <2>4. CASE UNCHANGED <<record, missed>>
        BY <2>2, <2>4, CountsKept, IdleFits
  <2>5. QED
        BY <2>1, <2>3, <2>4
<1>2. ASSUME NEW r \in Records, SyncSession(r)
      PROVE  CountsFit'
  <2>1. /\ r \in Known(record) /\ (r \in running) \in BOOLEAN /\ Mark(r, r \in running)
        /\ \A g \in Handlers : req'[g] = req[g]
        BY <1>2 DEF SyncSession
  <2>2. QED
        BY <2>1, MarkCounts
<1>3. ASSUME UNCHANGED <<record, missed>>,
             \A h \in Handlers : req'[h] = req[h] \/ req'[h] = Idle
      PROVE  CountsFit'
      BY <1>3, IdleFits DEF CountsFit, CountFits, LiveOf, Known
<1>4. ASSUME \/ \E a \in Admins : ExpireWindow(a)
             \/ \E k \in Tokens : ExpireToken(k)
             \/ Restart
             \/ UNCHANGED vars
      PROVE  CountsFit'
  <2>1. /\ UNCHANGED <<record, missed>>
        /\ \A h \in Handlers : req'[h] = req[h] \/ req'[h] = Idle
        BY <1>4 DEF ExpireWindow, ExpireToken, Restart, vars, stores, history
  <2>2. QED
        BY <1>3, <2>1
<1>5. QED
      BY <1>1, <1>2, <1>4, DeletionCounts, RowsCount, OtherStepsCount DEF Next, Step, Act

\* A deletion takes its team from the rows that are live and that it has not seen.
LEMMA DetachedWereMissed ==
    ASSUME IInv, CountsFit, [Next]_vars, NEW r \in Known(record), record[r].live,
           record'[r].team # record[r].team
    PROVE  r \in missed
<1>1. r \in Records /\ record[r] \in Owned
      BY DEF IInv, TypeOK, Known
<1>2. ASSUME NEW h \in Handlers, EraseTeam(h)
      PROVE  r \in missed
  <2>1. record[r].team = req[h].x
        BY <1>1, <1>2 DEF EraseTeam, Detached
  <2>2. r \in LiveOf(req[h].x, Records \ Retros) \/ r \in LiveOf(req[h].x, Retros)
        BY <1>1, <2>1 DEF LiveOf
  <2>3. CountFits(req[h]) /\ req[h].pc = "erase"
        BY <1>2 DEF CountsFit, EraseTeam, At
  <2>4. QED
        BY <2>2, <2>3 DEF CountFits
<1>3. ASSUME NEW h \in Handlers, InsertRecord(h)
      PROVE  FALSE
  <2>1. UNCHANGED record \/ req[h].x # r
        BY <1>3 DEF InsertRecord
  <2>2. QED
        BY <1>1, <1>3, <2>1 DEF InsertRecord, IInv, TypeOK
<1>4. ASSUME NEW q \in Known(record), NEW live \in BOOLEAN, Mark(q, live)
      PROVE  FALSE
  <2>1. /\ record'[q].team = record[q].team
        /\ \A p \in Records \ {q} : record'[p] = record[p]
        BY <1>4, MarkedRows
  <2>2. QED
        BY <1>1, <2>1
<1>5. ASSUME NEW h \in Handlers, SetLive(h)
      PROVE  FALSE
  <2>1. /\ req[h].x \in Known(record) /\ req[h].change \in BOOLEAN
        /\ Mark(req[h].x, req[h].change) \/ UNCHANGED record
        BY <1>5 DEF SetLive, At, IInv, RequestsFit, Fit
  <2>2. QED
        BY <1>4, <2>1
<1>6. ASSUME NEW q \in Records, SyncSession(q)
      PROVE  FALSE
  <2>1. q \in Known(record) /\ (q \in running) \in BOOLEAN /\ Mark(q, q \in running)
        BY <1>6 DEF SyncSession
  <2>2. QED
        BY <1>4, <2>1
<1>7. ASSUME NEW h \in Handlers, Arrive(h)
      PROVE  FALSE
      BY <1>7, EachArrives DEF Arriving, Begin, stores
<1>8. ASSUME NEW h \in Handlers, Step(h), ~EraseTeam(h), ~InsertRecord(h), ~SetLive(h)
      PROVE  FALSE
      BY <1>8 DEF Step, Login, Authenticate, Act, CheckLimit, CheckPassword, ReadPrincipal,
         ClearFailures, IssueToken, CountFailure, SetWindow, ReadToken, ReadAccount, DropToken,
         LogOut, WriteRole, WriteAdmin, WriteTeam, FindTeam, CountSessions, CountRetros,
         RaiseVersions, LoadRecord, stores
<1>9. QED
      BY <1>2, <1>3, <1>5, <1>6, <1>7, <1>8 DEF Next, ExpireWindow, ExpireToken, Restart, vars,
         stores

\* However starts, finishes, synchronisations and deletions of teams are interleaved
\* (delete_team counts without a lock, cms_store/sessions.py marks sessions later), a
\* session or retrospective whose row is live loses its team only if it went live after
\* its kind was counted.
THEOREM OnlyMissedAreDetached == Spec => OnlyMissedDetached
<1>1. Init => CountsFit
      BY IdleFits DEF Init, CountsFit, CountFits
<1>2. Spec => [](IInv /\ CountsFit)
      BY <1>1, InitIInv, NextKeeps, StutterKeeps, NextCounts, PTL DEF Spec
<1>3. IInv /\ CountsFit /\ [Next]_vars =>
        [ \A r \in Known(record) :
            record[r].live /\ record'[r].team # record[r].team => r \in missed ]_vars
      BY DetachedWereMissed
<1>4. QED
      BY <1>2, <1>3, PTL DEF Spec, OnlyMissedDetached

=============================================================================
