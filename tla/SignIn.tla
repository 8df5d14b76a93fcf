------------------------------- MODULE SignIn -------------------------------
(***************************************************************************)
(* Accounts, sessions and the sign-in limiter (app/main.py, app/admin.py,  *)
(* app/security.py, app/db.py).                                            *)
(*                                                                         *)
(* A session is a signed cookie that carries the user's id and the         *)
(* password_version it was issued under; there is no table of sessions.    *)
(* Web processes share the users table, one failure counter per account    *)
(* and one row per password verification under way (a lease). An account   *)
(* comes from the seed, from an administrator or from an external identity.*)
(*                                                                         *)
(* Time is kept as what has run out: a counting window, a cooldown, a      *)
(* lease. A request is one thread of some web process, and may die in it.  *)
(***************************************************************************)
EXTENDS Naturals, FiniteSets

CONSTANTS
  Users,          \* account ids, never used twice (AUTOINCREMENT)
  Founders,       \* the administrators there are at first
  Subjects,       \* external identities
  Requests,
  None,
  Limit,          \* login_account_attempt_limit
  MaxConcurrency, \* login_verification_max_concurrency
  MaxRequests,    \* bound: requests in a behaviour
  MaxAttempts,    \* bound: OIDC attempts started
  MaxRestarts,    \* bound: process starts
  Kinds           \* what the requests ask for

ASSUME AccountAssumption == Founders \subseteq Users /\ None \notin Users \cup Subjects
ASSUME LimitAssumption   == Limit \in Nat \ {0} /\ MaxConcurrency \in Nat \ {0}
ASSUME BoundAssumption   == {MaxRequests, MaxAttempts, MaxRestarts} \subseteq Nat

VARIABLES
  account,   \* users and external_identities, a row per id
  bucket,    \* login_rate_limits, per account
  leases,    \* login_verification_leases: the account of the row a request inserted
  expired,   \* the requests whose row has run out
  sessions,  \* the cookies browsers hold: account and password_version
  cookie,    \* the OIDC state cookie: the attempt it belongs to, or 0
  spent,     \* the OIDC attempts whose code the provider has exchanged
  request,   \* what each request is doing
  count      \* bounded events so far

rows   == <<account, bucket>>
limits == <<leases, expired>>
oidc   == <<cookie, spent>>
vars   == <<rows, limits, sessions, oidc, request, count>>

-----------------------------------------------------------------------------
Version  == Nat
Account  == [st : {"unused", "live", "deleted"}, seed : BOOLEAN, admin : BOOLEAN,
             forced : BOOLEAN, password : {"default", "own", "random"},
             subject : Subjects \cup {None}, version : Version]
Unused   == [st |-> "unused", seed |-> FALSE, admin |-> FALSE, forced |-> FALSE,
             password |-> "own", subject |-> None, version |-> 0]
Local(admin) == [Unused EXCEPT !.st = "live", !.admin = admin, !.version = 1]
Bucket   == [failures : 0 .. Limit, window : BOOLEAN, blocked : BOOLEAN]
NoBucket == [failures |-> 0, window |-> FALSE, blocked |-> FALSE]
Session  == [user : Users, version : Version]
Request  == [kind : {"none", "login", "change", "reset", "toggle", "delete", "create",
                     "header", "oidc"},
             pc : {"idle", "lease", "recheck", "verify", "count", "clear", "release",
                   "leave", "issue", "confirm", "read", "write", "exchange", "look",
                   "provision", "map"},
             user : Users \cup {None}, subject : Subjects \cup {None},
             attempt : 0 .. MaxAttempts,  \* OIDC
             flag : BOOLEAN,       \* the is_admin to write
             version : Version,    \* the version to sign
             alone : BOOLEAN,      \* history: nobody else could verify the account
             stale : BOOLEAN]      \* history: roles it read have changed since
Rest     == [kind |-> "none", pc |-> "idle", user |-> None, subject |-> None, attempt |-> 0,
             flag |-> FALSE, version |-> 0, alone |-> FALSE, stale |-> FALSE]

TypeOK ==
  /\ account \in [Users -> Account]
  /\ bucket \in [Users -> Bucket]
  /\ leases \in [Requests -> Users \cup {None}]
  /\ expired \subseteq {r \in Requests : leases[r] # None}
  /\ \A q, r \in Requests : q # r /\ leases[q] = leases[r] => leases[q] = None
  /\ sessions \subseteq Session
  /\ cookie \in 0 .. MaxAttempts /\ spent \subseteq 1 .. MaxAttempts
  /\ request \in [Requests -> Request]
  /\ count \in [requests : 0 .. MaxRequests, attempts : 0 .. MaxAttempts,
                restarts : 0 .. MaxRestarts]

Init ==
  /\ \E admin \in Founders :
       account = [u \in Users |->
                    IF u \in Founders THEN [Local(TRUE) EXCEPT !.seed = (u = admin)]
                    ELSE Unused]
  /\ bucket = [u \in Users |-> NoBucket]
  /\ leases = [r \in Requests |-> None]
  /\ expired = {}
  /\ sessions = [user : Founders, version : {1}]
  /\ cookie = 0 /\ spent = {}
  /\ request = [r \in Requests |-> Rest]
  /\ count = [requests |-> 0, attempts |-> 0, restarts |-> 0]

Live(u)  == account[u].st = "live"
Admins   == {u \in Users : Live(u) /\ account[u].admin}

\* current_user: the account is there and the cookie is of its current password.
Accepts(t) == Live(t.user) /\ t.version = account[t.user].version

-----------------------------------------------------------------------------
(* How a request begins and ends.                                          *)

Begin(r, kind, pc, user) ==
  /\ request[r].pc = "idle" /\ leases[r] = None
  /\ kind \in Kinds
  /\ count.requests < MaxRequests
  /\ request' = [request EXCEPT ![r] = [Rest EXCEPT !.kind = kind, !.pc = pc, !.user = user]]

Counted == count' = [count EXCEPT !.requests = @ + 1]
Goto(r, pc) == request' = [request EXCEPT ![r].pc = pc]
End(r) == request' = [request EXCEPT ![r] = Rest]

\* An account's own page needs a session.
BeginChange(r) ==
  /\ \E t \in sessions : Accepts(t) /\ Begin(r, "change", "confirm", t.user)
  /\ Counted
  /\ UNCHANGED <<rows, limits, sessions, oidc>>

\* require_admin, and require_login's pin on an account that must change its
\* password; the actions refuse the actor's own account.
BeginAdmin(r, u) ==
  /\ \E t \in sessions : Accepts(t) /\ account[t.user].admin /\ ~account[t.user].forced
                         /\ t.user # u
  /\ \/ \E kind \in {"toggle", "delete"} : Begin(r, kind, "read", u)
     \/ \E kind \in {"reset", "create"} : Begin(r, kind, "write", u)
  /\ Counted
  /\ UNCHANGED <<rows, limits, sessions, oidc>>

-----------------------------------------------------------------------------
(* Local sign-in and its limiter.                                          *)

\* The first look at the cooldown; a blocked account is answered at once.
BeginLogin(r, u) ==
  /\ ~bucket[u].blocked
  /\ Begin(r, "login", "lease", u)
  /\ Counted
  /\ UNCHANGED <<rows, limits, sessions, oidc>>

\* One transaction: drop what has run out, then one row per account and at most
\* MaxConcurrency of them, or the answer that the server is busy.
AcquireLease(r) ==
  /\ request[r].pc = "lease"
  /\ LET current == [q \in Requests |-> IF q \in expired THEN None ELSE leases[q]]
         busy == \/ \E q \in Requests : current[q] = request[r].user
                 \/ Cardinality({q \in Requests : current[q] # None}) >= MaxConcurrency
     IN IF busy THEN leases' = current /\ End(r)
        ELSE /\ leases' = [current EXCEPT ![r] = request[r].user]
             /\ request' = [request EXCEPT ![r].pc = "recheck", ![r].alone = TRUE]
  /\ expired' = {}
  /\ UNCHANGED <<rows, sessions, oidc, count>>

\* An earlier verification may have failed between the first look and the lease.
Recheck(r) ==
  /\ request[r].pc = "recheck"
  /\ Goto(r, IF bucket[request[r].user].blocked THEN "leave" ELSE "verify")
  /\ UNCHANGED <<rows, limits, sessions, oidc, count>>

\* Seeded bug: the lease is given back before the failure is counted.
VerifyThenLetGo(r) ==
  /\ request[r].pc = "verify"
  /\ \E pc \in {"clear", "count"} : Live(request[r].user) /\ Goto(r, pc)
  /\ leases' = [leases EXCEPT ![r] = None] /\ expired' = expired \ {r}
  /\ UNCHANGED <<rows, sessions, oidc, count>>

\* The password may be right or wrong; a random one never is right, and only
\* failures of an existing account are counted.
Verify(r) ==
  /\ request[r].pc = "verify"
  /\ LET u == request[r].user
     IN \/ Live(u) /\ account[u].password # "random" /\ Goto(r, "clear")
        \/ Live(u) /\ Goto(r, "count")
        \/ ~Live(u) /\ Goto(r, "leave")
  /\ UNCHANGED <<rows, limits, sessions, oidc, count>>

\* _record_login_failure: nothing during a cooldown; a new window starts at one.
CountFailure(r) ==
  /\ request[r].pc = "count"
  /\ LET u == request[r].user
         failures == IF bucket[u].window /\ bucket[u].failures < Limit
                     THEN bucket[u].failures + 1
                     ELSE IF bucket[u].window THEN Limit ELSE 1
     IN /\ bucket' = IF bucket[u].blocked THEN bucket
                     ELSE [bucket EXCEPT ![u] = [failures |-> failures, window |-> TRUE,
                                                 blocked |-> failures >= Limit]]
        /\ request' = [q \in Requests |->
             [request[q] EXCEPT !.pc = IF q = r THEN "leave" ELSE @,
                                !.alone = @ /\ (request[q].user = u => request[r].alone)]]
  /\ UNCHANGED <<account, limits, sessions, oidc, count>>

ClearBucket(r) ==
  /\ request[r].pc = "clear"
  /\ bucket' = [bucket EXCEPT ![request[r].user] = NoBucket]
  /\ Goto(r, "release")
  /\ UNCHANGED <<account, limits, sessions, oidc, count>>

\* The finally of login: delete the row by its own id, if it is still there.
ReleaseLease(r) ==
  /\ request[r].pc \in {"release", "leave"}
  /\ leases' = [leases EXCEPT ![r] = None]
  /\ expired' = expired \ {r}
  /\ IF request[r].pc = "leave" THEN End(r) ELSE Goto(r, "issue")
  /\ UNCHANGED <<rows, sessions, oidc, count>>

\* _set_session_cookie: a sign-in reads the version now (1 without an account),
\* a changed password has brought its own.
IssueSession(r) ==
  /\ request[r].pc = "issue"
  /\ LET u == request[r].user
         version == IF request[r].kind = "change" THEN request[r].version
                    ELSE IF Live(u) THEN account[u].version ELSE 1
     IN sessions' = sessions \cup {[user |-> u, version |-> version]}
  /\ End(r)
  /\ cookie' = IF request[r].kind = "oidc" THEN 0 ELSE cookie
  /\ UNCHANGED <<rows, limits, spent, count>>

\* A cookie grows too old, or its browser signs out (counted as a request).
LoseSession(t) ==
  /\ t \in sessions
  /\ count.requests < MaxRequests
  /\ sessions' = sessions \ {t}
  /\ Counted
  /\ UNCHANGED <<rows, limits, oidc, request>>

\* Time passes.
LeaseRunsOut(r) ==
  /\ leases[r] # None /\ r \notin expired
  /\ expired' = expired \cup {r}
  /\ request' = [request EXCEPT ![r].alone = FALSE]
  /\ UNCHANGED <<rows, leases, sessions, oidc, count>>

WindowPasses(u) ==
  /\ bucket[u].window
  /\ bucket' = [bucket EXCEPT ![u].window = FALSE]
  /\ UNCHANGED <<account, limits, sessions, oidc, request, count>>

CooldownPasses(u) ==
  /\ bucket[u].blocked
  /\ bucket' = [bucket EXCEPT ![u].blocked = FALSE]
  /\ UNCHANGED <<account, limits, sessions, oidc, request, count>>

-----------------------------------------------------------------------------
(* Passwords.                                                              *)

\* Seeded bug: the version stays.
PasswordOnly(u, password) == [account EXCEPT ![u].password = password]

NewPassword(u, password) ==
  [account EXCEPT ![u].password = password, ![u].version = @ + 1]

\* The current password is checked in a transaction of its own; an account with
\* an external identity has none to change.
Confirm(r) ==
  /\ request[r].pc = "confirm"
  /\ \/ Live(request[r].user) /\ account[request[r].user].subject = None /\ Goto(r, "write")
     \/ End(r)
  /\ UNCHANGED <<rows, limits, sessions, oidc, count>>

\* The update raises the version in the row; the actor gets a new cookie for it.
ChangePassword(r) ==
  /\ request[r].pc = "write" /\ request[r].kind = "change"
  /\ LET u == request[r].user IN
       /\ \/ ~Live(u) /\ UNCHANGED account
          \/ Live(u) /\ \E p \in {"own", "default"} :
               account' = [NewPassword(u, p) EXCEPT ![u].forced = FALSE]
       /\ request' = [request EXCEPT ![r].pc = "issue",
                        ![r].version = IF Live(u) THEN account[u].version + 1 ELSE 1]
  /\ UNCHANGED <<bucket, limits, sessions, oidc, count>>

\* An administrator resets another account: nobody gets a cookie.
ResetPassword(r) ==
  /\ request[r].pc = "write" /\ request[r].kind = "reset"
  /\ LET u == request[r].user IN
       IF Live(u) /\ account[u].subject = None
       THEN \E p \in {"own", "default"} : account' = NewPassword(u, p)
       ELSE UNCHANGED account
  /\ End(r)
  /\ UNCHANGED <<bucket, limits, sessions, oidc, count>>

-----------------------------------------------------------------------------
(* Administrators.                                                         *)

CreateUser(r) ==
  /\ request[r].pc = "write" /\ request[r].kind = "create"
  /\ \E admin \in BOOLEAN :
       IF account[request[r].user].st = "unused"
       THEN account' = [account EXCEPT ![request[r].user] = Local(admin)]
       ELSE UNCHANGED account
  /\ End(r)
  /\ UNCHANGED <<bucket, limits, sessions, oidc, count>>

\* Seeded bug: the actor is an administrator, so one is left.
ReadTargetOnly(r) ==
  /\ request[r].pc = "read"
  /\ LET u == request[r].user IN
       IF Live(u) THEN request' = [request EXCEPT ![r].pc = "write",
                                                  ![r].flag = ~account[u].admin]
       ELSE End(r)
  /\ UNCHANGED <<rows, limits, sessions, oidc, count>>

\* The target's role is read and the other administrators are counted; a role
\* that an identity provider manages is not toggled, the last one not removed.
ReadTarget(r) ==
  /\ request[r].pc = "read"
  /\ LET u == request[r].user IN
       IF /\ Live(u)
          /\ request[r].kind = "toggle" => account[u].subject = None
          /\ account[u].admin => Admins \ {u} # {}
       THEN request' = [request EXCEPT ![r].pc = "write", ![r].flag = ~account[u].admin]
       ELSE End(r)
  /\ UNCHANGED <<rows, limits, sessions, oidc, count>>

\* What a change of u's role does to requests that have read: those that counted u
\* among the administrators, or found u to be none, no longer know better.
Outdated(u, granted) ==
  [q \in Requests |-> [request[q] EXCEPT !.stale =
     @ \/ (request[q].pc = "write" /\ (granted => request[q].user = u))]]

\* The write does not look again.
ToggleAdmin(r) ==
  /\ request[r].pc = "write" /\ request[r].kind = "toggle"
  /\ LET u == request[r].user IN
       /\ account' = IF Live(u) THEN [account EXCEPT ![u].admin = request[r].flag] ELSE account
       /\ request' = [Outdated(u, request[r].flag) EXCEPT ![r] = Rest]
  /\ UNCHANGED <<bucket, limits, sessions, oidc, count>>

\* The account's rows go by cascade, its failure counter and cookies stay.
DeleteUser(r) ==
  /\ request[r].pc = "write" /\ request[r].kind = "delete"
  /\ LET u == request[r].user IN
       /\ account' = [account EXCEPT ![u].st = "deleted", ![u].subject = None,
                                     ![u].admin = FALSE, ![u].seed = FALSE]
       /\ request' = [Outdated(u, FALSE) EXCEPT ![r] = Rest]
  /\ UNCHANGED <<bucket, limits, sessions, oidc, count>>

-----------------------------------------------------------------------------
(* External identities: a trusted proxy's header, or OIDC.                 *)

\* The proxy's address, secret and subject were accepted.
BeginHeader(r, s) ==
  /\ request[r].pc = "idle" /\ leases[r] = None
  /\ "header" \in Kinds
  /\ count.requests < MaxRequests
  /\ \E groups \in BOOLEAN :
       request' = [request EXCEPT ![r] = [Rest EXCEPT !.kind = "header", !.pc = "look",
                                                      !.subject = s, !.flag = groups]]
  /\ Counted
  /\ UNCHANGED <<rows, limits, sessions, oidc>>

\* /auth/oidc/login sends the browser away with a cookie for this attempt only.
BeginOidc ==
  /\ "oidc" \in Kinds
  /\ count.attempts < MaxAttempts
  /\ cookie' = count.attempts + 1
  /\ count' = [count EXCEPT !.attempts = @ + 1]
  /\ UNCHANGED <<rows, limits, sessions, spent, request>>

\* The state that comes back is compared with the one in the signed cookie.
StateMatches(i) == cookie = i

\* The browser comes back for attempt i, perhaps again, perhaps in another tab.
Callback(r, i) ==
  /\ request[r].pc = "idle" /\ leases[r] = None
  /\ count.requests < MaxRequests
  /\ i \in 1 .. count.attempts
  /\ IF StateMatches(i)
     THEN /\ request' = [request EXCEPT ![r] = [Rest EXCEPT !.kind = "oidc", !.pc = "exchange",
                                                             !.attempt = i]]
          /\ UNCHANGED cookie
     ELSE cookie' = 0 /\ UNCHANGED request
  /\ Counted
  /\ UNCHANGED <<rows, limits, sessions, spent>>

\* The provider takes a code once; the token's issuer, audience, nonce and times
\* must hold, or the attempt is rejected and its cookie deleted.
Exchange(r) ==
  /\ request[r].pc = "exchange"
  /\ \/ /\ request[r].attempt \notin spent
        /\ spent' = spent \cup {request[r].attempt}
        /\ \E s \in Subjects, groups \in BOOLEAN :
             request' = [request EXCEPT ![r].pc = "look", ![r].subject = s, ![r].flag = groups]
        /\ UNCHANGED cookie
     \/ End(r) /\ cookie' = 0 /\ UNCHANGED spent
  /\ UNCHANGED <<rows, limits, sessions, count>>

\* _external_auth_login finds the identity, or an account is to be provisioned;
\* without auto-provisioning the identity is refused.
LookUp(r) ==
  /\ request[r].pc = "look"
  /\ \/ \E u \in Users : /\ Live(u) /\ account[u].subject = request[r].subject
                         /\ request' = [request EXCEPT ![r].pc = "map", ![r].user = u]
     \/ /\ \A u \in Users : ~(Live(u) /\ account[u].subject = request[r].subject)
        /\ Goto(r, "provision") \/ End(r)
  /\ UNCHANGED <<rows, limits, sessions, oidc, count>>

\* Seeded bug: the user's insert survives when the identity's is refused.
KeepsUser(r, taken) ==
  \E u \in Users : /\ account[u].st = "unused"
                   /\ account' = [account EXCEPT ![u] =
                        [Local(request[r].flag) EXCEPT !.password = "random"]]

\* The savepoint is rolled back when another request has inserted the identity.
RollsBack(r, taken) == UNCHANGED account

\* Insert user and identity; UNIQUE(provider, subject) decides between two.
Provision(r) ==
  /\ request[r].pc = "provision"
  /\ LET taken == {u \in Users : Live(u) /\ account[u].subject = request[r].subject} IN
       \/ /\ taken = {}
          /\ \E u \in Users :
               /\ account[u].st = "unused"
               /\ account' = [account EXCEPT ![u] =
                    [Local(request[r].flag) EXCEPT !.password = "random",
                                                   !.subject = request[r].subject]]
               /\ request' = [request EXCEPT ![r].pc = "issue", ![r].user = u]
       \/ /\ taken # {}
          /\ RollsBack(r, taken)
          /\ \E u \in taken : request' = [request EXCEPT ![r].pc = "map", ![r].user = u]
  /\ UNCHANGED <<bucket, limits, sessions, oidc, count>>

\* The groups decide the role at every sign-in. An account deleted meanwhile
\* ends the request with an error or with a cookie nobody accepts.
MapRole(r) ==
  /\ request[r].pc = "map"
  /\ LET u == request[r].user IN
       IF Live(u) /\ account[u].admin # request[r].flag
       THEN /\ account' = [account EXCEPT ![u].admin = request[r].flag]
            /\ request' = [Outdated(u, request[r].flag) EXCEPT ![r].pc = "issue"]
       ELSE UNCHANGED account /\ Goto(r, "issue")
  /\ UNCHANGED <<bucket, limits, sessions, oidc, count>>

-----------------------------------------------------------------------------
\* A web process dies in a request; a lease it holds stays.
Die(r) ==
  /\ request[r].pc # "idle"
  /\ End(r)
  /\ UNCHANGED <<rows, limits, sessions, oidc, count>>

\* init_db of every start: the seeded administrator is there, and must change
\* its password while it is the default one.
Restart ==
  /\ count.restarts < MaxRestarts
  /\ LET flagged(row) == [row EXCEPT !.forced = @ \/ (/\ row.seed /\ row.password = "default"
                                                      /\ row.subject = None)]
         present == \E u \in Users : Live(u) /\ account[u].seed
     IN IF present THEN account' = [u \in Users |-> flagged(account[u])]
        ELSE \E u \in Users :
               /\ account[u].st = "unused"
               /\ account' = [account EXCEPT ![u] = [Local(TRUE) EXCEPT !.seed = TRUE,
                                !.forced = TRUE, !.password = "default"]]
  /\ count' = [count EXCEPT !.restarts = @ + 1]
  /\ UNCHANGED <<bucket, limits, sessions, oidc, request>>

Serve(r) ==
  \/ \E u \in Users : BeginLogin(r, u) \/ BeginAdmin(r, u)
  \/ AcquireLease(r) \/ Recheck(r) \/ Verify(r) \/ CountFailure(r) \/ ClearBucket(r)
  \/ ReleaseLease(r) \/ IssueSession(r)
  \/ BeginChange(r) \/ Confirm(r) \/ ChangePassword(r) \/ ResetPassword(r)
  \/ CreateUser(r) \/ ReadTarget(r) \/ ToggleAdmin(r) \/ DeleteUser(r)
  \/ \E s \in Subjects : BeginHeader(r, s)
  \/ \E i \in 1 .. MaxAttempts : Callback(r, i)
  \/ Exchange(r) \/ LookUp(r) \/ Provision(r) \/ MapRole(r)
  \/ Die(r) \/ LeaseRunsOut(r)

Next ==
  \/ \E r \in Requests : Serve(r)
  \/ BeginOidc
  \/ \E t \in sessions : LoseSession(t)
  \/ \E u \in Users : WindowPasses(u) \/ CooldownPasses(u)
  \/ Restart

Spec == Init /\ [][Next]_vars

-----------------------------------------------------------------------------
(* Properties.                                                             *)

\* The last administrator is removed only by an identity provider's groups or by
\* a request that another change of roles has overtaken since it counted: neither a
\* demotion nor a deletion, each of another account, leaves nobody in charge by itself.
LastAdminGuard ==
  [][Admins # {} /\ Admins' = {} =>
       \E r \in Requests :
         \/ request[r].pc = "map" /\ request'[r].pc = "issue"
         \/ request[r].pc = "write" /\ request'[r].pc = "idle" /\ request[r].stale]_vars

\* Once a cookie is refused it is refused for good, and after a user changed the
\* password every cookie given out before is refused, the other devices' included.
RevokedForGood ==
  [][\A t \in sessions : Accepts(t)' =>
       /\ Accepts(t)
       /\ \A r \in Requests :
            request[r].kind = "change" /\ request[r].pc = "write" /\ request'[r].pc = "issue"
              => request[r].user # t.user]_vars

\* Two verifications of one account, or more than MaxConcurrency in all, happen
\* only when one of them has outlived its lease.
SerialVerification ==
  LET busy == {r \in Requests : /\ request[r].pc \in {"recheck", "verify", "count", "clear"}
                                /\ request[r].alone}
  IN /\ \A q, r \in busy : request[q].user = request[r].user => q = r
     /\ Cardinality(busy) <= MaxConcurrency

\* A wrong password is always counted: no verification that kept its lease ends
\* during a cooldown, when the counter would not move.
FailuresCount ==
  \A r \in Requests :
    request[r].pc = "count" /\ request[r].alone => ~bucket[request[r].user].blocked

\* An external identity has one account, whatever the order of two first sign-ins.
OneAccountPerIdentity ==
  \A u, v \in Users : Live(u) /\ Live(v) /\ account[u].subject = account[v].subject
                         => u = v \/ account[u].subject = None

\* An account provisioned for an identity, which has a password nobody knows, always
\* has the identity: nobody could sign in to one without (app/main.py _external_auth_login).
ProvisionedIsLinked ==
  \A u \in Users : Live(u) /\ account[u].password = "random" => account[u].subject # None

\* A browser signs in by the OIDC attempt it started last, so an old callback
\* address never completes a sign-in.
OwnAttempt ==
  [][\A r \in Requests : request[r].pc = "idle" /\ request'[r].pc = "exchange"
       => request'[r].attempt = count.attempts]_vars

\* The limiter keeps its two promises to the owner of an account: guesses are tried
\* one after another, and every one of them brings the cooldown nearer
\* (app/main.py login).
LimiterHolds == SerialVerification /\ FailuresCount

\* Who signs in through an identity provider gets the one account of that identity,
\* by the attempt this browser began last (app/main.py _external_auth_login, oidc_callback).
OwnIdentity == [](OneAccountPerIdentity /\ ProvisionedIsLinked) /\ OwnAttempt
=============================================================================
