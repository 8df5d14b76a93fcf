---------------------------- MODULE SignInProofs ----------------------------
(* Proofs about SignIn. *)
EXTENDS SignIn, FiniteSetTheorems, TLAPS

-----------------------------------------------------------------------------
(* The shape of a request, step by step.                                   *)

LoginPC == {"lease", "recheck", "verify", "count", "clear", "release", "leave"}

\* What a request is and has at each of its steps.
WellFormed(q) ==
  /\ q.pc \in LoginPC => q.kind = "login"
  /\ q.pc = "confirm" => q.kind = "change"
  /\ q.pc = "read" => q.kind \in {"toggle", "delete"}
  /\ q.pc = "write" => q.kind \in {"change", "reset", "toggle", "delete", "create"}
  /\ q.pc = "exchange" => q.kind = "oidc" /\ q.attempt \in 1 .. MaxAttempts
  /\ q.pc \in {"look", "provision", "map"} =>
       q.kind \in {"header", "oidc"} /\ q.subject \in Subjects
  /\ q.pc \notin {"idle", "exchange", "look", "provision"} => q.user \in Users

Shape == TypeOK /\ \A r \in Requests : WellFormed(request[r])

LEMMA RestShaped == Rest \in Request /\ WellFormed(Rest) /\ Rest.pc = "idle"
  BY BoundAssumption DEF Rest, Request, WellFormed, LoginPC, Version

LEMMA LocalTyped ==
  ASSUME NEW admin \in BOOLEAN
  PROVE  Unused \in Account /\ Local(admin) \in Account
  BY DEF Local, Unused, Account, Version

\* One request moves on, the others stay.
LEMMA OneMoves ==
  ASSUME Shape, NEW r \in Requests, NEW next \in Request, WellFormed(next),
         request' = [request EXCEPT ![r] = next]
  PROVE  /\ request' \in [Requests -> Request]
         /\ \A q \in Requests : WellFormed(request'[q])
  BY DEF Shape, TypeOK

LEMMA GotoShaped ==
  ASSUME Shape, NEW r \in Requests, NEW pc, Goto(r, pc),
         [request[r] EXCEPT !.pc = pc] \in Request, WellFormed([request[r] EXCEPT !.pc = pc])
  PROVE  /\ request' \in [Requests -> Request]
         /\ \A q \in Requests : WellFormed(request'[q])
<1>1. request' = [request EXCEPT ![r] = [request[r] EXCEPT !.pc = pc]]
  BY DEF Goto
<1>. QED
  BY <1>1, OneMoves

LEMMA EndShaped ==
  ASSUME Shape, NEW r \in Requests, End(r)
  PROVE  /\ request' \in [Requests -> Request]
         /\ \A q \in Requests : WellFormed(request'[q])
  BY OneMoves, RestShaped DEF End

LEMMA BeginShaped ==
  ASSUME Shape, NEW r \in Requests, NEW kind, NEW pc, NEW u \in Users, Begin(r, kind, pc, u),
         \/ kind = "login" /\ pc = "lease"
         \/ kind = "change" /\ pc = "confirm"
         \/ kind \in {"toggle", "delete"} /\ pc = "read"
         \/ kind \in {"reset", "create"} /\ pc = "write"
  PROVE  /\ request' \in [Requests -> Request]
         /\ \A q \in Requests : WellFormed(request'[q])
<1>. DEFINE next == [Rest EXCEPT !.kind = kind, !.pc = pc, !.user = u]
<1>1. request' = [request EXCEPT ![r] = next]
  BY DEF Begin
<1>2. next \in Request /\ WellFormed(next)
  BY RestShaped DEF Rest, Request, WellFormed, LoginPC
<1>. QED
  BY <1>1, <1>2, OneMoves

LEMMA CountedTyped ==
  ASSUME Shape, Counted, count.requests < MaxRequests
  PROVE  count' \in [requests : 0 .. MaxRequests, attempts : 0 .. MaxAttempts,
                     restarts : 0 .. MaxRestarts]
  BY BoundAssumption DEF Shape, TypeOK, Counted

\* A step of Shape: the rest of TypeOK, where only requests move.
LEMMA RequestsMove ==
  ASSUME Shape, request' \in [Requests -> Request],
         \A q \in Requests : WellFormed(request'[q]),
         UNCHANGED <<rows, limits, sessions, oidc>>,
         count' \in [requests : 0 .. MaxRequests, attempts : 0 .. MaxAttempts,
                     restarts : 0 .. MaxRestarts]
  PROVE  Shape'
  BY DEF Shape, TypeOK, rows, limits, oidc, WellFormed

\* A change of roles marks the requests it overtakes and moves only its own.
LEMMA OutdatedShaped ==
  ASSUME Shape, NEW r \in Requests, NEW u \in Users, NEW granted,
         \/ request' = [Outdated(u, granted) EXCEPT ![r] = Rest]
         \/ request[r].pc = "map" /\ request' = [Outdated(u, granted) EXCEPT ![r].pc = "issue"]
  PROVE  /\ request' \in [Requests -> Request]
         /\ \A q \in Requests : WellFormed(request'[q])
<1>. DEFINE mark(q) == [request[q] EXCEPT !.stale =
                          @ \/ (request[q].pc = "write" /\ (granted => request[q].user = u))]
            marked(q) == [mark(q) EXCEPT !.pc = "issue"]
<1>1. \A q \in Requests : mark(q) \in Request /\ WellFormed(mark(q))
  <2> SUFFICES ASSUME NEW q \in Requests PROVE mark(q) \in Request /\ WellFormed(mark(q))
    OBVIOUS
  <2>1. request[q] \in Request /\ WellFormed(request[q])
    BY DEF Shape, TypeOK
  <2>2. \A b \in BOOLEAN : LET n == [request[q] EXCEPT !.stale = b] IN
          n \in Request /\ WellFormed(n)
    <3> SUFFICES ASSUME NEW b \in BOOLEAN
                 PROVE  LET n == [request[q] EXCEPT !.stale = b] IN n \in Request /\ WellFormed(n)
      OBVIOUS
    <3>1. [request[q] EXCEPT !.stale = b] \in Request
      BY <2>1 DEF Request
    <3>2. WellFormed([request[q] EXCEPT !.stale = b])
      BY <2>1 DEF Request, WellFormed
    <3>. QED
      BY <3>1, <3>2
  <2>. QED
    BY <2>2
<1>2. request[r].pc = "map" => marked(r) \in Request /\ WellFormed(marked(r))
  <2> SUFFICES ASSUME request[r].pc = "map" PROVE marked(r) \in Request /\ WellFormed(marked(r))
    OBVIOUS
  <2>1. mark(r).pc = "map" /\ mark(r) \in Request /\ WellFormed(mark(r))
    BY <1>1 DEF Shape, TypeOK, Request
  <2>. HIDE DEF mark
  <2>2. marked(r) \in Request
    BY <2>1 DEF Request
  <2>3. WellFormed(marked(r))
    BY <2>1 DEF Request, WellFormed, LoginPC
  <2>. QED
    BY <2>2, <2>3
<1>3. Outdated(u, granted) = [q \in Requests |-> mark(q)]
  BY DEF Outdated
<1>4. \/ request' = [q \in Requests |-> IF q = r THEN Rest ELSE mark(q)]
      \/ request[r].pc = "map" /\ request' = [q \in Requests |-> IF q = r THEN marked(r) ELSE mark(q)]
  BY <1>3
<1>. HIDE DEF mark, marked
<1>. QED
  BY <1>1, <1>2, <1>4, RestShaped

LEMMA NewPasswordTyped ==
  ASSUME Shape, NEW u \in Users, NEW p \in {"own", "default"}
  PROVE  NewPassword(u, p) \in [Users -> Account]
<1>. DEFINE v == account[u].version + 1
<1>1. v \in Nat /\ account[u] \in Account
  BY DEF Shape, TypeOK, Account, Version
<1>2. NewPassword(u, p) = [account EXCEPT ![u] = [account[u] EXCEPT !.password = p, !.version = v]]
  BY DEF NewPassword, Shape, TypeOK
<1>. HIDE DEF v
<1>3. [account[u] EXCEPT !.password = p, !.version = v] \in Account
  BY <1>1 DEF Account, Version
<1>. QED
  BY <1>2, <1>3 DEF Shape, TypeOK

LEMMA ShapeInductive ==
  ASSUME Shape, [Next]_vars
  PROVE  Shape'
<1>a. \A r \in Requests : request[r] \in Request /\ WellFormed(request[r])
  BY DEF Shape, TypeOK
<1>b. count \in [requests : 0 .. MaxRequests, attempts : 0 .. MaxAttempts,
                 restarts : 0 .. MaxRestarts]
  BY DEF Shape, TypeOK
<1>1. ASSUME NEW r \in Requests, NEW u \in Users, BeginLogin(r, u) PROVE Shape'
  BY <1>1, BeginShaped, CountedTyped, RequestsMove DEF BeginLogin, Begin
<1>2. ASSUME NEW r \in Requests, NEW u \in Users, BeginAdmin(r, u) PROVE Shape'
  <2>1. PICK kind, pc : /\ Begin(r, kind, pc, u)
                        /\ \/ kind \in {"toggle", "delete"} /\ pc = "read"
                           \/ kind \in {"reset", "create"} /\ pc = "write"
    BY <1>2 DEF BeginAdmin
  <2>. QED
    BY <1>2, <2>1, BeginShaped, CountedTyped, RequestsMove DEF BeginAdmin, Begin
<1>3. ASSUME NEW r \in Requests, BeginChange(r) PROVE Shape'
  <2>1. PICK t \in sessions : Begin(r, "change", "confirm", t.user)
    BY <1>3 DEF BeginChange
  <2>2. t.user \in Users
    BY DEF Shape, TypeOK, Session
  <2>. QED
    BY <1>3, <2>1, <2>2, BeginShaped, CountedTyped, RequestsMove DEF BeginChange, Begin
<1>4. ASSUME NEW r \in Requests, AcquireLease(r) PROVE Shape'
  <2>. DEFINE current == [q \in Requests |-> IF q \in expired THEN None ELSE leases[q]]
              busy == \/ \E q \in Requests : current[q] = request[r].user
                      \/ Cardinality({q \in Requests : current[q] # None}) >= MaxConcurrency
              next == [request[r] EXCEPT !.pc = "recheck", !.alone = TRUE]
  <2>1. request[r].user \in Users /\ next \in Request /\ WellFormed(next)
    BY <1>4, <1>a DEF AcquireLease, WellFormed, LoginPC, Request
  <2>2. /\ expired' = {} /\ UNCHANGED <<rows, sessions, oidc, count>>
        /\ \/ leases' = current /\ End(r)
           \/ /\ ~busy
              /\ leases' = [current EXCEPT ![r] = request[r].user]
              /\ request' = [request EXCEPT ![r] = next]
    BY <1>4 DEF AcquireLease
  <2>3. current \in [Requests -> Users \cup {None}]
    BY DEF Shape, TypeOK
  <2>4. \A p, q \in Requests : p # q /\ current[p] = current[q] => current[p] = None
    BY DEF Shape, TypeOK
  <2>5. /\ leases' \in [Requests -> Users \cup {None}]
        /\ \A p, q \in Requests : p # q /\ leases'[p] = leases'[q] => leases'[p] = None
    <3>1. CASE leases' = current
      BY <2>3, <2>4, <3>1
    <3>2. CASE ~busy /\ leases' = [current EXCEPT ![r] = request[r].user]
      <4>1. \A q \in Requests : current[q] # request[r].user
        BY <3>2
      <4>. HIDE DEF current
      <4>. QED
        BY <2>1, <2>3, <2>4, <3>2, <4>1
    <3>. QED
      BY <2>2, <3>1, <3>2
  <2>6. /\ request' \in [Requests -> Request]
        /\ \A q \in Requests : WellFormed(request'[q])
    BY <2>1, <2>2, OneMoves, EndShaped
  <2>. QED
    BY <2>2, <2>5, <2>6 DEF Shape, TypeOK, rows, oidc
<1>5. ASSUME NEW r \in Requests, NEW pc, Goto(r, pc),
             UNCHANGED <<rows, limits, sessions, oidc, count>>,
             \/ request[r].pc \in LoginPC /\ pc \in LoginPC \cup {"issue"}
             \/ request[r].pc = "confirm" /\ pc = "write"
             \/ request[r].pc = "look" /\ pc = "provision"
             \/ request[r].pc = "map" /\ pc = "issue"
      PROVE  Shape'
  <2>. DEFINE next == [request[r] EXCEPT !.pc = pc]
  <2>1. next \in Request /\ WellFormed(next)
    BY <1>a, <1>5 DEF Request, WellFormed, LoginPC
  <2>. QED
    BY <1>5, <1>b, <2>1, GotoShaped, RequestsMove
<1>6. ASSUME NEW r \in Requests, End(r), UNCHANGED <<rows, limits, sessions, oidc, count>>
      PROVE  Shape'
  BY <1>6, <1>b, EndShaped, RequestsMove
<1>7. ASSUME NEW r \in Requests, CountFailure(r) PROVE Shape'
  <2>. DEFINE u == request[r].user
              failures == IF bucket[u].window /\ bucket[u].failures < Limit
                          THEN bucket[u].failures + 1
                          ELSE IF bucket[u].window THEN Limit ELSE 1
              next == [failures |-> failures, window |-> TRUE, blocked |-> failures >= Limit]
              moved(q) == [request[q] EXCEPT !.pc = IF q = r THEN "leave" ELSE @,
                                !.alone = @ /\ (request[q].user = u => request[r].alone)]
  <2>1. u \in Users
    BY <1>7, <1>a DEF CountFailure, WellFormed
  <2>2. bucket[u] \in Bucket
    BY <2>1 DEF Shape, TypeOK
  <2>3. failures \in 0 .. Limit
    BY <2>2, LimitAssumption DEF Bucket
  <2>4. next \in Bucket
    BY <2>3 DEF Bucket
  <2>5. bucket' \in [Users -> Bucket]
    BY <1>7, <2>4 DEF CountFailure, Shape, TypeOK
  <2>6. \A q \in Requests : moved(q) \in Request /\ WellFormed(moved(q))
    <3> SUFFICES ASSUME NEW q \in Requests PROVE moved(q) \in Request /\ WellFormed(moved(q))
      OBVIOUS
    <3>. DEFINE pc == IF q = r THEN "leave" ELSE request[q].pc
    <3>1. PICK b \in BOOLEAN : b = (request[q].alone /\ (request[q].user = u => request[r].alone))
      OBVIOUS
    <3>2. moved(q) = [request[q] EXCEPT !.pc = pc, !.alone = b]
      BY <3>1
    <3>3. pc \in LoginPC \/ pc = request[q].pc
      BY DEF LoginPC
    <3>4. [request[q] EXCEPT !.pc = pc, !.alone = b] \in Request
      BY <1>a, <3>3 DEF Request, LoginPC
    <3>5. WellFormed([request[q] EXCEPT !.pc = pc, !.alone = b])
      BY <1>a, <1>7 DEF Request, WellFormed, LoginPC, CountFailure
    <3>. QED
      BY <3>2, <3>4, <3>5
  <2>7. request' = [q \in Requests |-> moved(q)]
    BY <1>7 DEF CountFailure
  <2>. HIDE DEF moved
  <2>8. request' \in [Requests -> Request] /\ \A q \in Requests : WellFormed(request'[q])
    BY <2>6, <2>7
  <2>. QED
    BY <1>7, <2>5, <2>8 DEF CountFailure, Shape, TypeOK, limits, oidc
<1>8. ASSUME NEW r \in Requests, ClearBucket(r) PROVE Shape'
  <2>. DEFINE next == [request[r] EXCEPT !.pc = "release"]
  <2>1. next \in Request /\ WellFormed(next)
    BY <1>a, <1>8 DEF ClearBucket, Request, WellFormed, LoginPC
  <2>2. /\ request' \in [Requests -> Request]
        /\ \A q \in Requests : WellFormed(request'[q])
    BY <1>8, <2>1, GotoShaped DEF ClearBucket
  <2>3. NoBucket \in Bucket
    BY LimitAssumption DEF NoBucket, Bucket
  <2>. QED
    BY <1>8, <2>2, <2>3 DEF ClearBucket, Shape, TypeOK, limits, oidc
<1>9. ASSUME NEW r \in Requests, ReleaseLease(r) PROVE Shape'
  <2>. DEFINE next == [request[r] EXCEPT !.pc = "issue"]
  <2>1. next \in Request /\ (request[r].pc = "release" => WellFormed(next))
    BY <1>a, <1>9 DEF ReleaseLease, Request, WellFormed, LoginPC
  <2>2. /\ request' \in [Requests -> Request]
        /\ \A q \in Requests : WellFormed(request'[q])
    BY <1>9, <2>1, GotoShaped, EndShaped DEF ReleaseLease
  <2>. QED
    BY <1>9, <2>2 DEF ReleaseLease, Shape, TypeOK, rows, oidc
<1>10. ASSUME NEW r \in Requests, IssueSession(r) PROVE Shape'
  <2>1. PICK t : sessions' = sessions \cup {t} /\ t \in Session
    <3>1. request[r].user \in Users /\ request[r].version \in Nat
      BY <1>a, <1>10 DEF IssueSession, WellFormed, Request, Version
    <3>2. account[request[r].user].version \in Nat
      BY <3>1 DEF Shape, TypeOK, Account, Version
    <3>. DEFINE t(v) == [user |-> request[r].user, version |-> v]
    <3>3. \E v \in Nat : sessions' = sessions \cup {t(v)}
      BY <1>10, <3>1, <3>2 DEF IssueSession
    <3>4. \A v \in Nat : t(v) \in Session
      BY <3>1 DEF Session, Version
    <3>. QED
      BY <3>3, <3>4
  <2>. QED
    BY <1>10, <2>1, EndShaped, BoundAssumption DEF IssueSession, Shape, TypeOK, rows, limits
<1>11. ASSUME NEW r \in Requests, LeaseRunsOut(r) PROVE Shape'
  <2>. DEFINE next == [request[r] EXCEPT !.alone = FALSE]
  <2>1. next \in Request /\ WellFormed(next)
    BY <1>a DEF Request, WellFormed, LoginPC
  <2>2. request' = [request EXCEPT ![r] = next]
    BY <1>11 DEF LeaseRunsOut
  <2>3. /\ request' \in [Requests -> Request]
        /\ \A q \in Requests : WellFormed(request'[q])
    BY <2>1, <2>2, OneMoves
  <2>. QED
    BY <1>11, <2>3 DEF LeaseRunsOut, Shape, TypeOK, rows, oidc
<1>12. ASSUME NEW u \in Users, WindowPasses(u) \/ CooldownPasses(u) PROVE Shape'
  <2>1. [bucket[u] EXCEPT !.window = FALSE] \in Bucket
    BY DEF Shape, TypeOK, Bucket
  <2>2. [bucket[u] EXCEPT !.blocked = FALSE] \in Bucket
    BY DEF Shape, TypeOK, Bucket
  <2>3. bucket' \in [Users -> Bucket]
    BY <1>12, <2>1, <2>2 DEF WindowPasses, CooldownPasses, Shape, TypeOK
  <2>. QED
    BY <1>12, <2>3 DEF WindowPasses, CooldownPasses, Shape, TypeOK, limits, oidc
<1>13. ASSUME NEW t \in sessions, LoseSession(t) PROVE Shape'
  BY <1>13, CountedTyped DEF LoseSession, Shape, TypeOK, rows, limits, oidc
\* Steps that write the accounts.
<1>14. ASSUME account' \in [Users -> Account], request' \in [Requests -> Request],
              \A q \in Requests : WellFormed(request'[q]),
              UNCHANGED <<bucket, limits, sessions, oidc, count>>
       PROVE  Shape'
  BY <1>14 DEF Shape, TypeOK, limits, oidc
<1>15. ASSUME NEW r \in Requests, ChangePassword(r) PROVE Shape'
  <2>1. PICK u \in Users : u = request[r].user
    BY <1>a, <1>15 DEF ChangePassword, WellFormed
  <2>2. account[u] \in Account /\ account[u].version + 1 \in Nat
    BY DEF Shape, TypeOK, Account, Version
  <2>3. PICK v \in Nat : request' = [request EXCEPT ![r].pc = "issue", ![r].version = v]
    BY <1>15, <2>1, <2>2 DEF ChangePassword
  <2>. DEFINE next == [request[r] EXCEPT !.pc = "issue", !.version = v]
  <2>4. next \in Request
    BY <1>a DEF Request, Version
  <2>5. WellFormed(next)
    BY <1>a, <2>1 DEF WellFormed, LoginPC, Request
  <2>6. request' = [request EXCEPT ![r] = next]
    BY <2>3
  <2>7. account' \in [Users -> Account]
    <3>1. \A p \in {"own", "default"} :
            [NewPassword(u, p) EXCEPT ![u].forced = FALSE] \in [Users -> Account]
      <4> SUFFICES ASSUME NEW p \in {"own", "default"}
                   PROVE  [NewPassword(u, p) EXCEPT ![u].forced = FALSE] \in [Users -> Account]
        OBVIOUS
      <4>1. NewPassword(u, p) \in [Users -> Account]
        BY NewPasswordTyped
      <4>2. \A row \in Account : [row EXCEPT !.forced = FALSE] \in Account
        BY DEF Account
      <4>. QED
        BY <4>1, <4>2
    <3>. QED
      BY <1>15, <2>1, <3>1 DEF ChangePassword, Shape, TypeOK
  <2>. QED
    BY <1>14, <1>15, <2>4, <2>5, <2>6, <2>7, OneMoves DEF ChangePassword
<1>16. ASSUME NEW r \in Requests, ResetPassword(r) PROVE Shape'
  <2>1. PICK u \in Users : u = request[r].user
    BY <1>a, <1>16 DEF ResetPassword, WellFormed
  <2>2. account' \in [Users -> Account]
    BY <1>16, <2>1, NewPasswordTyped DEF ResetPassword, Shape, TypeOK
  <2>. QED
    BY <1>14, <1>16, <2>2, EndShaped DEF ResetPassword
<1>17. ASSUME NEW r \in Requests, CreateUser(r) PROVE Shape'
  <2>1. account' \in [Users -> Account]
    BY <1>17, LocalTyped DEF CreateUser, Shape, TypeOK
  <2>. QED
    BY <1>14, <1>17, <2>1, EndShaped DEF CreateUser
<1>18. ASSUME NEW r \in Requests, ReadTarget(r) PROVE Shape'
  <2>1. PICK u \in Users : u = request[r].user
    BY <1>a, <1>18 DEF ReadTarget, WellFormed
  <2>2. PICK b \in BOOLEAN : b = ~account[u].admin
    OBVIOUS
  <2>. DEFINE next == [request[r] EXCEPT !.pc = "write", !.flag = b]
  <2>3. next \in Request
    BY <1>a DEF Request
  <2>4. WellFormed(next)
    BY <1>a, <1>18, <2>1 DEF ReadTarget, WellFormed, LoginPC, Request
  <2>5. End(r) \/ request' = [request EXCEPT ![r] = next]
    BY <1>18, <2>1, <2>2 DEF ReadTarget
  <2>. QED
    BY <1>18, <1>b, <2>3, <2>4, <2>5, EndShaped, OneMoves, RequestsMove DEF ReadTarget
<1>19. ASSUME NEW r \in Requests, ToggleAdmin(r) \/ DeleteUser(r) PROVE Shape'
  <2>1. PICK u \in Users : u = request[r].user
    BY <1>a, <1>19 DEF ToggleAdmin, DeleteUser, WellFormed
  <2>2. \E granted : request' = [Outdated(u, granted) EXCEPT ![r] = Rest]
    BY <1>19, <2>1 DEF ToggleAdmin, DeleteUser
  <2>3. \A row \in Account, b \in BOOLEAN : [row EXCEPT !.admin = b] \in Account
    BY DEF Account
  <2>4. \A row \in Account : [row EXCEPT !.st = "deleted", !.subject = None, !.admin = FALSE,
                                         !.seed = FALSE] \in Account
    BY DEF Account
  <2>5. request[r].flag \in BOOLEAN
    BY <1>a DEF Request
  <2>6. account' \in [Users -> Account]
    <3>1. account \in [Users -> Account] /\ account[u] \in Account
      BY DEF Shape, TypeOK
    <3>2. CASE ToggleAdmin(r)
      BY <2>1, <2>3, <2>5, <3>1, <3>2 DEF ToggleAdmin
    <3>3. CASE DeleteUser(r)
      <4>. DEFINE gone == [account[u] EXCEPT !.st = "deleted", !.subject = None, !.admin = FALSE,
                                             !.seed = FALSE]
      <4>1. account' = [account EXCEPT ![u] = gone]
        BY <2>1, <3>1, <3>3 DEF DeleteUser
      <4>. QED
        BY <2>4, <3>1, <4>1
    <3>. QED
      BY <1>19, <3>2, <3>3
  <2>7. /\ request' \in [Requests -> Request]
        /\ \A q \in Requests : WellFormed(request'[q])
    BY <2>2, OutdatedShaped
  <2>8. UNCHANGED <<bucket, limits, sessions, oidc, count>>
    BY <1>19 DEF ToggleAdmin, DeleteUser
  <2>. QED
    BY <1>14, <2>6, <2>7, <2>8
<1>20. ASSUME NEW r \in Requests, NEW s \in Subjects, BeginHeader(r, s) PROVE Shape'
  <2>1. PICK groups \in BOOLEAN :
          request' = [request EXCEPT ![r] = [Rest EXCEPT !.kind = "header", !.pc = "look",
                                                         !.subject = s, !.flag = groups]]
    BY <1>20 DEF BeginHeader
  <2>2. [Rest EXCEPT !.kind = "header", !.pc = "look", !.subject = s, !.flag = groups] \in Request
    BY RestShaped DEF Request
  <2>3. WellFormed([Rest EXCEPT !.kind = "header", !.pc = "look", !.subject = s, !.flag = groups])
    BY DEF Rest, WellFormed, LoginPC
  <2>. QED
    BY <1>20, <2>1, <2>2, <2>3, OneMoves, CountedTyped, RequestsMove DEF BeginHeader
<1>21. ASSUME BeginOidc PROVE Shape'
  BY <1>21, BoundAssumption DEF BeginOidc, Shape, TypeOK, rows, limits
<1>22. ASSUME NEW r \in Requests, NEW i \in 1 .. MaxAttempts, Callback(r, i) PROVE Shape'
  <2>. DEFINE next == [Rest EXCEPT !.kind = "oidc", !.pc = "exchange", !.attempt = i]
  <2>1. i \in 0 .. MaxAttempts
    BY BoundAssumption
  <2>2. next \in Request
    BY <2>1, RestShaped DEF Request
  <2>3. WellFormed(next)
    BY DEF Rest, WellFormed, LoginPC
  <2>4. request' \in [Requests -> Request] /\ \A q \in Requests : WellFormed(request'[q])
    BY <1>22, <1>a, <2>2, <2>3, OneMoves DEF Callback, Shape, TypeOK
  <2>. QED
    BY <1>22, <2>4, CountedTyped, BoundAssumption DEF Callback, Shape, TypeOK, rows, limits
<1>23. ASSUME NEW r \in Requests, Exchange(r) PROVE Shape'
  <2>1. CASE End(r) /\ cookie' = 0 /\ UNCHANGED spent
    BY <1>23, <2>1, EndShaped, BoundAssumption DEF Exchange, Shape, TypeOK, rows, limits
  <2>2. CASE /\ spent' = spent \cup {request[r].attempt}
             /\ \E s \in Subjects, groups \in BOOLEAN :
                  request' = [request EXCEPT ![r].pc = "look", ![r].subject = s, ![r].flag = groups]
             /\ UNCHANGED cookie
    <3>1. PICK s \in Subjects, groups \in BOOLEAN :
            request' = [request EXCEPT ![r].pc = "look", ![r].subject = s, ![r].flag = groups]
      BY <2>2
    <3>. DEFINE next == [request[r] EXCEPT !.pc = "look", !.subject = s, !.flag = groups]
    <3>2. next \in Request /\ WellFormed(next)
      BY <1>a, <1>23 DEF Exchange, WellFormed, LoginPC, Request
    <3>3. request' = [request EXCEPT ![r] = next]
      BY <3>1
    <3>4. spent' \subseteq 1 .. MaxAttempts
      <4>1. request[r].attempt \in 1 .. MaxAttempts
        BY <1>23, <1>a DEF Exchange, WellFormed
      <4>. QED
        BY <2>2, <4>1 DEF Shape, TypeOK
    <3>. QED
      BY <1>23, <2>2, <3>2, <3>3, <3>4, OneMoves DEF Exchange, Shape, TypeOK, rows, limits
  <2>. QED
    BY <1>23, <2>1, <2>2 DEF Exchange
<1>24. ASSUME NEW r \in Requests, LookUp(r) PROVE Shape'
  <2>1. CASE \E u \in Users : request' = [request EXCEPT ![r].pc = "map", ![r].user = u]
    <3>1. PICK u \in Users : request' = [request EXCEPT ![r].pc = "map", ![r].user = u]
      BY <2>1
    <3>. DEFINE next == [request[r] EXCEPT !.pc = "map", !.user = u]
    <3>2. next \in Request /\ WellFormed(next)
      BY <1>a, <1>24 DEF LookUp, WellFormed, LoginPC, Request
    <3>3. request' = [request EXCEPT ![r] = next]
      BY <3>1
    <3>. QED
      BY <1>24, <1>b, <3>2, <3>3, OneMoves, RequestsMove DEF LookUp
  <2>. QED
    BY <1>24, <2>1, <1>5, <1>6 DEF LookUp
<1>25. ASSUME NEW r \in Requests, Provision(r) PROVE Shape'
  <2>1. PICK u \in Users, pc \in {"issue", "map"} :
          request' = [request EXCEPT ![r].pc = pc, ![r].user = u]
    BY <1>25 DEF Provision
  <2>. DEFINE next == [request[r] EXCEPT !.pc = pc, !.user = u]
  <2>2. next \in Request /\ WellFormed(next)
    BY <1>a, <1>25 DEF Provision, WellFormed, LoginPC, Request
  <2>3. request' = [request EXCEPT ![r] = next]
    BY <2>1
  <2>4. account' \in [Users -> Account]
    <3>. DEFINE new == [Local(request[r].flag) EXCEPT !.password = "random",
                                                       !.subject = request[r].subject]
    <3>1. new \in Account
      <4>1. request[r].flag \in BOOLEAN /\ request[r].subject \in Subjects \cup {None}
        BY <1>a DEF Request
      <4>2. PICK l \in Account : l = Local(request[r].flag)
        BY <4>1, LocalTyped
      <4>3. [l EXCEPT !.password = "random", !.subject = request[r].subject] \in Account
        BY <4>1 DEF Account
      <4>. QED
        BY <4>2, <4>3
    <3>2. account' = account \/ \E v \in Users : account' = [account EXCEPT ![v] = new]
      BY <1>25 DEF Provision, RollsBack
    <3>. QED
      BY <3>1, <3>2 DEF Shape, TypeOK
  <2>. QED
    BY <1>14, <1>25, <2>2, <2>3, <2>4, OneMoves DEF Provision
<1>26. ASSUME NEW r \in Requests, MapRole(r) PROVE Shape'
  <2>1. PICK u \in Users : u = request[r].user
    BY <1>a, <1>26 DEF MapRole, WellFormed
  <2>2. CASE Goto(r, "issue") /\ account' = account
    BY <1>5, <1>26, <2>2 DEF MapRole, rows
  <2>3. CASE /\ account' = [account EXCEPT ![u].admin = request[r].flag]
             /\ request' = [Outdated(u, request[r].flag) EXCEPT ![r].pc = "issue"]
    <3>1. account' \in [Users -> Account]
      <4>1. \A row \in Account, b \in BOOLEAN : [row EXCEPT !.admin = b] \in Account
        BY DEF Account
      <4>2. request[r].flag \in BOOLEAN
        BY <1>a DEF Request
      <4>. QED
        BY <2>3, <4>1, <4>2 DEF Shape, TypeOK
    <3>. QED
      BY <1>14, <1>26, <2>3, <3>1, OutdatedShaped DEF MapRole
  <2>. QED
    BY <1>26, <2>1, <2>2, <2>3 DEF MapRole
<1>27. ASSUME Restart PROVE Shape'
  <2>1. account' \in [Users -> Account]
    <3>. DEFINE flagged(row) == [row EXCEPT !.forced = @ \/ (/\ row.seed /\ row.password = "default"
                                                            /\ row.subject = None)]
                new == [Local(TRUE) EXCEPT !.seed = TRUE, !.forced = TRUE, !.password = "default"]
    <3>1. \A u \in Users : flagged(account[u]) \in Account
      BY DEF Shape, TypeOK, Account
    <3>2. new \in Account
      BY LocalTyped DEF Account
    <3>3. \/ account' = [u \in Users |-> flagged(account[u])]
          \/ \E u \in Users : account' = [account EXCEPT ![u] = new]
      BY <1>27 DEF Restart
    <3>. QED
      BY <3>1, <3>2, <3>3 DEF Shape, TypeOK
  <2>2. count' \in [requests : 0 .. MaxRequests, attempts : 0 .. MaxAttempts,
                     restarts : 0 .. MaxRestarts]
    BY <1>27, <1>b, BoundAssumption DEF Restart
  <2>. QED
    BY <1>27, <2>1, <2>2 DEF Restart, Shape, TypeOK, limits, oidc
<1>28. ASSUME NEW r \in Requests,
              Recheck(r) \/ Verify(r) \/ Confirm(r) \/ Die(r)
       PROVE  Shape'
  BY <1>28, <1>5, <1>6 DEF Recheck, Verify, Confirm, Die, LoginPC
<1>29. ASSUME UNCHANGED vars PROVE Shape'
  BY <1>29 DEF Shape, TypeOK, vars, rows, limits, oidc
<1>30. ASSUME NEW r \in Requests, Serve(r) PROVE Shape'
  BY <1>30, <1>1, <1>2, <1>3, <1>4, <1>7, <1>8, <1>9, <1>10, <1>11, <1>15, <1>16, <1>17, <1>18,
     <1>19, <1>20, <1>22, <1>23, <1>24, <1>25, <1>26, <1>28 DEF Serve
<1>. QED
  BY <1>12, <1>13, <1>21, <1>27, <1>29, <1>30 DEF Next

LEMMA InitShape == Init => Shape
<1> SUFFICES ASSUME Init PROVE Shape
  OBVIOUS
<1>1. account \in [Users -> Account]
  <2>1. Local(TRUE) \in Account /\ Unused \in Account
    BY LocalTyped
  <2>2. PICK admin \in Founders :
          account = [u \in Users |-> IF u \in Founders
                      THEN [Local(TRUE) EXCEPT !.seed = (u = admin)] ELSE Unused]
    BY DEF Init
  <2>3. \A b \in BOOLEAN : [Local(TRUE) EXCEPT !.seed = b] \in Account
    BY <2>1 DEF Account
  <2>. QED
    BY <2>1, <2>2, <2>3
<1>2. sessions \subseteq Session
  BY AccountAssumption DEF Init, Session, Version
<1>3. NoBucket \in Bucket
  BY LimitAssumption DEF NoBucket, Bucket
<1>4. request \in [Requests -> Request] /\ \A r \in Requests : WellFormed(request[r])
  BY RestShaped DEF Init
<1>5. /\ bucket \in [Users -> Bucket]
      /\ leases \in [Requests -> Users \cup {None}]
      /\ expired \subseteq {r \in Requests : leases[r] # None}
      /\ \A q, r \in Requests : q # r /\ leases[q] = leases[r] => leases[q] = None
  BY <1>3 DEF Init
<1>6. /\ cookie \in 0 .. MaxAttempts /\ spent \subseteq 1 .. MaxAttempts
      /\ count \in [requests : 0 .. MaxRequests, attempts : 0 .. MaxAttempts,
                    restarts : 0 .. MaxRestarts]
  BY BoundAssumption DEF Init
<1>. QED
  BY <1>1, <1>2, <1>4, <1>5, <1>6 DEF Shape, TypeOK

LEMMA ShapeHolds == Spec => []Shape
<1>1. Init => Shape
  BY InitShape
<1>2. Shape /\ [Next]_vars => Shape'
  BY ShapeInductive
<1>. QED
  BY <1>1, <1>2, PTL DEF Spec

\* Every variable keeps its type, and a request is at each step of its handler what
\* that step needs: an account, a subject, an attempt.
THEOREM TypeCorrect == Spec => []TypeOK
<1>1. Shape => TypeOK
  BY DEF Shape
<1>. QED
  BY <1>1, ShapeHolds, PTL

-----------------------------------------------------------------------------
(* What a step leaves alone.                                               *)

\* To every request but its own, a step does nothing but take the histories `alone`
\* away and `stale` on.
Same(q) == /\ request'[q].pc = request[q].pc /\ request'[q].kind = request[q].kind
           /\ request'[q].user = request[q].user /\ request'[q].flag = request[q].flag
           /\ request'[q].version = request[q].version
           /\ request'[q].alone => request[q].alone
           /\ request[q].stale => request'[q].stale

LEMMA OthersSame ==
  ASSUME Shape, NEW r \in Requests, Serve(r), NEW q \in Requests, q # r
  PROVE  Same(q)
<1>a. request \in [Requests -> Request] /\ request[q] \in Request
  BY DEF Shape, TypeOK
<1>1. ASSUME request'[q] = request[q] PROVE Same(q)
  BY <1>1 DEF Same
<1>2. CASE CountFailure(r)
  <2>. DEFINE b == request[q].alone /\ (request[q].user = request[r].user => request[r].alone)
  <2>1. request'[q] = [request[q] EXCEPT !.alone = b]
    <3>1. request'[q] = [request[q] EXCEPT !.pc = IF q = r THEN "leave" ELSE @, !.alone = b]
      BY <1>2 DEF CountFailure
    <3>2. request'[q] = [request[q] EXCEPT !.pc = request[q].pc, !.alone = b]
      BY <3>1
    <3>. HIDE DEF b
    <3>. QED
      BY <1>a, <3>2 DEF Request
  <2>2. b => request[q].alone
    OBVIOUS
  <2>. HIDE DEF b
  <2>. QED
    BY <1>a, <2>1, <2>2 DEF Same, Request
<1>3. ASSUME NEW u, NEW granted,
             \/ request' = [Outdated(u, granted) EXCEPT ![r] = Rest]
             \/ request' = [Outdated(u, granted) EXCEPT ![r].pc = "issue"]
      PROVE  Same(q)
  <2>. DEFINE b == request[q].stale \/ (request[q].pc = "write" /\ (granted => request[q].user = u))
  <2>1. request'[q] = [request[q] EXCEPT !.stale = b]
    BY <1>3 DEF Outdated
  <2>2. request[q].stale => b
    OBVIOUS
  <2>. HIDE DEF b
  <2>. QED
    BY <1>a, <2>1, <2>2 DEF Same, Request
<1>4. CASE ToggleAdmin(r) \/ DeleteUser(r) \/ MapRole(r)
  <2>1. CASE ToggleAdmin(r)
    BY <1>3, <2>1 DEF ToggleAdmin
  <2>2. CASE DeleteUser(r)
    BY <1>3, <2>2 DEF DeleteUser
  <2>3. CASE MapRole(r)
    <3>1. \/ request' = [Outdated(request[r].user, request[r].flag) EXCEPT ![r].pc = "issue"]
          \/ request' = [request EXCEPT ![r].pc = "issue"]
      BY <2>3 DEF MapRole, Goto
    <3>. QED
      BY <1>1, <1>3, <1>a, <3>1
  <2>. QED
    BY <1>4, <2>1, <2>2, <2>3
<1>5. CASE \/ \E u \in Users : BeginLogin(r, u) \/ BeginAdmin(r, u)
           \/ BeginChange(r) \/ (\E s \in Subjects : BeginHeader(r, s))
           \/ \E i \in 1 .. MaxAttempts : Callback(r, i)
  BY <1>1, <1>5, <1>a DEF BeginLogin, BeginAdmin, BeginChange, BeginHeader, Callback, Begin
<1>6. CASE \/ AcquireLease(r) \/ Recheck(r) \/ Verify(r) \/ ClearBucket(r) \/ ReleaseLease(r)
           \/ IssueSession(r) \/ LeaseRunsOut(r) \/ Confirm(r) \/ ChangePassword(r)
           \/ ResetPassword(r) \/ CreateUser(r) \/ ReadTarget(r) \/ Exchange(r) \/ LookUp(r)
           \/ Provision(r) \/ Die(r)
  <2>1. request'[q] = request[q]
    BY <1>6, <1>a DEF AcquireLease, Recheck, Verify, ClearBucket, ReleaseLease, IssueSession,
       LeaseRunsOut, Confirm, ChangePassword, ResetPassword, CreateUser, ReadTarget, Exchange,
       LookUp, Provision, Die, Goto, End
  <2>. QED
    BY <1>1, <2>1
<1>. QED
  BY <1>2, <1>4, <1>5, <1>6 DEF Serve

\* Where a step that takes no part in a verification leaves its request.
LEMMA MovesElsewhere ==
  ASSUME Shape, NEW r \in Requests,
         \/ \E u \in Users : BeginLogin(r, u) \/ BeginAdmin(r, u)
         \/ IssueSession(r) \/ BeginChange(r) \/ Confirm(r) \/ ChangePassword(r)
         \/ ResetPassword(r) \/ CreateUser(r) \/ ReadTarget(r) \/ ToggleAdmin(r)
         \/ DeleteUser(r) \/ (\E s \in Subjects : BeginHeader(r, s))
         \/ (\E i \in 1 .. MaxAttempts : Callback(r, i))
         \/ Exchange(r) \/ LookUp(r) \/ Provision(r) \/ MapRole(r) \/ Die(r)
  PROVE  request'[r].pc \in {"idle", "lease", "confirm", "read", "write", "issue", "exchange",
                             "look", "provision", "map"}
<1>a. request \in [Requests -> Request] /\ request[r] \in Request
  BY DEF Shape, TypeOK
<1>b. Rest.pc = "idle" /\ Rest \in Request
  BY RestShaped
<1> USE DEF Goto, End
<1>1. CASE \/ \E u \in Users : BeginLogin(r, u) \/ BeginAdmin(r, u)
           \/ BeginChange(r) \/ (\E s \in Subjects : BeginHeader(r, s))
           \/ (\E i \in 1 .. MaxAttempts : Callback(r, i))
  <2>1. ASSUME NEW kind, NEW pc \in {"lease", "confirm", "read", "write"}, NEW u,
               Begin(r, kind, pc, u)
        PROVE  request'[r].pc = pc
    BY <1>a, <2>1 DEF Begin, Rest
  <2>2. CASE \E u \in Users : BeginLogin(r, u)
    BY <2>1, <2>2 DEF BeginLogin
  <2>3. CASE \E u \in Users : BeginAdmin(r, u)
    <3>1. PICK u \in Users : BeginAdmin(r, u)
      BY <2>3
    <3>2. PICK kind, pc : Begin(r, kind, pc, u) /\ pc \in {"read", "write"}
      BY <3>1 DEF BeginAdmin
    <3>. QED
      BY <2>1, <3>2
  <2>4. CASE BeginChange(r)
    <3>1. PICK u : Begin(r, "change", "confirm", u)
      BY <2>4 DEF BeginChange
    <3>. QED
      BY <2>1, <3>1
  <2>5. CASE \E s \in Subjects : BeginHeader(r, s)
    <3>1. PICK s, b : request' = [request EXCEPT ![r] =
                        [Rest EXCEPT !.kind = "header", !.pc = "look", !.subject = s, !.flag = b]]
      BY <2>5 DEF BeginHeader
    <3>. QED
      BY <1>a, <3>1 DEF Rest
  <2>6. CASE \E i \in 1 .. MaxAttempts : Callback(r, i)
    <3>1. PICK i : \/ request' = [request EXCEPT ![r] =
                        [Rest EXCEPT !.kind = "oidc", !.pc = "exchange", !.attempt = i]]
                   \/ request' = request /\ request[r].pc = "idle"
      BY <2>6 DEF Callback
    <3>. QED
      BY <1>a, <3>1 DEF Rest
  <2>. QED
    BY <1>1, <2>2, <2>3, <2>4, <2>5, <2>6
<1>2. CASE \/ IssueSession(r) \/ ResetPassword(r) \/ CreateUser(r) \/ Die(r) \/ Confirm(r)
           \/ LookUp(r) \/ Exchange(r) \/ ReadTarget(r) \/ ChangePassword(r) \/ Provision(r)
  <2>1. \E pc \in {"write", "issue", "look", "provision", "map"} : \E u, s, b, v :
          \/ request' = [request EXCEPT ![r] = Rest]
          \/ request' = [request EXCEPT ![r].pc = pc]
          \/ request' = [request EXCEPT ![r].pc = pc, ![r].user = u]
          \/ request' = [request EXCEPT ![r].pc = pc, ![r].flag = b]
          \/ request' = [request EXCEPT ![r].pc = pc, ![r].version = v]
          \/ request' = [request EXCEPT ![r].pc = pc, ![r].subject = s, ![r].flag = b]
    BY <1>2 DEF IssueSession, ResetPassword, CreateUser, Die, Confirm, LookUp, Exchange,
       ReadTarget, ChangePassword, Provision
  <2>. QED
    BY <1>a, <1>b, <2>1 DEF Request
<1>3. CASE ToggleAdmin(r) \/ DeleteUser(r)
  <2>1. \E u, b : request' = [Outdated(u, b) EXCEPT ![r] = Rest]
    BY <1>3 DEF ToggleAdmin, DeleteUser
  <2>. QED
    BY <1>b, <2>1 DEF Outdated
<1>4. CASE MapRole(r)
  <2>1. \/ request' = [request EXCEPT ![r].pc = "issue"]
        \/ \E u, b : request' = [Outdated(u, b) EXCEPT ![r].pc = "issue"]
    BY <1>4 DEF MapRole
  <2>2. \A u, b : Outdated(u, b)[r] =
          [request[r] EXCEPT !.stale = request[r].stale \/ (request[r].pc = "write" /\ (b => request[r].user = u))]
    BY DEF Outdated
  <2>. QED
    BY <1>a, <2>1, <2>2 DEF Request, Outdated
<1>. QED
  BY <1>1, <1>2, <1>3, <1>4

\* The clock, the browsers and a start of the process move no request.
Background == \/ BeginOidc \/ (\E t \in sessions : LoseSession(t))
              \/ (\E u \in Users : WindowPasses(u) \/ CooldownPasses(u))
              \/ Restart \/ UNCHANGED vars

LEMMA BackgroundFrame ==
  ASSUME Background
  PROVE  UNCHANGED <<request, leases, expired>>
  BY DEF Background, BeginOidc, LoseSession, WindowPasses, CooldownPasses, Restart, vars, limits

LEMMA StepKinds ==
  ASSUME [Next]_vars
  PROVE  (\E r \in Requests : Serve(r)) \/ Background
  BY DEF Next, Background

-----------------------------------------------------------------------------
(* The sign-in limiter.                                                    *)

Verifying == {"recheck", "verify", "count", "clear"}

\* A verification that has not outlived its lease holds the row of its account,
\* of which there are at most MaxConcurrency, one per account; and between the second
\* look at the cooldown and the count nobody else brings the cooldown about.
HoldsLease ==
  \A r \in Requests :
    request[r].pc \in Verifying /\ request[r].alone
      => leases[r] = request[r].user /\ r \notin expired

Held      == {r \in Requests : leases[r] # None}
LeasesFit == IsFiniteSet(Held) /\ Cardinality(Held) <= MaxConcurrency

Unblocked ==
  \A r \in Requests :
    request[r].pc \in {"verify", "count"} /\ request[r].alone
      => ~bucket[request[r].user].blocked

LimiterInv == HoldsLease /\ LeasesFit /\ Unblocked

\* Two verifications that hold their leases are of two accounts.
LEMMA LeasesApart ==
  ASSUME Shape, HoldsLease, NEW q \in Requests, NEW r \in Requests,
         request[q].pc \in Verifying, request[q].alone,
         request[r].pc \in Verifying, request[r].alone,
         request[q].user = request[r].user
  PROVE  q = r
<1>1. request[q].user \in Users
  BY DEF Shape, WellFormed, Verifying
<1>2. leases[q] = leases[r] /\ leases[q] # None
  BY <1>1, AccountAssumption DEF HoldsLease
<1>. QED
  BY <1>2 DEF Shape, TypeOK

LEMMA LeasesFitSubset ==
  ASSUME LeasesFit, Held' \subseteq Held
  PROVE  LeasesFit'
<1>1. IsFiniteSet(Held') /\ Cardinality(Held') <= Cardinality(Held)
  BY FS_Subset DEF LeasesFit
<1>2. Cardinality(Held) \in Nat /\ Cardinality(Held') \in Nat
  BY <1>1, FS_CardinalityType DEF LeasesFit
<1>. QED
  BY <1>1, <1>2, LimitAssumption DEF LeasesFit

LEMMA LimiterInductive ==
  ASSUME Shape, LimiterInv, [Next]_vars
  PROVE  LimiterInv'
<1>a. request \in [Requests -> Request] /\ \A q \in Requests : request[q] \in Request
  BY DEF Shape, TypeOK
<1>b. leases \in [Requests -> Users \cup {None}]
  BY DEF Shape, TypeOK
\* Steps of r after which it verifies nothing, and which take no lease.
<1>1. ASSUME NEW r \in Requests, Serve(r), request'[r].pc \notin Verifying,
             UNCHANGED <<leases, expired, bucket>>
      PROVE  LimiterInv'
  <2>1. \A q \in Requests : q # r => Same(q)
    BY <1>1, OthersSame
  <2>2. HoldsLease'
    BY <1>1, <2>1 DEF Same, HoldsLease, LimiterInv
  <2>3. LeasesFit'
    BY <1>1, LeasesFitSubset DEF Held, LimiterInv
  <2>4. Unblocked'
    BY <1>1, <2>1 DEF Same, Unblocked, LimiterInv, Verifying
  <2>. QED
    BY <2>2, <2>3, <2>4 DEF LimiterInv
<1>2. ASSUME NEW r \in Requests, AcquireLease(r) PROVE LimiterInv'
  <2>. DEFINE current == [q \in Requests |-> IF q \in expired THEN None ELSE leases[q]]
              kept == {q \in Requests : current[q] # None}
              busy == \/ \E q \in Requests : current[q] = request[r].user
                      \/ Cardinality(kept) >= MaxConcurrency
  <2>1. \A q \in Requests : q # r => Same(q)
    BY <1>2, OthersSame DEF Serve
  <2>2. /\ expired' = {} /\ bucket' = bucket
        /\ \/ leases' = current /\ request'[r].pc = "idle"
           \/ /\ ~busy
              /\ leases' = [current EXCEPT ![r] = request[r].user]
              /\ request'[r].pc = "recheck" /\ request'[r].user = request[r].user
    <3>1. \/ leases' = current /\ End(r)
          \/ /\ ~busy
             /\ leases' = [current EXCEPT ![r] = request[r].user]
             /\ request' = [request EXCEPT ![r].pc = "recheck", ![r].alone = TRUE]
      BY <1>2 DEF AcquireLease
    <3>2. End(r) => request'[r].pc = "idle"
      BY <1>a, RestShaped DEF End
    <3>3. request' = [request EXCEPT ![r].pc = "recheck", ![r].alone = TRUE]
            => request'[r].pc = "recheck" /\ request'[r].user = request[r].user
      BY <1>a DEF Request
    <3>4. expired' = {} /\ bucket' = bucket
      BY <1>2 DEF AcquireLease, rows
    <3>. QED
      BY <3>1, <3>2, <3>3, <3>4
  <2>3. \A q \in Requests : q # r => leases'[q] = current[q]
    BY <2>2
  <2>4. HoldsLease'
    <3> SUFFICES ASSUME NEW q \in Requests, request'[q].pc \in Verifying, request'[q].alone
                 PROVE  leases'[q] = request'[q].user /\ q \notin expired'
      BY DEF HoldsLease
    <3>1. CASE q = r
      BY <2>2, <3>1 DEF Verifying
    <3>2. CASE q # r
      <4>1. request[q].pc \in Verifying /\ request[q].alone /\ request'[q].user = request[q].user
        BY <2>1, <3>2 DEF Same
      <4>2. leases[q] = request[q].user /\ q \notin expired
        BY <4>1 DEF HoldsLease, LimiterInv
      <4>. QED
        BY <2>2, <2>3, <3>2, <4>1, <4>2
    <3>. QED
      BY <3>1, <3>2
  <2>5. LeasesFit'
    <3>1. kept \subseteq Held
      BY DEF Held
    <3>2. CASE leases' = current
      <4>1. Held' \subseteq Held
        BY <3>1, <3>2 DEF Held
      <4>. QED
        BY <4>1, LeasesFitSubset DEF LimiterInv
    <3>3. CASE ~busy /\ leases' = [current EXCEPT ![r] = request[r].user]
      <4>1. Held' \subseteq kept \cup {r}
        BY <3>3 DEF Held
      <4>2. IsFiniteSet(kept) /\ Cardinality(kept) \in Nat
        BY <3>1, FS_Subset, FS_CardinalityType DEF LimiterInv, LeasesFit
      <4>3. Cardinality(kept) < MaxConcurrency
        BY <3>3, <4>2, LimitAssumption
      <4>4. /\ IsFiniteSet(kept \cup {r})
            /\ Cardinality(kept \cup {r}) = Cardinality(kept) \/ Cardinality(kept \cup {r}) = Cardinality(kept) + 1
        BY <4>2, FS_AddElement
      <4>5. IsFiniteSet(Held') /\ Cardinality(Held') <= Cardinality(kept \cup {r})
        BY <4>1, <4>4, FS_Subset
      <4>6. Cardinality(Held') \in Nat
        BY <4>5, FS_CardinalityType
      <4>. HIDE DEF kept
      <4>. QED
        BY <4>2, <4>3, <4>4, <4>5, <4>6, LimitAssumption DEF LeasesFit
    <3>. QED
      BY <2>2, <3>2, <3>3
  <2>6. Unblocked'
    BY <2>1, <2>2 DEF Unblocked, LimiterInv, Same
  <2>. QED
    BY <2>4, <2>5, <2>6 DEF LimiterInv
<1>3. ASSUME NEW r \in Requests, Recheck(r) \/ Verify(r) PROVE LimiterInv'
  <2>1. \A q \in Requests : q # r => Same(q)
    BY <1>3, OthersSame DEF Serve
  <2>2. UNCHANGED <<leases, expired, bucket>>
    BY <1>3 DEF Recheck, Verify, rows, limits
  <2>3. PICK pc : Goto(r, pc)
    BY <1>3 DEF Recheck, Verify
  <2>4. /\ request'[r].pc = pc /\ request'[r].user = request[r].user
        /\ request'[r].alone = request[r].alone
    BY <1>a, <2>3 DEF Goto, Request
  <2>5. /\ request[r].pc \in Verifying
        /\ request'[r].pc \in {"verify", "count"} /\ request[r].alone => ~bucket[request[r].user].blocked
    <3>1. CASE Recheck(r)
      <4>1. request'[r].pc = IF bucket[request[r].user].blocked THEN "leave" ELSE "verify"
        BY <1>a, <3>1 DEF Recheck, Goto, Request
      <4>. QED
        BY <3>1, <4>1 DEF Recheck, Verifying
    <3>2. CASE Verify(r)
      BY <3>2 DEF Verify, Verifying, Unblocked, LimiterInv
    <3>. QED
      BY <1>3, <3>1, <3>2
  <2>6. HoldsLease'
    BY <2>1, <2>2, <2>4, <2>5 DEF Same, HoldsLease, LimiterInv
  <2>7. LeasesFit'
    BY <2>2, LeasesFitSubset DEF Held, LimiterInv
  <2>8. Unblocked'
    BY <2>1, <2>2, <2>4, <2>5 DEF Same, Unblocked, LimiterInv
  <2>. QED
    BY <2>6, <2>7, <2>8 DEF LimiterInv
<1>4. ASSUME NEW r \in Requests, CountFailure(r) PROVE LimiterInv'
  <2>. DEFINE u == request[r].user
  <2>1. \A q \in Requests : q # r => Same(q)
    BY <1>4, OthersSame DEF Serve
  <2>2. UNCHANGED <<leases, expired>> /\ \A v \in Users : v # u => bucket'[v] = bucket[v]
    BY <1>4 DEF CountFailure, limits, Shape, TypeOK
  <2>3. /\ request[r].pc = "count" /\ request'[r].pc = "leave"
        /\ \A q \in Requests : request'[q].alone /\ request[q].user = u => request[r].alone
    <3>1. request[r].pc = "count"
      BY <1>4 DEF CountFailure
    <3>2. \A q \in Requests : request'[q] =
             [request[q] EXCEPT !.pc = IF q = r THEN "leave" ELSE @,
                                !.alone = @ /\ (request[q].user = u => request[r].alone)]
      BY <1>4 DEF CountFailure
    <3>3. \A q \in Requests : request'[q].alone = (request[q].alone /\ (request[q].user = u => request[r].alone))
      BY <1>a, <3>2 DEF Request
    <3>4. request'[r].pc = "leave"
      BY <1>a, <3>2 DEF Request
    <3>. QED
      BY <3>1, <3>3, <3>4
  <2>4. HoldsLease'
    BY <2>1, <2>2, <2>3 DEF Same, HoldsLease, LimiterInv, Verifying
  <2>5. LeasesFit'
    BY <2>2, LeasesFitSubset DEF Held, LimiterInv
  <2>6. Unblocked'
    <3> SUFFICES ASSUME NEW q \in Requests, request'[q].pc \in {"verify", "count"},
                        request'[q].alone
                 PROVE  ~bucket'[request'[q].user].blocked
      BY DEF Unblocked
    <3>1. q # r /\ Same(q)
      BY <2>1, <2>3
    <3>2. request[q].user # u
      BY <2>3, <3>1, LeasesApart DEF Same, Verifying, LimiterInv
    <3>3. request[q].user \in Users
      BY <3>1 DEF Same, Shape, WellFormed
    <3>. QED
      BY <2>2, <3>1, <3>2, <3>3 DEF Same, Unblocked, LimiterInv
  <2>. QED
    BY <2>4, <2>5, <2>6 DEF LimiterInv
<1>5. ASSUME NEW r \in Requests, ClearBucket(r) PROVE LimiterInv'
  <2>1. \A q \in Requests : q # r => Same(q)
    BY <1>5, OthersSame DEF Serve
  <2>2. /\ UNCHANGED <<leases, expired>>
        /\ bucket' = [bucket EXCEPT ![request[r].user] = NoBucket] /\ ~NoBucket.blocked
    BY <1>5 DEF ClearBucket, limits, NoBucket
  <2>3. request'[r].pc = "release"
    BY <1>5, <1>a DEF ClearBucket, Goto, Request
  <2>4. HoldsLease'
    BY <2>1, <2>2, <2>3 DEF Same, HoldsLease, LimiterInv, Verifying
  <2>5. LeasesFit'
    BY <2>2, LeasesFitSubset DEF Held, LimiterInv
  <2>6. Unblocked'
    <3> SUFFICES ASSUME NEW q \in Requests, request'[q].pc \in {"verify", "count"},
                        request'[q].alone
                 PROVE  ~bucket'[request'[q].user].blocked
      BY DEF Unblocked
    <3>1. q # r /\ Same(q)
      BY <2>1, <2>3
    <3>2. ~bucket[request[q].user].blocked /\ request[q].user \in Users
      BY <3>1 DEF Same, Unblocked, LimiterInv, Shape, WellFormed
    <3>. QED
      BY <2>2, <3>1, <3>2 DEF Same, Shape, TypeOK
  <2>. QED
    BY <2>4, <2>5, <2>6 DEF LimiterInv
<1>6. ASSUME NEW r \in Requests, ReleaseLease(r) PROVE LimiterInv'
  <2>1. \A q \in Requests : q # r => Same(q)
    BY <1>6, OthersSame DEF Serve
  <2>2. /\ leases' = [leases EXCEPT ![r] = None] /\ expired' = expired \ {r}
        /\ bucket' = bucket
    BY <1>6 DEF ReleaseLease, rows
  <2>3. request'[r].pc \in {"idle", "issue"}
    BY <1>6, <1>a, RestShaped DEF ReleaseLease, Goto, End, Request
  <2>4. HoldsLease'
    BY <1>b, <2>1, <2>2, <2>3 DEF Same, HoldsLease, LimiterInv, Verifying
  <2>5. LeasesFit'
    BY <1>b, <2>2, LeasesFitSubset DEF Held, LimiterInv
  <2>6. Unblocked'
    BY <2>1, <2>2, <2>3 DEF Same, Unblocked, LimiterInv
  <2>. QED
    BY <2>4, <2>5, <2>6 DEF LimiterInv
<1>7. ASSUME NEW r \in Requests, LeaseRunsOut(r) PROVE LimiterInv'
  <2>1. \A q \in Requests : q # r => Same(q)
    BY <1>7, OthersSame DEF Serve
  <2>2. UNCHANGED <<leases, bucket>> /\ expired' = expired \cup {r}
    BY <1>7 DEF LeaseRunsOut, rows
  <2>3. request'[r].alone = FALSE
    BY <1>7, <1>a DEF LeaseRunsOut, Request
  <2>4. HoldsLease'
    BY <2>1, <2>2, <2>3 DEF Same, HoldsLease, LimiterInv
  <2>5. LeasesFit'
    BY <2>2, LeasesFitSubset DEF Held, LimiterInv
  <2>6. Unblocked'
    BY <2>1, <2>2, <2>3 DEF Same, Unblocked, LimiterInv
  <2>. QED
    BY <2>4, <2>5, <2>6 DEF LimiterInv
<1>8. ASSUME NEW r \in Requests,
             \/ \E u \in Users : BeginLogin(r, u) \/ BeginAdmin(r, u)
             \/ IssueSession(r) \/ BeginChange(r) \/ Confirm(r) \/ ChangePassword(r)
             \/ ResetPassword(r) \/ CreateUser(r) \/ ReadTarget(r) \/ ToggleAdmin(r)
             \/ DeleteUser(r) \/ (\E s \in Subjects : BeginHeader(r, s))
             \/ (\E i \in 1 .. MaxAttempts : Callback(r, i))
             \/ Exchange(r) \/ LookUp(r) \/ Provision(r) \/ MapRole(r) \/ Die(r)
      PROVE  LimiterInv'
  <2>1. UNCHANGED <<leases, expired, bucket>>
    BY <1>8 DEF BeginLogin, BeginAdmin, IssueSession, BeginChange, Confirm, ChangePassword,
       ResetPassword, CreateUser, ReadTarget, ToggleAdmin, DeleteUser, BeginHeader, Callback,
       Exchange, LookUp, Provision, MapRole, Die, rows, limits
  <2>2. request'[r].pc \notin Verifying
    BY <1>8, MovesElsewhere DEF Verifying
  <2>. QED
    BY <1>1, <1>8, <2>1, <2>2 DEF Serve
<1>9. ASSUME Background PROVE LimiterInv'
  <2>1. UNCHANGED <<request, leases, expired>>
    BY <1>9, BackgroundFrame
  <2>2. \A u \in Users : bucket'[u].blocked => bucket[u].blocked
    BY <1>9 DEF Background, BeginOidc, LoseSession, WindowPasses, CooldownPasses, Restart, vars,
       rows, Shape, TypeOK, Bucket
  <2>3. HoldsLease'
    BY <2>1 DEF HoldsLease, LimiterInv
  <2>4. LeasesFit'
    BY <2>1, LeasesFitSubset DEF Held, LimiterInv
  <2>5. Unblocked'
    BY <2>1, <2>2 DEF Unblocked, LimiterInv, Shape, WellFormed
  <2>. QED
    BY <2>3, <2>4, <2>5 DEF LimiterInv
<1>10. ASSUME NEW r \in Requests, Serve(r) PROVE LimiterInv'
  BY <1>10, <1>2, <1>3, <1>4, <1>5, <1>6, <1>7, <1>8 DEF Serve
<1>. QED
  BY <1>9, <1>10, StepKinds

\* For any number of accounts, requests and bounds: verifications of one account never
\* overlap, nor more than MaxConcurrency in all, unless one has outlived its lease, and
\* a wrong password is never checked in vain during a cooldown.
THEOREM LimiterCorrect == Spec => []LimiterHolds
<1>1. Init => LimiterInv
  <2> SUFFICES ASSUME Init PROVE LimiterInv
    OBVIOUS
  <2>1. Held = {}
    BY DEF Init, Held
  <2>2. LeasesFit
    BY <2>1, FS_EmptySet, LimitAssumption DEF LeasesFit
  <2>3. HoldsLease /\ Unblocked
    BY RestShaped DEF Init, HoldsLease, Unblocked, Verifying
  <2>. QED
    BY <2>2, <2>3 DEF LimiterInv
<1>2. Shape /\ LimiterInv /\ [Next]_vars => LimiterInv'
  BY LimiterInductive
<1>3. Shape /\ LimiterInv => LimiterHolds
  <2> SUFFICES ASSUME Shape, LimiterInv PROVE LimiterHolds
    OBVIOUS
  <2>. DEFINE busy == {r \in Requests : request[r].pc \in Verifying /\ request[r].alone}
  <2>1. \A q, r \in busy : request[q].user = request[r].user => q = r
    BY LeasesApart DEF LimiterInv
  <2>2. busy \subseteq Held
    BY AccountAssumption DEF LimiterInv, HoldsLease, Held, Shape, WellFormed, Verifying
  <2>3. Cardinality(busy) <= MaxConcurrency
    <3>1. IsFiniteSet(busy) /\ Cardinality(busy) <= Cardinality(Held)
      BY <2>2, FS_Subset DEF LimiterInv, LeasesFit
    <3>2. Cardinality(busy) \in Nat /\ Cardinality(Held) \in Nat
      BY <3>1, FS_CardinalityType DEF LimiterInv, LeasesFit
    <3>. QED
      BY <3>1, <3>2, LimitAssumption DEF LimiterInv, LeasesFit
  <2>4. SerialVerification
    BY <2>1, <2>3 DEF SerialVerification, Verifying
  <2>5. FailuresCount
    BY DEF FailuresCount, LimiterInv, Unblocked
  <2>. QED
    BY <2>4, <2>5 DEF LimiterHolds
<1>. QED
  BY <1>1, <1>2, <1>3, ShapeHolds, PTL DEF Spec

-----------------------------------------------------------------------------
(* Rows of the users table.                                                *)

\* What a step does to one row: nothing a property below looks at, a new password, a
\* new account, a deletion.
RowKept(u)    == /\ account'[u].st = account[u].st /\ account'[u].subject = account[u].subject
                 /\ account'[u].password = account[u].password
                 /\ account'[u].version = account[u].version
RowRenewed(u) == /\ account[u].st = "live" /\ account'[u].st = "live"
                 /\ account'[u].subject = account[u].subject
                 /\ account'[u].password # "random"
                 /\ account'[u].version = account[u].version + 1
RowLocal(u)   == /\ account[u].st = "unused" /\ account'[u].st = "live"
                 /\ account'[u].version = 1
                 /\ account'[u].subject = None /\ account'[u].password # "random"
RowLinked(u)  == /\ account[u].st = "unused" /\ account'[u].st = "live"
                 /\ account'[u].version = 1 /\ account'[u].subject \in Subjects
                 /\ \A v \in Users : /\ Live(v) => account[v].subject # account'[u].subject
                                     /\ v # u => RowKept(v)
RowDeleted(u) == /\ account'[u].st = "deleted"
                 /\ account'[u].version = account[u].version
                 /\ \E r \in Requests : /\ request[r].pc = "write" /\ request[r].kind = "delete"
                                        /\ request[r].user = u
RowStep(u) == RowKept(u) \/ RowRenewed(u) \/ RowLocal(u) \/ RowLinked(u) \/ RowDeleted(u)

LEMMA RowSteps ==
  ASSUME Shape, [Next]_vars
  PROVE  \A u \in Users : RowStep(u)
<1>a. account \in [Users -> Account] /\ \A u \in Users : account[u] \in Account
  BY DEF Shape, TypeOK
<1>b. \A r \in Requests : request[r].pc \in {"write", "map"} => request[r].user \in Users
  BY DEF Shape, WellFormed
<1>1. ASSUME account' = account PROVE \A u \in Users : RowStep(u)
  BY <1>1 DEF RowStep, RowKept
<1>2. ASSUME NEW u \in Users, NEW p \in {"own", "default"}, Live(u),
             \/ account' = NewPassword(u, p)
             \/ account' = [NewPassword(u, p) EXCEPT ![u].forced = FALSE]
      PROVE  \A v \in Users : RowStep(v)
  <2>. DEFINE n == account[u].version + 1
  <2>1. NewPassword(u, p) = [account EXCEPT ![u] = [account[u] EXCEPT !.password = p, !.version = n]]
    BY <1>a DEF NewPassword
  <2>2. \A v \in Users : v # u => account'[v] = account[v]
    BY <1>2, <1>a, <2>1
  <2>3. \/ account'[u] = [account[u] EXCEPT !.password = p, !.version = n]
        \/ account'[u] = [account[u] EXCEPT !.password = p, !.version = n, !.forced = FALSE]
    BY <1>2, <1>a, <2>1
  <2>. HIDE DEF n
  <2>4. /\ account'[u].st = account[u].st /\ account'[u].subject = account[u].subject
        /\ account'[u].password = p /\ account'[u].version = n
    BY <1>a, <2>3 DEF Account
  <2>5. RowRenewed(u)
    BY <1>2, <2>4 DEF RowRenewed, Live, n
  <2>. QED
    BY <2>2, <2>5 DEF RowStep, RowKept
<1>3. ASSUME NEW u \in Users, NEW admin \in BOOLEAN, account[u].st = "unused",
             \/ account' = [account EXCEPT ![u] = Local(admin)]
             \/ account' = [account EXCEPT ![u] = [Local(admin) EXCEPT !.seed = TRUE,
                              !.forced = TRUE, !.password = "default"]]
      PROVE  \A v \in Users : RowStep(v)
  <2>1. \A v \in Users : v # u => account'[v] = account[v]
    BY <1>3, <1>a
  <2>2. /\ account'[u].st = "live" /\ account'[u].version = 1
        /\ account'[u].subject = None /\ account'[u].password \in {"own", "default"}
    BY <1>3, <1>a DEF Local, Unused
  <2>. QED
    BY <1>3, <2>1, <2>2 DEF RowStep, RowKept, RowLocal
<1>4. ASSUME NEW u \in Users, NEW b \in BOOLEAN, account' = [account EXCEPT ![u].admin = b]
      PROVE  \A v \in Users : RowStep(v)
  BY <1>4, <1>a DEF RowStep, RowKept, Account
<1>5. ASSUME NEW r \in Requests, DeleteUser(r) PROVE \A v \in Users : RowStep(v)
  <2>. DEFINE u == request[r].user
  <2>1. /\ request[r].pc = "write" /\ request[r].kind = "delete" /\ u \in Users
        /\ account' = [account EXCEPT ![u] = [account[u] EXCEPT !.st = "deleted", !.subject = None,
                                                !.admin = FALSE, !.seed = FALSE]]
    BY <1>5, <1>a, <1>b DEF DeleteUser
  <2>2. account'[u].st = "deleted" /\ account'[u].version = account[u].version
    BY <1>a, <2>1 DEF Account
  <2>3. \A v \in Users : v # u => account'[v] = account[v]
    BY <1>a, <2>1
  <2>. QED
    BY <2>1, <2>2, <2>3 DEF RowStep, RowKept, RowDeleted
<1>6. ASSUME NEW r \in Requests, Provision(r) PROVE \A v \in Users : RowStep(v)
  <2>1. CASE account' = account
    BY <1>1, <2>1
  <2>2. CASE account' # account
    <3>1. PICK u \in Users :
            /\ account[u].st = "unused"
            /\ account' = [account EXCEPT ![u] =
                 [Local(request[r].flag) EXCEPT !.password = "random",
                                                !.subject = request[r].subject]]
            /\ \A v \in Users : ~(Live(v) /\ account[v].subject = request[r].subject)
      BY <1>6, <2>2 DEF Provision, RollsBack
    <3>2. request[r].subject \in Subjects
      BY <1>6 DEF Provision, Shape, WellFormed
    <3>3. \A v \in Users : v # u => account'[v] = account[v]
      BY <1>a, <3>1
    <3>4. /\ account'[u].st = "live" /\ account'[u].version = 1
          /\ account'[u].subject = request[r].subject
      BY <1>a, <3>1 DEF Local, Unused
    <3>. QED
      BY <3>1, <3>2, <3>3, <3>4 DEF RowStep, RowKept, RowLinked
  <2>. QED
    BY <2>1, <2>2
<1>7. ASSUME Restart PROVE \A v \in Users : RowStep(v)
  <2>1. CASE account' = [u \in Users |-> [account[u] EXCEPT !.forced = @ \/
                           (/\ account[u].seed /\ account[u].password = "default"
                            /\ account[u].subject = None)]]
    BY <1>a, <2>1 DEF RowStep, RowKept, Account
  <2>2. CASE \E u \in Users : /\ account[u].st = "unused"
               /\ account' = [account EXCEPT ![u] = [Local(TRUE) EXCEPT !.seed = TRUE,
                                !.forced = TRUE, !.password = "default"]]
    BY <1>3, <2>2
  <2>. QED
    BY <1>7, <2>1, <2>2 DEF Restart
<1>8. ASSUME NEW r \in Requests, Serve(r) PROVE \A v \in Users : RowStep(v)
  <2>1. CASE ChangePassword(r)
    BY <1>1, <1>2, <1>b, <2>1 DEF ChangePassword
  <2>2. CASE ResetPassword(r)
    BY <1>1, <1>2, <1>b, <2>2 DEF ResetPassword
  <2>3. CASE CreateUser(r)
    BY <1>1, <1>3, <1>b, <2>3 DEF CreateUser
  <2>4. CASE ToggleAdmin(r) \/ MapRole(r)
    <3>1. request[r].flag \in BOOLEAN /\ request[r].user \in Users
      BY <1>b, <2>4 DEF ToggleAdmin, MapRole, Shape, TypeOK, Request
    <3>. QED
      BY <1>1, <1>4, <2>4, <3>1 DEF ToggleAdmin, MapRole
  <2>5. CASE ~(\/ ChangePassword(r) \/ ResetPassword(r) \/ CreateUser(r) \/ ToggleAdmin(r)
               \/ MapRole(r) \/ DeleteUser(r) \/ Provision(r))
    <3>1. account' = account
      BY <1>8, <2>5 DEF Serve, BeginLogin, BeginAdmin, AcquireLease, Recheck, Verify,
         CountFailure, ClearBucket, ReleaseLease, IssueSession, BeginChange, Confirm, ReadTarget,
         BeginHeader, Callback, Exchange, LookUp, Die, LeaseRunsOut, rows
    <3>. QED
      BY <1>1, <3>1
  <2>. QED
    BY <1>5, <1>6, <2>1, <2>2, <2>3, <2>4, <2>5
<1>9. ASSUME Background PROVE \A v \in Users : RowStep(v)
  <2>1. Restart \/ account' = account
    BY <1>9 DEF Background, BeginOidc, LoseSession, WindowPasses, CooldownPasses, vars, rows
  <2>. QED
    BY <1>1, <1>7, <2>1
<1>. QED
  BY <1>8, <1>9, StepKinds

-----------------------------------------------------------------------------
(* Identities.                                                             *)

\* Whatever two first sign-ins of one identity do between their look-up and their
\* insert, it has one account, and no account of a password nobody knows is without.
LEMMA IdentitiesInductive ==
  ASSUME Shape, OneAccountPerIdentity /\ ProvisionedIsLinked, [Next]_vars
  PROVE  (OneAccountPerIdentity /\ ProvisionedIsLinked)'
<1>1. \A u \in Users : RowStep(u)
  BY RowSteps
<1>2. OneAccountPerIdentity'
  <2> SUFFICES ASSUME NEW u \in Users, NEW v \in Users, account'[u].st = "live",
                      account'[v].st = "live", account'[u].subject = account'[v].subject,
                      u # v, account'[u].subject # None
               PROVE  FALSE
    BY DEF OneAccountPerIdentity, Live
  <2>. DEFINE Old(w) == Live(w) /\ account'[w].subject = account[w].subject
  <2>1. /\ Old(u) \/ RowLinked(u)
        /\ Old(v) \/ RowLinked(v)
    BY <1>1 DEF RowStep, RowKept, RowRenewed, RowLocal, RowDeleted, Live
  <2>2. CASE Old(u) /\ Old(v)
    BY <2>2 DEF OneAccountPerIdentity
  <2>3. CASE RowLinked(u)
    <3>1. RowKept(v)
      BY <2>3 DEF RowLinked
    <3>. QED
      BY <2>3, <3>1 DEF RowLinked, RowKept, Live
  <2>4. CASE RowLinked(v)
    <3>1. RowKept(u)
      BY <2>4 DEF RowLinked
    <3>. QED
      BY <2>4, <3>1 DEF RowLinked, RowKept, Live
  <2>. QED
    BY <2>1, <2>2, <2>3, <2>4
<1>3. ProvisionedIsLinked'
  BY <1>1, AccountAssumption DEF ProvisionedIsLinked, Live, RowStep, RowKept, RowRenewed,
     RowLocal, RowLinked, RowDeleted
<1>. QED
  BY <1>2, <1>3

\* The cookie of a browser is that of the attempt it began last, if it has one.
CookieIsLast == cookie \in {0, count.attempts}

LEMMA CookieInductive ==
  ASSUME Shape, CookieIsLast, [Next]_vars
  PROVE  CookieIsLast'
<1>1. ASSUME cookie' \in {0, cookie}, count' = count \/ count' = [count EXCEPT !.requests = @ + 1]
      PROVE  CookieIsLast'
  BY <1>1 DEF CookieIsLast, Shape, TypeOK
<1>2. ASSUME NEW r \in Requests, Serve(r) PROVE CookieIsLast'
  <2>1. CASE LeaseRunsOut(r) \/ Die(r) \/ MapRole(r) \/ Provision(r) \/ LookUp(r) \/ Exchange(r)
             \/ (\E i \in 1 .. MaxAttempts : Callback(r, i)) \/ \E s \in Subjects : BeginHeader(r, s)
    <3>1. cookie' \in {0, cookie}
      BY <2>1 DEF LeaseRunsOut, Die, MapRole, Provision, LookUp, Exchange, Callback, BeginHeader, oidc
    <3>2. count' = count \/ Counted
      BY <2>1 DEF LeaseRunsOut, Die, MapRole, Provision, LookUp, Exchange, Callback, BeginHeader
    <3>. QED
      BY <1>1, <3>1, <3>2 DEF Counted
  <2>2. CASE ~(\/ LeaseRunsOut(r) \/ Die(r) \/ MapRole(r) \/ Provision(r) \/ LookUp(r)
               \/ Exchange(r) \/ (\E i \in 1 .. MaxAttempts : Callback(r, i))
               \/ \E s \in Subjects : BeginHeader(r, s))
    <3>1. cookie' \in {0, cookie}
      BY <1>2, <2>2 DEF Serve, BeginLogin, BeginAdmin, AcquireLease, Recheck, Verify, CountFailure,
         ClearBucket, ReleaseLease, IssueSession, BeginChange, Confirm, ChangePassword,
         ResetPassword, CreateUser, ReadTarget, ToggleAdmin, DeleteUser, oidc
    <3>2. count' = count \/ Counted
      BY <1>2, <2>2 DEF Serve, BeginLogin, BeginAdmin, AcquireLease, Recheck, Verify, CountFailure,
         ClearBucket, ReleaseLease, IssueSession, BeginChange, Confirm, ChangePassword,
         ResetPassword, CreateUser, ReadTarget, ToggleAdmin, DeleteUser
    <3>. QED
      BY <1>1, <3>1, <3>2 DEF Counted
  <2>. QED
    BY <2>1, <2>2
<1>3. ASSUME Background PROVE CookieIsLast'
  <2>1. CASE BeginOidc
    BY <2>1 DEF BeginOidc, CookieIsLast, Shape, TypeOK
  <2>2. CASE Restart
    BY <2>2 DEF Restart, CookieIsLast, Shape, TypeOK, oidc
  <2>3. CASE Background /\ ~BeginOidc /\ ~Restart
    <3>1. cookie' = cookie /\ (count' = count \/ Counted)
      BY <2>3 DEF Background, LoseSession, WindowPasses, CooldownPasses, vars, oidc
    <3>. QED
      BY <1>1, <3>1 DEF Counted
  <2>. QED
    BY <1>3, <2>1, <2>2, <2>3
<1>. QED
  BY <1>2, <1>3, StepKinds

\* Only a callback begins an exchange.
LEMMA ExchangeBegins ==
  ASSUME Shape, [Next]_vars, NEW r \in Requests, request[r].pc = "idle",
         request'[r].pc = "exchange"
  PROVE  \E i \in 1 .. MaxAttempts : Callback(r, i)
<1>a. request \in [Requests -> Request] /\ request[r] \in Request
  BY DEF Shape, TypeOK
<1>b. Rest.pc = "idle"
  BY RestShaped
<1>1. ASSUME NEW q \in Requests, Serve(q), q # r PROVE FALSE
  BY <1>1, OthersSame DEF Same
<1>2. ASSUME Background PROVE FALSE
  BY <1>2, BackgroundFrame
<1>3. Serve(r)
  BY <1>1, <1>2, StepKinds
<1>4. ASSUME NEW kind, NEW pc, NEW u, Begin(r, kind, pc, u) PROVE pc = "exchange"
  BY <1>a, <1>4 DEF Begin, Rest
<1>5. ~\E u \in Users : BeginLogin(r, u) \/ BeginAdmin(r, u)
  BY <1>4 DEF BeginLogin, BeginAdmin
<1>6. ~BeginChange(r)
  BY <1>4 DEF BeginChange
<1>7. ~\E s \in Subjects : BeginHeader(r, s)
  <2>1. ASSUME NEW s, BeginHeader(r, s) PROVE FALSE
    <3>1. PICK b : request' = [request EXCEPT ![r] =
                     [Rest EXCEPT !.kind = "header", !.pc = "look", !.subject = s, !.flag = b]]
      BY <2>1 DEF BeginHeader
    <3>. QED
      BY <1>a, <3>1 DEF Rest
  <2>. QED
    BY <2>1
<1>8. ~LeaseRunsOut(r)
  BY <1>a DEF LeaseRunsOut, Request
<1>. QED
  BY <1>3, <1>5, <1>6, <1>7, <1>8 DEF Serve, AcquireLease, Recheck, Verify, CountFailure,
     ClearBucket, ReleaseLease, IssueSession, Confirm, ChangePassword, ResetPassword, CreateUser,
     ReadTarget, ToggleAdmin, DeleteUser, Exchange, LookUp, Provision, MapRole, Die

LEMMA AttemptIsOwn ==
  ASSUME Shape, CookieIsLast, [Next]_vars, NEW r \in Requests, request[r].pc = "idle",
         request'[r].pc = "exchange"
  PROVE  request'[r].attempt = count.attempts
<1>1. PICK i \in 1 .. MaxAttempts : Callback(r, i)
  BY ExchangeBegins
<1>2. cookie = i
  BY <1>1 DEF Callback, StateMatches
<1>3. request' = [request EXCEPT ![r] = [Rest EXCEPT !.kind = "oidc", !.pc = "exchange",
                                                      !.attempt = i]]
  BY <1>1, <1>2 DEF Callback, StateMatches
<1>4. request'[r].attempt = i
  BY <1>3 DEF Rest, Shape, TypeOK
<1>5. i # 0
  BY BoundAssumption
<1>. QED
  BY <1>2, <1>4, <1>5 DEF CookieIsLast

\* Who signs in through an identity provider gets the one account of the identity, by
\* the attempt the browser began last, for any number of requests, browsers' returns and
\* accounts.
THEOREM IdentitiesOwned == Spec => OwnIdentity
<1>1. Init => /\ OneAccountPerIdentity /\ ProvisionedIsLinked
              /\ CookieIsLast
  <2> SUFFICES ASSUME Init
               PROVE  OneAccountPerIdentity /\ ProvisionedIsLinked /\ CookieIsLast
    OBVIOUS
  <2>1. \A u \in Users : account[u].subject = None /\ account[u].password = "own"
    <3>1. PICK admin \in Founders : account = [u \in Users |->
                    IF u \in Founders THEN [Local(TRUE) EXCEPT !.seed = (u = admin)] ELSE Unused]
      BY DEF Init
    <3>. QED
      BY <3>1 DEF Local, Unused
  <2>2. cookie = 0
    BY DEF Init
  <2>. QED
    BY <2>1, <2>2 DEF OneAccountPerIdentity, ProvisionedIsLinked, CookieIsLast
<1>2. /\ Shape /\ (OneAccountPerIdentity /\ ProvisionedIsLinked) /\ [Next]_vars
           => (OneAccountPerIdentity /\ ProvisionedIsLinked)'
      /\ Shape /\ CookieIsLast /\ [Next]_vars => CookieIsLast'
  BY IdentitiesInductive, CookieInductive
<1>. DEFINE Own == \A r \in Requests : request[r].pc = "idle" /\ request'[r].pc = "exchange"
                      => request'[r].attempt = count.attempts
<1>3. Shape /\ CookieIsLast /\ [Next]_vars => [Own]_vars
  BY AttemptIsOwn
<1>4. Spec => [](OneAccountPerIdentity /\ ProvisionedIsLinked)
  BY <1>1, <1>2, ShapeHolds, PTL DEF Spec
<1>5. Spec => [][Own]_vars
  <2>. HIDE DEF Own
  <2>. QED
    BY <1>1, <1>2, <1>3, ShapeHolds, PTL DEF Spec
<1>. QED
  BY <1>4, <1>5 DEF OwnIdentity, OwnAttempt

-----------------------------------------------------------------------------
(* Passwords and their versions.                                           *)

\* Whom a cookie or a request was accepted for has an account, deleted perhaps; no
\* version is ahead of the account's.
KnownUser(r) ==
  LET q == request[r] IN
    /\ q.pc \in {"clear", "release", "issue", "map"} => account[q.user].st # "unused"
    /\ q.pc \in {"confirm", "write"} /\ q.kind = "change" => account[q.user].st # "unused"
    /\ q.pc = "write" /\ q.kind \in {"toggle", "delete"} => account[q.user].st # "unused"
    /\ q.pc = "issue" /\ q.kind = "change" => q.version <= account[q.user].version

Numbered == \A u \in Users : account[u].st # "unused" => account[u].version >= 1
Cookies  == \A t \in sessions : /\ account[t.user].st # "unused"
                               /\ t.version <= account[t.user].version
Known    == Numbered /\ Cookies /\ \A r \in Requests : KnownUser(r)

\* Accounts are not forgotten, versions grow, and nobody comes back to life.
Grows(u) == account[u].st # "unused" =>
              /\ account'[u].st # "unused"
              /\ account'[u].version >= account[u].version
              /\ account'[u].st = "live" => account[u].st = "live"

LEMMA RowsGrow ==
  ASSUME Shape, Known, [Next]_vars
  PROVE  /\ \A u \in Users : Grows(u)
         /\ Numbered'
<1>a. \A u \in Users : account[u].version \in Nat
  BY DEF Shape, TypeOK, Account, Version
<1>1. \A u \in Users : RowStep(u)
  BY RowSteps
<1>2. ASSUME NEW u \in Users, RowDeleted(u) PROVE account[u].st # "unused"
  BY <1>2 DEF RowDeleted, Known, KnownUser
<1>3. \A u \in Users : Grows(u)
  BY <1>a, <1>1 DEF Grows, RowStep, RowKept, RowRenewed, RowLocal, RowLinked, RowDeleted
<1>4. Numbered'
  BY <1>a, <1>1, <1>2 DEF Known, Numbered, RowStep, RowKept, RowRenewed, RowLocal, RowLinked,
     RowDeleted
<1>. QED
  BY <1>3, <1>4

\* What was known of a request stays known while it stays where it is.
LEMMA KnownStays ==
  ASSUME Shape, Known, [Next]_vars, NEW q \in Requests,
         request'[q].pc = request[q].pc, request'[q].kind = request[q].kind,
         request'[q].user = request[q].user, request'[q].version = request[q].version
  PROVE  KnownUser(q)'
<1>1. CASE request[q].pc \in {"idle", "exchange", "look", "provision"}
  BY <1>1 DEF KnownUser
<1>2. CASE request[q].pc \notin {"idle", "exchange", "look", "provision"}
  <2>1. request[q].user \in Users
    BY <1>2 DEF Shape, WellFormed
  <2>2. /\ account[request[q].user].version \in Nat /\ account'[request[q].user].version \in Nat
        /\ request[q].version \in Nat
    BY <2>1, ShapeInductive DEF Shape, TypeOK, Account, Request, Version
  <2>3. Grows(request[q].user)
    BY <2>1, RowsGrow
  <2>4. KnownUser(q)
    BY DEF Known
  <2>. QED
    BY <2>2, <2>3, <2>4 DEF KnownUser, Grows
<1>. QED
  BY <1>1, <1>2

LEMMA KnownMoves ==
  ASSUME Shape, Known, [Next]_vars, NEW r \in Requests, Serve(r)
  PROVE  KnownUser(r)'
<1>a. request \in [Requests -> Request] /\ request[r] \in Request
  BY DEF Shape, TypeOK
<1>b. Rest.pc = "idle"
  BY RestShaped
<1>c. KnownUser(r)
  BY DEF Known
<1>d. \A u \in Users : Grows(u)
  BY RowsGrow
<1>e. WellFormed(request[r])
  BY DEF Shape
<1>1. ASSUME request'[r].pc \in {"idle", "lease", "recheck", "verify", "count", "leave", "read",
                                 "exchange", "look", "provision"}
      PROVE  KnownUser(r)'
  BY <1>1 DEF KnownUser
\* Steps to another place that keep the account.
<1>2. ASSUME NEW pc, Goto(r, pc), request[r].user \in Users, account[request[r].user].st # "unused",
             pc = "issue" => request[r].kind # "change"
      PROVE  KnownUser(r)'
  <2>1. /\ request'[r].pc = pc /\ request'[r].user = request[r].user
        /\ request'[r].kind = request[r].kind
    BY <1>2, <1>a DEF Goto, Request
  <2>. QED
    BY <1>2, <1>d, <2>1 DEF KnownUser, Grows
<1>3. CASE \/ \E u \in Users : BeginLogin(r, u)
           \/ (\E s \in Subjects : BeginHeader(r, s))
           \/ \E i \in 1 .. MaxAttempts : Callback(r, i)
  <2>1. CASE \E u \in Users : BeginLogin(r, u)
    <3>1. PICK u \in Users : Begin(r, "login", "lease", u)
      BY <2>1 DEF BeginLogin
    <3>2. request'[r].pc = "lease"
      BY <1>a, <3>1 DEF Begin, Rest
    <3>. QED
      BY <1>1, <3>2
  <2>2. CASE \E s \in Subjects : BeginHeader(r, s)
    <3>1. PICK s, b : request' = [request EXCEPT ![r] =
                     [Rest EXCEPT !.kind = "header", !.pc = "look", !.subject = s, !.flag = b]]
      BY <2>2 DEF BeginHeader
    <3>2. request'[r].pc = "look"
      BY <1>a, <3>1 DEF Rest
    <3>. QED
      BY <1>1, <3>2
  <2>3. CASE \E i \in 1 .. MaxAttempts : Callback(r, i)
    <3>1. PICK i : \/ request' = [request EXCEPT ![r] =
                        [Rest EXCEPT !.kind = "oidc", !.pc = "exchange", !.attempt = i]]
                   \/ request' = request /\ request[r].pc = "idle"
      BY <2>3 DEF Callback
    <3>2. request'[r].pc \in {"exchange", "idle"}
      BY <1>a, <3>1 DEF Rest
    <3>. QED
      BY <1>1, <3>2
  <2>. QED
    BY <1>3, <2>1, <2>2, <2>3
<1>4. CASE \E u \in Users : BeginAdmin(r, u)
  <2>1. PICK u \in Users : BeginAdmin(r, u)
    BY <1>4
  <2>2. PICK kind, pc : /\ Begin(r, kind, pc, u)
                        /\ \/ kind \in {"toggle", "delete"} /\ pc = "read"
                           \/ kind \in {"reset", "create"} /\ pc = "write"
    BY <2>1 DEF BeginAdmin
  <2>3. request'[r].pc = pc /\ request'[r].kind = kind
    BY <1>a, <2>2 DEF Begin, Rest
  <2>. QED
    BY <2>2, <2>3 DEF KnownUser
<1>5. CASE BeginChange(r)
  <2>1. PICK t \in sessions : Begin(r, "change", "confirm", t.user)
    BY <1>5 DEF BeginChange
  <2>2. request'[r].pc = "confirm" /\ request'[r].user = t.user
    BY <1>a, <2>1 DEF Begin, Rest
  <2>3. account'[t.user].st # "unused"
    BY <1>d DEF Known, Cookies, Shape, TypeOK, Session, Grows
  <2>. QED
    BY <2>2, <2>3 DEF KnownUser
<1>6. CASE AcquireLease(r)
  <2>1. End(r) \/ request' = [request EXCEPT ![r].pc = "recheck", ![r].alone = TRUE]
    BY <1>6 DEF AcquireLease
  <2>2. request'[r].pc \in {"idle", "recheck"}
    BY <1>a, <1>b, <2>1 DEF End, Request
  <2>. QED
    BY <1>1, <2>2
<1>7. CASE Recheck(r) \/ Verify(r)
  <2>1. CASE Goto(r, "leave") \/ Goto(r, "verify") \/ Goto(r, "count")
    <3>1. request'[r].pc \in {"leave", "verify", "count"}
      BY <1>a, <2>1 DEF Goto, Request
    <3>. QED
      BY <1>1, <3>1
  <2>2. CASE Goto(r, "clear") /\ Live(request[r].user) /\ request[r].pc = "verify"
    BY <1>2, <1>e, <2>2 DEF WellFormed, Live
  <2>. QED
    BY <1>7, <2>1, <2>2 DEF Recheck, Verify
<1>8. CASE CountFailure(r)
  <2>1. \E b : request'[r] = [request[r] EXCEPT !.pc = "leave", !.alone = b]
    BY <1>8 DEF CountFailure
  <2>2. request'[r].pc = "leave"
    BY <1>a, <2>1 DEF Request
  <2>. QED
    BY <1>1, <2>2
<1>9. CASE ClearBucket(r) \/ ReleaseLease(r)
  <2>1. End(r) \/ \E pc \in {"release", "issue"} : /\ Goto(r, pc)
                                                  /\ request[r].pc \in {"clear", "release"}
    BY <1>9 DEF ClearBucket, ReleaseLease
  <2>2. End(r) => request'[r].pc = "idle"
    BY <1>a, <1>b DEF End
  <2>3. request[r].pc \in {"clear", "release"} =>
          request[r].user \in Users /\ account[request[r].user].st # "unused" /\ request[r].kind = "login"
    BY <1>c, <1>e DEF WellFormed, KnownUser, LoginPC
  <2>. QED
    BY <1>1, <1>2, <2>1, <2>2, <2>3
<1>10. CASE \/ IssueSession(r) \/ ResetPassword(r) \/ CreateUser(r) \/ Die(r)
            \/ ToggleAdmin(r) \/ DeleteUser(r)
  <2>1. request'[r] = Rest
    <3>1. End(r) \/ \E u, b : request' = [Outdated(u, b) EXCEPT ![r] = Rest]
      BY <1>10 DEF IssueSession, ResetPassword, CreateUser, Die, ToggleAdmin, DeleteUser
    <3>. QED
      BY <1>a, <3>1 DEF End, Outdated
  <2>. QED
    BY <1>1, <1>b, <2>1
<1>11. CASE Confirm(r) \/ LookUp(r) \/ Exchange(r)
  <2>1. CASE Confirm(r)
    <3>1. End(r) \/ (Goto(r, "write") /\ request[r].pc = "confirm")
      BY <2>1 DEF Confirm
    <3>2. End(r) => request'[r].pc = "idle"
      BY <1>a, <1>b DEF End
    <3>3. request[r].pc = "confirm" => request[r].user \in Users /\ account[request[r].user].st # "unused"
      BY <1>c, <1>e DEF WellFormed, KnownUser
    <3>. QED
      BY <1>1, <1>2, <3>1, <3>2, <3>3
  <2>2. CASE LookUp(r)
    <3>1. CASE End(r) \/ Goto(r, "provision")
      <4>1. request'[r].pc \in {"idle", "provision"}
        BY <1>a, <1>b, <3>1 DEF End, Goto, Request
      <4>. QED
        BY <1>1, <4>1
    <3>2. CASE \E u \in Users : Live(u) /\ request' = [request EXCEPT ![r].pc = "map", ![r].user = u]
      <4>1. PICK u \in Users : Live(u) /\ request' = [request EXCEPT ![r].pc = "map", ![r].user = u]
        BY <3>2
      <4>2. request'[r].pc = "map" /\ request'[r].user = u
        BY <1>a, <4>1 DEF Request
      <4>. QED
        BY <1>d, <4>1, <4>2 DEF KnownUser, Grows, Live
    <3>. QED
      BY <2>2, <3>1, <3>2 DEF LookUp
  <2>3. CASE Exchange(r)
    <3>1. End(r) \/ \E s, b : request' = [request EXCEPT ![r].pc = "look", ![r].subject = s, ![r].flag = b]
      BY <2>3 DEF Exchange
    <3>2. End(r) => request'[r].pc = "idle"
      BY <1>a, <1>b DEF End
    <3>3. ASSUME NEW s, NEW b, request' = [request EXCEPT ![r].pc = "look", ![r].subject = s, ![r].flag = b]
          PROVE  request'[r].pc = "look"
      BY <1>a, <3>3 DEF Request
    <3>. QED
      BY <1>1, <3>1, <3>2, <3>3
  <2>. QED
    BY <1>11, <2>1, <2>2, <2>3
<1>12. CASE ChangePassword(r)
  <2>. DEFINE u == request[r].user
              n == IF Live(u) THEN account[u].version + 1 ELSE 1
  <2>1. u \in Users /\ account[u].st # "unused" /\ account[u].version \in Nat
    BY <1>12, <1>c, <1>e DEF ChangePassword, KnownUser, WellFormed, Shape, TypeOK, Account, Version
  <2>2. request'[r].pc = "issue" /\ request'[r].user = u /\ request'[r].version = n
    <3>1. request' = [request EXCEPT ![r].pc = "issue", ![r].version = n]
      BY <1>12 DEF ChangePassword
    <3>. HIDE DEF n
    <3>. QED
      BY <1>a, <3>1 DEF Request
  <2>3. account'[u].st # "unused" /\ n <= account'[u].version
    <3>1. CASE Live(u)
      <4>1. PICK p : account' = [NewPassword(u, p) EXCEPT ![u].forced = FALSE]
        BY <1>12, <3>1 DEF ChangePassword
      <4>2. account'[u].version = n
        <5>. DEFINE m == account[u].version + 1
        <5>1. account'[u] = [account[u] EXCEPT !.password = p, !.version = m, !.forced = FALSE]
          BY <2>1, <4>1 DEF NewPassword, Shape, TypeOK
        <5>2. account[u] \in Account
          BY <2>1 DEF Shape, TypeOK
        <5>. HIDE DEF m
        <5>3. account'[u].version = m
          BY <5>1, <5>2 DEF Account
        <5>. QED
          BY <3>1, <5>3 DEF m
      <4>. QED
        BY <1>d, <2>1, <3>1, <4>2 DEF Grows
    <3>2. CASE ~Live(u)
      <4>1. account' = account
        BY <1>12, <3>2 DEF ChangePassword
      <4>. QED
        BY <2>1, <3>2, <4>1 DEF Known, Numbered
    <3>. QED
      BY <3>1, <3>2
  <2>. QED
    BY <2>2, <2>3 DEF KnownUser
<1>13. CASE ReadTarget(r)
  <2>1. End(r) \/ (Live(request[r].user) /\ \E b : request' = [request EXCEPT ![r].pc = "write", ![r].flag = b])
    BY <1>13 DEF ReadTarget
  <2>2. CASE End(r)
    BY <1>1, <1>a, <1>b, <2>2 DEF End
  <2>3. CASE Live(request[r].user) /\ \E b : request' = [request EXCEPT ![r].pc = "write", ![r].flag = b]
    <3>1. request'[r].pc = "write" /\ request'[r].user = request[r].user
      BY <1>a, <2>3 DEF Request
    <3>2. request[r].user \in Users
      BY <1>13, <1>e DEF ReadTarget, WellFormed
    <3>. QED
      BY <1>d, <2>3, <3>1, <3>2 DEF KnownUser, Grows, Live
  <2>. QED
    BY <2>1, <2>2, <2>3
<1>14. CASE Provision(r)
  <2>1. \E u \in Users, pc \in {"issue", "map"} :
           /\ request' = [request EXCEPT ![r].pc = pc, ![r].user = u]
           /\ account'[u].st # "unused"
    <3>1. CASE \E u \in Users :
               /\ account' = [account EXCEPT ![u] =
                    [Local(request[r].flag) EXCEPT !.password = "random",
                                                   !.subject = request[r].subject]]
               /\ request' = [request EXCEPT ![r].pc = "issue", ![r].user = u]
      <4>1. PICK u \in Users :
               /\ account' = [account EXCEPT ![u] =
                    [Local(request[r].flag) EXCEPT !.password = "random",
                                                   !.subject = request[r].subject]]
               /\ request' = [request EXCEPT ![r].pc = "issue", ![r].user = u]
        BY <3>1
      <4>2. account'[u].st = "live"
        BY <4>1 DEF Local, Unused, Shape, TypeOK
      <4>. QED
        BY <4>1, <4>2
    <3>2. CASE \E u \in Users : /\ Live(u)
                               /\ request' = [request EXCEPT ![r].pc = "map", ![r].user = u]
      BY <1>d, <3>2 DEF Live, Grows
    <3>. QED
      BY <1>14, <3>1, <3>2 DEF Provision
  <2>2. PICK u \in Users, pc \in {"issue", "map"} :
           /\ request' = [request EXCEPT ![r].pc = pc, ![r].user = u]
           /\ account'[u].st # "unused"
    BY <2>1
  <2>3. /\ request'[r].pc = pc /\ request'[r].user = u /\ request'[r].kind = request[r].kind
    BY <1>a, <2>2 DEF Request
  <2>4. request[r].kind \in {"header", "oidc"}
    BY <1>14, <1>e DEF Provision, WellFormed
  <2>. QED
    BY <2>2, <2>3, <2>4 DEF KnownUser
<1>15. CASE MapRole(r)
  <2>1. \/ request' = [request EXCEPT ![r].pc = "issue"]
        \/ \E u, b : request' = [Outdated(u, b) EXCEPT ![r].pc = "issue"]
    BY <1>15 DEF MapRole, Goto
  <2>2. /\ request[r].pc = "map" /\ request[r].user \in Users
        /\ request[r].kind \in {"header", "oidc"} /\ account[request[r].user].st # "unused"
    BY <1>15, <1>c, <1>e DEF MapRole, WellFormed, KnownUser
  <2>3. \A u, b : /\ Outdated(u, b)[r].user = request[r].user
                  /\ Outdated(u, b)[r].kind = request[r].kind
    BY <1>a DEF Outdated, Request
  <2>4. \A u, b : request' = [Outdated(u, b) EXCEPT ![r].pc = "issue"] =>
           request'[r] = [Outdated(u, b)[r] EXCEPT !.pc = "issue"]
    BY DEF Outdated
  <2>5. request'[r].user = request[r].user /\ request'[r].kind = request[r].kind
    <3>1. CASE request' = [request EXCEPT ![r].pc = "issue"]
      BY <1>a, <3>1 DEF Request
    <3>2. CASE \E u, b : request' = [Outdated(u, b) EXCEPT ![r].pc = "issue"]
      <4>1. PICK u, b : request' = [Outdated(u, b) EXCEPT ![r].pc = "issue"]
        BY <3>2
      <4>2. request'[r] = [Outdated(u, b)[r] EXCEPT !.pc = "issue"]
        BY <2>4, <4>1
      <4>3. request'[r].user = Outdated(u, b)[r].user /\ request'[r].kind = Outdated(u, b)[r].kind
        BY <4>2
      <4>. QED
        BY <2>3, <4>3
    <3>. QED
      BY <2>1, <3>1, <3>2
  <2>. QED
    BY <1>d, <2>2, <2>5 DEF KnownUser, Grows
<1>16. CASE LeaseRunsOut(r)
  <2>1. /\ request'[r].pc = request[r].pc /\ request'[r].kind = request[r].kind
        /\ request'[r].user = request[r].user /\ request'[r].version = request[r].version
    BY <1>16, <1>a DEF LeaseRunsOut, Request
  <2>. QED
    BY <2>1, KnownStays
<1>. QED
  BY <1>3, <1>4, <1>5, <1>6, <1>7, <1>8, <1>9, <1>10, <1>11, <1>12, <1>13, <1>14, <1>15, <1>16
     DEF Serve

LEMMA KnownInductive ==
  ASSUME Shape, Known, [Next]_vars
  PROVE  Known'
<1>a. \A u \in Users : Grows(u) /\ account[u].version \in Nat /\ account'[u].version \in Nat
  BY RowsGrow, ShapeInductive DEF Shape, TypeOK, Account, Version
<1>b. \A t \in sessions : t.user \in Users /\ t.version \in Nat
  BY DEF Shape, TypeOK, Session, Version
<1>1. \A r \in Requests : KnownUser(r)'
  <2> SUFFICES ASSUME NEW q \in Requests PROVE KnownUser(q)'
    OBVIOUS
  <2>1. CASE \E r \in Requests : Serve(r)
    BY <2>1, KnownMoves, KnownStays, OthersSame DEF Same
  <2>2. CASE Background
    BY <2>2, KnownStays, BackgroundFrame
  <2>. QED
    BY <2>1, <2>2, StepKinds
<1>2. ASSUME sessions' \subseteq sessions PROVE Cookies'
  BY <1>2, <1>a, <1>b DEF Known, Cookies, Grows
<1>3. ASSUME NEW r \in Requests, IssueSession(r) PROVE Cookies'
  <2>. DEFINE u == request[r].user
              n == IF request[r].kind = "change" THEN request[r].version
                   ELSE IF Live(u) THEN account[u].version ELSE 1
  <2>1. /\ request[r].pc = "issue" /\ account' = account
        /\ sessions' = sessions \cup {[user |-> u, version |-> n]}
    BY <1>3 DEF IssueSession, rows
  <2>2. u \in Users /\ KnownUser(r)
    BY <2>1 DEF Shape, WellFormed, Known
  <2>3. account[u].st # "unused" /\ n <= account[u].version
    BY <1>a, <2>1, <2>2 DEF KnownUser, Known, Numbered
  <2>. HIDE DEF n, u
  <2>. QED
    BY <2>1, <2>3 DEF Known, Cookies
<1>4. Cookies'
  <2>1. ASSUME NEW r \in Requests, Serve(r) PROVE Cookies'
    <3>1. IssueSession(r) \/ sessions' = sessions
      BY <2>1 DEF Serve, BeginLogin, BeginAdmin, AcquireLease, Recheck, Verify, CountFailure,
         ClearBucket, ReleaseLease, BeginChange, Confirm, ChangePassword, ResetPassword,
         CreateUser, ReadTarget, ToggleAdmin, DeleteUser, BeginHeader, Callback, Exchange, LookUp,
         Provision, MapRole, Die, LeaseRunsOut
    <3>. QED
      BY <1>2, <1>3, <3>1
  <2>2. ASSUME Background PROVE Cookies'
    <3>1. sessions' \subseteq sessions
      BY <2>2 DEF Background, BeginOidc, LoseSession, WindowPasses, CooldownPasses, Restart, vars
    <3>. QED
      BY <1>2, <3>1
  <2>. QED
    BY <2>1, <2>2, StepKinds
<1>. QED
  BY <1>1, <1>4, RowsGrow DEF Known

LEMMA KnownInit == Init => Known
<1> SUFFICES ASSUME Init PROVE Known
  OBVIOUS
<1>1. \A u \in Users : /\ account[u].st # "unused" => account[u].version >= 1
                       /\ u \in Founders => account[u].st = "live" /\ account[u].version = 1
  <2>1. PICK admin \in Founders : account = [u \in Users |->
                    IF u \in Founders THEN [Local(TRUE) EXCEPT !.seed = (u = admin)] ELSE Unused]
    BY DEF Init
  <2>. QED
    <3>1. \A u \in Users : u \notin Founders => account[u].st = "unused"
      BY <2>1 DEF Unused
    <3>2. \A u \in Users : u \in Founders => account[u].st = "live" /\ account[u].version = 1
      BY <2>1 DEF Local, Unused
    <3>. QED
      BY <3>1, <3>2
<1>2. Cookies
  BY <1>1, AccountAssumption DEF Init, Cookies
<1>3. \A r \in Requests : KnownUser(r)
  BY RestShaped DEF Init, KnownUser
<1>. QED
  BY <1>1, <1>2, <1>3 DEF Known, Numbered

LEMMA KnownHolds == Spec => []Known
  BY KnownInit, KnownInductive, ShapeHolds, PTL DEF Spec

\* Only the change of a password brings its request to a new cookie.
LEMMA ChangeIssues ==
  ASSUME Shape, [Next]_vars, NEW r \in Requests, request[r].kind = "change",
         request[r].pc = "write", request'[r].pc = "issue"
  PROVE  ChangePassword(r)
<1>a. request \in [Requests -> Request] /\ request[r] \in Request
  BY DEF Shape, TypeOK
<1>1. ASSUME NEW q \in Requests, Serve(q), q # r PROVE FALSE
  BY <1>1, OthersSame DEF Same
<1>2. ASSUME Background PROVE FALSE
  BY <1>2, BackgroundFrame
<1>3. Serve(r)
  BY <1>1, <1>2, StepKinds
<1>4. ~LeaseRunsOut(r)
  BY <1>a DEF LeaseRunsOut, Request
<1>5. ~Die(r)
  BY <1>a, RestShaped DEF Die, End
<1>6. \A kind, pc, u : ~Begin(r, kind, pc, u)
  BY DEF Begin
<1>. QED
  BY <1>3, <1>4, <1>5, <1>6 DEF Serve, BeginLogin, BeginAdmin, BeginChange, BeginHeader, Callback,
     AcquireLease, Recheck, Verify, CountFailure, ClearBucket, ReleaseLease, IssueSession, Confirm,
     ResetPassword, CreateUser, ReadTarget, ToggleAdmin, DeleteUser, Exchange, LookUp, Provision,
     MapRole

\* For any number of accounts, cookies and requests: a refused cookie is refused for
\* good, and a change of password refuses every cookie of the account given out before.
THEOREM CookiesRevoked == Spec => RevokedForGood
<1>. DEFINE Revoked ==
       \A t \in sessions : Accepts(t)' =>
         /\ Accepts(t)
         /\ \A r \in Requests :
              request[r].kind = "change" /\ request[r].pc = "write" /\ request'[r].pc = "issue"
                => request[r].user # t.user
<1>1. Shape /\ Known /\ [Next]_vars => [Revoked]_vars
  <2> SUFFICES ASSUME Shape, Known, [Next]_vars, NEW t \in sessions, Accepts(t)'
               PROVE  /\ Accepts(t)
                      /\ \A r \in Requests :
                           request[r].kind = "change" /\ request[r].pc = "write" /\ request'[r].pc = "issue"
                             => request[r].user # t.user
    OBVIOUS
  <2>. DEFINE u == t.user
  <2>1. u \in Users /\ t.version \in Nat
    BY DEF Shape, TypeOK, Session, Version
  <2>2. account[u].version \in Nat /\ account'[u].version \in Nat
    BY <2>1, ShapeInductive DEF Shape, TypeOK, Account, Version
  <2>3. /\ account[u].st # "unused" /\ t.version <= account[u].version
        /\ Grows(u)
    BY <2>1, RowsGrow DEF Known, Cookies
  <2>4. account'[u].st = "live" /\ t.version = account'[u].version
    BY DEF Accepts, Live
  <2>5. Accepts(t)
    BY <2>2, <2>3, <2>4, <2>1 DEF Accepts, Live, Grows
  <2>6. ASSUME NEW r \in Requests, request[r].kind = "change", request[r].pc = "write",
               request'[r].pc = "issue", request[r].user = u
        PROVE  FALSE
    <3>1. ChangePassword(r) /\ Live(u)
      BY <2>5, <2>6, ChangeIssues DEF Accepts
    <3>2. PICK p : account' = [NewPassword(u, p) EXCEPT ![u].forced = FALSE]
      BY <2>6, <3>1 DEF ChangePassword
    <3>. DEFINE m == account[u].version + 1
    <3>3. account'[u] = [account[u] EXCEPT !.password = p, !.version = m, !.forced = FALSE]
      BY <2>1, <3>2 DEF NewPassword, Shape, TypeOK
    <3>4. account[u] \in Account
      BY <2>1 DEF Shape, TypeOK
    <3>. HIDE DEF m
    <3>5. account'[u].version = m
      BY <3>3, <3>4 DEF Account
    <3>. QED
      BY <2>2, <2>3, <2>4, <3>5 DEF m
  <2>. QED
    BY <2>5, <2>6
<1>2. Spec => [][Revoked]_vars
  <2>. HIDE DEF Revoked
  <2>. QED
    BY <1>1, ShapeHolds, KnownHolds, PTL DEF Spec
<1>. QED
  BY <1>2 DEF RevokedForGood

-----------------------------------------------------------------------------
(* The last administrator.                                                 *)

\* A request about to take an administrator away, having counted the others.
Removes(r) == /\ request[r].pc = "write"
              /\ request[r].kind = "delete" \/ (request[r].kind = "toggle" /\ ~request[r].flag)
Spares(r)  == request[r].user \notin Admins \/ Admins \ {request[r].user} # {}

\* Unless roles have changed since, its target is none or not the only one.
OthersLeft == \A r \in Requests : Removes(r) /\ ~request[r].stale => Spares(r)

\* How a step changes who is an administrator, and of which requests it takes the ground
\* away: v is a new account, u one whose role r writes.
Joins(v)     == account[v].st = "unused" /\ Admins \subseteq Admins' /\ Admins' \subseteq Admins \cup {v}
Grants(r)    == /\ Admins' = Admins \cup {request[r].user}
                /\ \A q \in Requests : q # r /\ request[q].pc = "write"
                                       /\ request[q].user = request[r].user => request'[q].stale
Withdraws(r) == /\ Admins' = Admins \ {request[r].user}
                /\ \A q \in Requests : q # r /\ request[q].pc = "write" => request'[q].stale

LEMMA Marks ==
  ASSUME Shape, NEW r \in Requests, NEW u, NEW granted \in BOOLEAN,
         \/ request' = [Outdated(u, granted) EXCEPT ![r] = Rest]
         \/ request' = [Outdated(u, granted) EXCEPT ![r].pc = "issue"]
  PROVE  \A q \in Requests : q # r /\ request[q].pc = "write" /\ (granted => request[q].user = u)
                               => request'[q].stale
<1> SUFFICES ASSUME NEW q \in Requests, q # r, request[q].pc = "write",
                    granted => request[q].user = u
             PROVE  request'[q].stale
  OBVIOUS
<1>. DEFINE b == request[q].stale \/ (request[q].pc = "write" /\ (granted => request[q].user = u))
<1>1. request'[q] = [request[q] EXCEPT !.stale = b]
  BY DEF Outdated
<1>2. b = TRUE
  BY DEF Shape, TypeOK, Request
<1>. HIDE DEF b
<1>. QED
  BY <1>1, <1>2 DEF Shape, TypeOK, Request

LEMMA AdminSteps ==
  ASSUME Shape, [Next]_vars
  PROVE  \/ Admins' = Admins
         \/ \E v \in Users : Joins(v)
         \/ \E r \in Requests : /\ (ToggleAdmin(r) /\ request[r].flag) \/ MapRole(r)
                                /\ Grants(r)
         \/ \E r \in Requests : /\ \/ (ToggleAdmin(r) /\ ~request[r].flag)
                                   \/ DeleteUser(r) \/ MapRole(r)
                                /\ Withdraws(r)
<1>. DEFINE Goal ==
         \/ Admins' = Admins
         \/ \E v \in Users : Joins(v)
         \/ \E r \in Requests : /\ (ToggleAdmin(r) /\ request[r].flag) \/ MapRole(r)
                                /\ Grants(r)
         \/ \E r \in Requests : /\ \/ (ToggleAdmin(r) /\ ~request[r].flag)
                                   \/ DeleteUser(r) \/ MapRole(r)
                                /\ Withdraws(r)
<1>a. account \in [Users -> Account] /\ \A u \in Users : account[u] \in Account
  BY DEF Shape, TypeOK
<1>b. \A r \in Requests : /\ request[r].pc \in {"write", "map"} => request[r].user \in Users
                          /\ request[r].flag \in BOOLEAN
  BY DEF Shape, TypeOK, Request, WellFormed
<1>1. ASSUME \A u \in Users : account'[u].st = account[u].st /\ account'[u].admin = account[u].admin
      PROVE  Goal
  BY <1>1 DEF Admins, Live
<1>2. ASSUME NEW u \in Users, account[u].st = "unused", \A v \in Users \ {u} : account'[v] = account[v]
      PROVE  Goal
  <2>1. u \notin Admins
    BY <1>2 DEF Admins, Live
  <2>2. Joins(u)
    BY <1>2, <2>1 DEF Admins, Live, Joins
  <2>. QED
    BY <2>2
<1>3. ASSUME NEW u \in Users, NEW b \in BOOLEAN, account' = [account EXCEPT ![u].admin = b], Live(u)
      PROVE  Admins' = IF b THEN Admins \cup {u} ELSE Admins \ {u}
  <2>1. \A v \in Users : v # u => account'[v] = account[v]
    BY <1>3, <1>a
  <2>2. account'[u].st = "live" /\ account'[u].admin = b
    BY <1>3, <1>a DEF Account, Live
  <2>. QED
    BY <2>1, <2>2 DEF Admins, Live
<1>4. ASSUME NEW r \in Requests, ToggleAdmin(r) PROVE Goal
  <2>1. CASE ~Live(request[r].user)
    BY <1>1, <1>4, <2>1 DEF ToggleAdmin
  <2>2. CASE Live(request[r].user)
    <3>1. /\ account' = [account EXCEPT ![request[r].user].admin = request[r].flag]
          /\ request[r].user \in Users /\ request[r].flag \in BOOLEAN
          /\ request' = [Outdated(request[r].user, request[r].flag) EXCEPT ![r] = Rest]
      BY <1>4, <1>b, <2>2 DEF ToggleAdmin
    <3>2. Admins' = IF request[r].flag THEN Admins \cup {request[r].user}
                    ELSE Admins \ {request[r].user}
      BY <1>3, <2>2, <3>1
    <3>3. \A q \in Requests : q # r /\ request[q].pc = "write"
                               /\ (request[r].flag => request[q].user = request[r].user)
                               => request'[q].stale
      BY <3>1, Marks
    <3>4. IF request[r].flag THEN Grants(r) ELSE Withdraws(r)
      BY <3>1, <3>2, <3>3 DEF Grants, Withdraws
    <3>. QED
      BY <1>4, <3>4
  <2>. QED
    BY <2>1, <2>2
<1>5. ASSUME NEW r \in Requests, MapRole(r) PROVE Goal
  <2>1. CASE account' = account
    BY <1>1, <2>1
  <2>2. CASE account' # account
    <3>1. /\ account' = [account EXCEPT ![request[r].user].admin = request[r].flag]
          /\ request[r].user \in Users /\ request[r].flag \in BOOLEAN /\ Live(request[r].user)
          /\ request' = [Outdated(request[r].user, request[r].flag) EXCEPT ![r].pc = "issue"]
      BY <1>5, <1>b, <2>2 DEF MapRole
    <3>2. Admins' = IF request[r].flag THEN Admins \cup {request[r].user}
                    ELSE Admins \ {request[r].user}
      BY <1>3, <3>1
    <3>3. \A q \in Requests : q # r /\ request[q].pc = "write"
                               /\ (request[r].flag => request[q].user = request[r].user)
                               => request'[q].stale
      BY <3>1, Marks
    <3>4. IF request[r].flag THEN Grants(r) ELSE Withdraws(r)
      BY <3>1, <3>2, <3>3 DEF Grants, Withdraws
    <3>. QED
      BY <1>5, <3>4
  <2>. QED
    BY <2>1, <2>2
<1>6. ASSUME NEW r \in Requests, DeleteUser(r) PROVE Goal
  <2>. DEFINE u == request[r].user
  <2>1. /\ u \in Users /\ request' = [Outdated(u, FALSE) EXCEPT ![r] = Rest]
        /\ account' = [account EXCEPT ![u] = [account[u] EXCEPT !.st = "deleted", !.subject = None,
                                                !.admin = FALSE, !.seed = FALSE]]
    BY <1>6, <1>a, <1>b DEF DeleteUser
  <2>2. account'[u].st = "deleted"
    BY <1>a, <2>1 DEF Account
  <2>3. \A v \in Users : v # u => account'[v] = account[v]
    BY <1>a, <2>1
  <2>4. Admins' = Admins \ {u}
    BY <2>1, <2>2, <2>3 DEF Admins, Live
  <2>5. \A q \in Requests : q # r /\ request[q].pc = "write" => request'[q].stale
    BY <2>1, Marks
  <2>6. Withdraws(r)
    BY <2>4, <2>5 DEF Withdraws
  <2>. QED
    BY <1>6, <2>6
<1>7. ASSUME NEW u \in Users, NEW p, NEW q,
             \/ account' = NewPassword(u, p)
             \/ account' = [NewPassword(u, p) EXCEPT ![u].forced = q]
      PROVE  Goal
  <2>. DEFINE n == account[u].version + 1
  <2>1. NewPassword(u, p) = [account EXCEPT ![u] = [account[u] EXCEPT !.password = p, !.version = n]]
    BY <1>a DEF NewPassword
  <2>2. \A v \in Users : v # u => account'[v] = account[v]
    BY <1>7, <1>a, <2>1
  <2>3. \/ account'[u] = [account[u] EXCEPT !.password = p, !.version = n]
        \/ account'[u] = [account[u] EXCEPT !.password = p, !.version = n, !.forced = q]
    BY <1>7, <1>a, <2>1
  <2>. HIDE DEF n
  <2>4. account'[u].st = account[u].st /\ account'[u].admin = account[u].admin
    BY <1>a, <2>3 DEF Account
  <2>. QED
    BY <1>1, <2>2, <2>4
<1>8. ASSUME NEW r \in Requests, ChangePassword(r) \/ ResetPassword(r) PROVE Goal
  BY <1>1, <1>7, <1>8, <1>b DEF ChangePassword, ResetPassword
<1>9. ASSUME NEW r \in Requests, CreateUser(r) PROVE Goal
  <2>1. \/ account' = account
        \/ /\ account[request[r].user].st = "unused"
           /\ \A v \in Users \ {request[r].user} : account'[v] = account[v]
    BY <1>9, <1>a, <1>b DEF CreateUser
  <2>. QED
    BY <1>1, <1>2, <1>9, <1>b, <2>1 DEF CreateUser
<1>10. ASSUME NEW r \in Requests, Provision(r) PROVE Goal
  <2>1. \/ account' = account
        \/ \E u \in Users : /\ account[u].st = "unused"
                            /\ \A v \in Users \ {u} : account'[v] = account[v]
    BY <1>10, <1>a DEF Provision, RollsBack
  <2>. HIDE DEF Goal
  <2>. QED
    BY <1>1, <1>2, <2>1
<1>11. ASSUME Restart PROVE Goal
  <2>1. CASE account' = [u \in Users |-> [account[u] EXCEPT !.forced = @ \/
                           (/\ account[u].seed /\ account[u].password = "default"
                            /\ account[u].subject = None)]]
    <3>1. \A u \in Users : account'[u].st = account[u].st /\ account'[u].admin = account[u].admin
      BY <1>a, <2>1 DEF Account
    <3>. QED
      BY <1>1, <3>1
  <2>2. CASE \E u \in Users : /\ account[u].st = "unused"
               /\ account' = [account EXCEPT ![u] = [Local(TRUE) EXCEPT !.seed = TRUE,
                                !.forced = TRUE, !.password = "default"]]
    <3>1. \E u \in Users : /\ account[u].st = "unused"
                          /\ \A v \in Users \ {u} : account'[v] = account[v]
      BY <1>a, <2>2
    <3>. HIDE DEF Goal
    <3>. QED
      BY <1>2, <3>1
  <2>. QED
    BY <1>11, <2>1, <2>2 DEF Restart
<1>12. ASSUME NEW r \in Requests, Serve(r) PROVE Goal
  <2>1. CASE ~(\/ ChangePassword(r) \/ ResetPassword(r) \/ CreateUser(r) \/ ToggleAdmin(r)
               \/ MapRole(r) \/ DeleteUser(r) \/ Provision(r))
    <3>1. account' = account
      BY <1>12, <2>1 DEF Serve, BeginLogin, BeginAdmin, AcquireLease, Recheck, Verify,
         CountFailure, ClearBucket, ReleaseLease, IssueSession, BeginChange, Confirm, ReadTarget,
         BeginHeader, Callback, Exchange, LookUp, Die, LeaseRunsOut, rows
    <3>. QED
      BY <1>1, <3>1
  <2>. HIDE DEF Goal
  <2>. QED
    BY <1>4, <1>5, <1>6, <1>8, <1>9, <1>10, <2>1
<1>13. ASSUME Background PROVE Goal
  <2>1. Restart \/ account' = account
    BY <1>13 DEF Background, BeginOidc, LoseSession, WindowPasses, CooldownPasses, vars, rows
  <2>. HIDE DEF Goal
  <2>2. CASE Restart
    BY <1>11, <2>2
  <2>3. CASE account' = account
    BY <1>1, <2>3
  <2>. QED
    BY <2>1, <2>2, <2>3
<1>. HIDE DEF Goal
<1>14. Goal
  BY <1>12, <1>13, StepKinds
<1>. QED
  BY <1>14 DEF Goal

LEMMA MapIssues ==
  ASSUME Shape, NEW r \in Requests, MapRole(r)
  PROVE  request[r].pc = "map" /\ request'[r].pc = "issue"
<1>a. request \in [Requests -> Request] /\ request[r] \in Request
  BY DEF Shape, TypeOK
<1>1. \/ request' = [request EXCEPT ![r].pc = "issue"]
      \/ request' = [Outdated(request[r].user, request[r].flag) EXCEPT ![r].pc = "issue"]
  BY DEF MapRole, Goto
<1>2. CASE request' = [request EXCEPT ![r].pc = "issue"]
  BY <1>a, <1>2 DEF Request, MapRole
<1>3. CASE request' = [Outdated(request[r].user, request[r].flag) EXCEPT ![r].pc = "issue"]
  <2>. DEFINE f == Outdated(request[r].user, request[r].flag)
  <2>1. f[r] = [request[r] EXCEPT !.stale =
                  @ \/ (request[r].pc = "write" /\ (request[r].flag => request[r].user = request[r].user))]
    BY DEF Outdated
  <2>2. request'[r] = [f[r] EXCEPT !.pc = "issue"]
    BY <1>3 DEF Outdated
  <2>. QED
    BY <2>1, <2>2, <1>a DEF Request, MapRole
<1>. QED
  BY <1>1, <1>2, <1>3

\* Where a request is that has written a role, and where it was.
LEMMA RoleWriters ==
  ASSUME Shape, NEW r \in Requests, ToggleAdmin(r) \/ DeleteUser(r)
  PROVE  request[r].pc = "write" /\ request'[r].pc = "idle"
<1>a. request \in [Requests -> Request]
  BY DEF Shape, TypeOK
<1>1. \E u, b : request' = [Outdated(u, b) EXCEPT ![r] = Rest]
  BY DEF ToggleAdmin, DeleteUser
<1>2. request'[r] = Rest
  BY <1>1 DEF Outdated
<1>. QED
  BY <1>2, RestShaped DEF ToggleAdmin, DeleteUser

LEMMA OthersLeftInductive ==
  ASSUME Shape, Known, OthersLeft, [Next]_vars
  PROVE  OthersLeft'
<1>a. request \in [Requests -> Request] /\ \A q \in Requests : request[q] \in Request
  BY DEF Shape, TypeOK
<1>1. ASSUME NEW q \in Requests, Same(q), Removes(q)', ~request'[q].stale
      PROVE  Removes(q) /\ ~request[q].stale /\ request'[q].user = request[q].user /\ Spares(q)
  BY <1>1 DEF Same, Removes, OthersLeft
<1>2. ASSUME NEW q \in Requests, Same(q), Removes(q)', ~request'[q].stale
      PROVE  Spares(q)'
  <2>1. /\ request[q].pc = "write" /\ request[q].kind \in {"delete", "toggle"}
        /\ request'[q].user = request[q].user
        /\ Spares(q)
    BY <1>1, <1>2 DEF Removes
  <2>2. account[request[q].user].st # "unused"
    BY <2>1 DEF Known, KnownUser
  <2>3. ASSUME NEW v \in Users, Joins(v) PROVE Spares(q)'
    BY <2>1, <2>2, <2>3 DEF Spares, Joins
  <2>a. ASSUME NEW r \in Requests, ToggleAdmin(r) \/ DeleteUser(r) \/ MapRole(r) PROVE r # q
    BY <1>2, <2>a, RoleWriters, MapIssues DEF Removes
  <2>4. ASSUME NEW r \in Requests, r # q, Grants(r) PROVE Spares(q)'
    <3>1. request[q].user # request[r].user
      BY <1>2, <2>1, <2>4 DEF Grants
    <3>. QED
      BY <2>1, <2>4, <3>1 DEF Spares, Grants
  <2>5. ASSUME NEW r \in Requests, r # q, Withdraws(r) PROVE FALSE
    BY <1>2, <2>1, <2>5 DEF Withdraws
  <2>6. ASSUME Admins' = Admins PROVE Spares(q)'
    BY <2>1, <2>6 DEF Spares
  <2>. QED
    BY <2>3, <2>4, <2>5, <2>6, <2>a, AdminSteps
<1>3. ASSUME NEW r \in Requests, Serve(r), Removes(r)', ~request'[r].stale
      PROVE  Spares(r)'
  <2>1. CASE ReadTarget(r)
    <3>1. /\ account[request[r].user].admin /\ Live(request[r].user) => Admins \ {request[r].user} # {}
          /\ request' = [request EXCEPT ![r].pc = "write", ![r].flag = ~account[request[r].user].admin]
      <4>1. request' # [request EXCEPT ![r] = Rest]
        BY <1>3, <1>a, RestShaped DEF Removes
      <4>. QED
        BY <2>1, <4>1 DEF ReadTarget, End
    <3>2. request'[r].user = request[r].user
      <4>. DEFINE b == ~account[request[r].user].admin
      <4>1. request'[r] = [request[r] EXCEPT !.pc = "write", !.flag = b]
        BY <1>a, <3>1
      <4>. HIDE DEF b
      <4>. QED
        BY <1>a, <4>1 DEF Request
    <3>3. account' = account
      BY <2>1 DEF ReadTarget, rows
    <3>. QED
      BY <3>1, <3>2, <3>3 DEF Spares, Admins, Live
  <2>2. CASE LeaseRunsOut(r)
    <3>1. account' = account /\ request' = [request EXCEPT ![r].alone = FALSE]
      BY <2>2 DEF LeaseRunsOut, rows
    <3>2. /\ request'[r].pc = request[r].pc /\ request'[r].kind = request[r].kind
          /\ request'[r].user = request[r].user /\ request'[r].flag = request[r].flag
          /\ request'[r].stale = request[r].stale
      BY <1>a, <3>1 DEF Request
    <3>. QED
      BY <1>3, <3>1, <3>2 DEF OthersLeft, Removes, Spares, Admins, Live
  <2>3. CASE Confirm(r)
    <3>1. request'[r].kind = "change" \/ request'[r] = Rest
      <4>1. /\ request[r].kind = "change"
            /\ End(r) \/ Goto(r, "write")
        BY <2>3 DEF Confirm, Shape, WellFormed
      <4>. QED
        BY <1>a, <4>1 DEF End, Goto, Request
    <3>. QED
      BY <1>3, <3>1, RestShaped DEF Removes
  <2>4. CASE \E u \in Users : BeginLogin(r, u) \/ BeginAdmin(r, u)
    <3>1. PICK u \in Users : BeginLogin(r, u) \/ BeginAdmin(r, u)
      BY <2>4
    <3>2. PICK kind, pc : /\ Begin(r, kind, pc, u)
                          /\ \/ kind = "login" /\ pc = "lease"
                             \/ kind \in {"toggle", "delete"} /\ pc = "read"
                             \/ kind \in {"reset", "create"} /\ pc = "write"
      BY <3>1 DEF BeginLogin, BeginAdmin
    <3>3. request'[r].pc = pc /\ request'[r].kind = kind
      BY <1>a, <3>2 DEF Begin, Rest
    <3>. QED
      BY <1>3, <3>2, <3>3 DEF Removes
  <2>5. CASE BeginChange(r)
    <3>1. PICK u : Begin(r, "change", "confirm", u)
      BY <2>5 DEF BeginChange
    <3>2. request'[r].pc = "confirm"
      BY <1>a, <3>1 DEF Begin, Rest
    <3>. QED
      BY <1>3, <3>2 DEF Removes
  <2>6. CASE AcquireLease(r) \/ Recheck(r) \/ Verify(r) \/ CountFailure(r) \/ ClearBucket(r)
             \/ ReleaseLease(r)
    <3>1. request[r].pc \in LoginPC
      BY <2>6 DEF AcquireLease, Recheck, Verify, CountFailure, ClearBucket, ReleaseLease, LoginPC
    <3>2. request[r].kind = "login"
      BY <3>1 DEF Shape, WellFormed
    <3>3. request'[r].kind = "login" \/ request'[r] = Rest
      <4>1. CASE CountFailure(r)
        <5>1. \E b : request'[r] = [request[r] EXCEPT !.pc = "leave", !.alone = b]
          BY <4>1 DEF CountFailure
        <5>. QED
          BY <1>a, <3>2, <5>1 DEF Request
      <4>2. CASE AcquireLease(r)
        <5>1. End(r) \/ request' = [request EXCEPT ![r].pc = "recheck", ![r].alone = TRUE]
          BY <4>2 DEF AcquireLease
        <5>. QED
          BY <1>a, <3>2, <5>1 DEF Request, End
      <4>3. CASE Recheck(r) \/ Verify(r) \/ ClearBucket(r) \/ ReleaseLease(r)
        <5>1. End(r) \/ \E pc : Goto(r, pc)
          BY <4>3 DEF Recheck, Verify, ClearBucket, ReleaseLease
        <5>. QED
          BY <1>a, <3>2, <5>1 DEF Request, End, Goto
      <4>. QED
        BY <2>6, <4>1, <4>2, <4>3
    <3>. QED
      BY <1>3, <3>3, RestShaped DEF Removes
  <2>7. CASE \/ IssueSession(r) \/ ResetPassword(r) \/ CreateUser(r) \/ Die(r)
             \/ ToggleAdmin(r) \/ DeleteUser(r)
    <3>1. End(r) \/ \E u, b : request' = [Outdated(u, b) EXCEPT ![r] = Rest]
      BY <2>7 DEF IssueSession, ResetPassword, CreateUser, Die, ToggleAdmin, DeleteUser
    <3>2. request'[r] = Rest
      BY <1>a, <3>1 DEF End, Outdated
    <3>. QED
      BY <1>3, <3>2, RestShaped DEF Removes
  <2>8. CASE ChangePassword(r)
    <3>. DEFINE n == IF Live(request[r].user) THEN account[request[r].user].version + 1 ELSE 1
    <3>1. request' = [request EXCEPT ![r].pc = "issue", ![r].version = n]
      BY <2>8 DEF ChangePassword
    <3>. HIDE DEF n
    <3>2. request'[r].pc = "issue"
      BY <1>a, <3>1 DEF Request
    <3>. QED
      BY <1>3, <3>2 DEF Removes
  <2>9. CASE \/ (\E s \in Subjects : BeginHeader(r, s))
             \/ (\E i \in 1 .. MaxAttempts : Callback(r, i))
             \/ Exchange(r) \/ LookUp(r) \/ Provision(r) \/ MapRole(r)
    <3>1. request'[r].pc # "write"
      <4>1. CASE \E s \in Subjects : BeginHeader(r, s)
        <5>1. PICK s, b : request' = [request EXCEPT ![r] =
                         [Rest EXCEPT !.kind = "header", !.pc = "look", !.subject = s, !.flag = b]]
          BY <4>1 DEF BeginHeader
        <5>. QED
          BY <1>a, <5>1 DEF Rest
      <4>2. CASE \E i \in 1 .. MaxAttempts : Callback(r, i)
        <5>1. PICK i : \/ request' = [request EXCEPT ![r] =
                            [Rest EXCEPT !.kind = "oidc", !.pc = "exchange", !.attempt = i]]
                       \/ request' = request /\ request[r].pc = "idle"
          BY <4>2 DEF Callback
        <5>. QED
          BY <1>a, <5>1 DEF Rest
      <4>3. CASE Exchange(r)
        <5>1. End(r) \/ \E s, b : request' = [request EXCEPT ![r].pc = "look", ![r].subject = s, ![r].flag = b]
          BY <4>3 DEF Exchange
        <5>2. End(r) => request'[r].pc = "idle"
          BY <1>a, RestShaped DEF End
        <5>3. ASSUME NEW s, NEW b, request' = [request EXCEPT ![r].pc = "look", ![r].subject = s, ![r].flag = b]
              PROVE  request'[r].pc = "look"
          BY <1>a, <5>3 DEF Request
        <5>. QED
          BY <5>1, <5>2, <5>3
      <4>4. CASE LookUp(r) \/ Provision(r)
        <5>1. \/ End(r) \/ Goto(r, "provision")
              \/ \E pc \in {"map", "issue"} : \E u : request' = [request EXCEPT ![r].pc = pc, ![r].user = u]
          BY <4>4 DEF LookUp, Provision
        <5>2. End(r) => request'[r].pc = "idle"
          BY <1>a, RestShaped DEF End
        <5>3. Goto(r, "provision") => request'[r].pc = "provision"
          BY <1>a DEF Goto, Request
        <5>4. ASSUME NEW u, NEW pc \in {"map", "issue"},
                     request' = [request EXCEPT ![r].pc = pc, ![r].user = u]
              PROVE  request'[r].pc = pc
          BY <1>a, <5>4 DEF Request
        <5>. QED
          BY <5>1, <5>2, <5>3, <5>4
      <4>5. CASE MapRole(r)
        <5>1. request'[r].pc = "issue"
          BY <4>5, MapIssues
        <5>. QED
          BY <5>1
      <4>. QED
        BY <2>9, <4>1, <4>2, <4>3, <4>4, <4>5
    <3>. QED
      BY <1>3, <3>1 DEF Removes
  <2>. QED
    BY <1>3, <2>1, <2>2, <2>3, <2>4, <2>5, <2>6, <2>7, <2>8, <2>9 DEF Serve
<1>4. ASSUME NEW q \in Requests, Removes(q)', ~request'[q].stale PROVE Spares(q)'
  <2>1. CASE Background
    <3>1. Same(q)
      BY <2>1, BackgroundFrame DEF Same
    <3>. QED
      BY <1>2, <1>4, <3>1
  <2>2. ASSUME NEW r \in Requests, Serve(r) PROVE Spares(q)'
    <3>1. CASE q = r
      BY <1>3, <1>4, <2>2, <3>1
    <3>2. CASE q # r
      <4>1. Same(q)
        BY <2>2, <3>2, OthersSame
      <4>. QED
        BY <1>2, <1>4, <4>1
    <3>. QED
      BY <3>1, <3>2
  <2>. QED
    BY <2>1, <2>2, StepKinds
<1>. QED
  BY <1>4 DEF OthersLeft

\* For any number of administrators and requests: the last one goes only by an identity
\* provider's groups, or by a request that another change of roles has overtaken.
THEOREM LastAdminStays == Spec => LastAdminGuard
<1>. DEFINE Guarded == Admins # {} /\ Admins' = {} =>
       \E r \in Requests :
         \/ request[r].pc = "map" /\ request'[r].pc = "issue"
         \/ request[r].pc = "write" /\ request'[r].pc = "idle" /\ request[r].stale
<1>1. Shape /\ OthersLeft /\ [Next]_vars => [Guarded]_vars
  <2> SUFFICES ASSUME Shape, OthersLeft, [Next]_vars, Admins # {}, Admins' = {}
               PROVE  \E r \in Requests :
                        \/ request[r].pc = "map" /\ request'[r].pc = "issue"
                        \/ request[r].pc = "write" /\ request'[r].pc = "idle" /\ request[r].stale
    OBVIOUS
  <2>1. PICK r \in Requests : /\ \/ (ToggleAdmin(r) /\ ~request[r].flag)
                                 \/ DeleteUser(r) \/ MapRole(r)
                              /\ Withdraws(r)
    BY AdminSteps DEF Joins, Grants
  <2>2. CASE MapRole(r)
    BY <2>2, MapIssues
  <2>3. CASE (ToggleAdmin(r) /\ ~request[r].flag) \/ DeleteUser(r)
    <3>1. Removes(r)
      BY <2>3 DEF Removes, ToggleAdmin, DeleteUser
    <3>2. ~Spares(r)
      BY <2>1 DEF Spares, Withdraws
    <3>3. request[r].stale
      BY <3>1, <3>2 DEF OthersLeft
    <3>. QED
      BY <2>3, <3>3, RoleWriters
  <2>. QED
    BY <2>1, <2>2, <2>3
<1>2. Init => OthersLeft
  BY RestShaped DEF Init, OthersLeft, Removes
<1>3. Spec => []OthersLeft
  BY <1>2, OthersLeftInductive, ShapeHolds, KnownHolds, PTL DEF Spec
<1>4. Spec => [][Guarded]_vars
  <2>. HIDE DEF Guarded
  <2>. QED
    BY <1>1, <1>3, ShapeHolds, PTL DEF Spec
<1>. QED
  BY <1>4 DEF LastAdminGuard
=============================================================================
