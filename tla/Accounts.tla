------------------------------- MODULE Accounts -------------------------------
(****************************************************************************)
(* Users, sessions, roles and the audit trail (auth.py) under concurrent    *)
(* requests of the web application.  A request first resolves its cookie in *)
(* two SELECTs, then runs its handler with the rights it read; handlers     *)
(* that change an account read it first and write later.  SQLite in WAL     *)
(* mode gives each SELECT the last commit and lets one transaction write at *)
(* a time, so a transaction that begins with a write is one step.           *)
(****************************************************************************)
EXTENDS Naturals, FiniteSets

CONSTANTS
    Users,        \* user names
    Tenants,
    Ips,
    Passwords,    \* those that satisfy the password policy
    Tokens,       \* session cookies
    Slots,        \* requests in flight at a time
    Jobs,         \* what requests with a cookie may ask for, see Job
    InitialUsers, \* the accounts and sessions the database holds at the start
    InitialSessions,
    Window, MaxFailures,        \* login rate limit
    Idle, MaxAge, TouchAfter,   \* session life time
    MaxTime,      \* bound: clock
    MaxRequests,  \* bound: requests
    Wildcard, None

Roles == {"operator", "analyst", "reverser", "admin"}

Permissions(role) ==
    CASE role = "operator" -> {"anonymize"}
      [] role = "analyst"  -> {"anonymize", "reports"}
      [] role = "reverser" -> {"anonymize", "reports", "reverse"}
      [] role = "admin"    -> {"anonymize", "reports", "reverse", "admin", "audit"}
      [] OTHER             -> {}

TenantSets == SUBSET (Tenants \cup {Wildcard})

\* A job: "logout", "change" (of the own password), "create", "patch" (another
\* account) or "work" on a tenant, with the fields its kind needs.
Job == [kind    : {"logout", "change", "create", "patch", "work"},
        user    : Users \cup {None},
        role    : Roles \cup {None},
        tenants : TenantSets \cup {None},
        active  : BOOLEAN \cup {None},
        old     : Passwords \cup {None},
        pw      : Passwords \cup {None},
        perm    : Permissions("admin") \cup {None},
        tenant  : Tenants \cup {None}]

\* A row of table users and its rows of user_tenants; role None: no such row.
Account == [role : Roles \cup {None}, active : BOOLEAN, must : BOOLEAN,
            pw : Passwords, tenants : TenantSets]

\* A row of table sessions; pw is the password it was opened with.
Session == [user : Users \cup {None}, born : 0..MaxTime, seen : 0..MaxTime,
            revoked : BOOLEAN, pw : Passwords \cup {None}]

\* What the request models of app.py demand of a job's fields.
WellFormed(job) ==
    /\ job.kind = "create" => /\ job.user \in Users /\ job.role \in Roles
                              /\ job.tenants \in TenantSets /\ job.pw \in Passwords
    /\ job.kind = "patch" => job.user \in Users
    /\ job.kind = "change" => job.pw \in Passwords
    /\ job.kind = "work" => job.perm # None /\ job.tenant # None

\* The reports, fields and stats, are the one work on a tenant without an audit row.
Audited(job) == job.kind = "work" => job.perm # "reports"

\* The database at the start is one the program has left: bootstrap_admin has
\* made an administrator, who is still there, live sessions are of active
\* accounts and opened with their passwords.
ActiveAdmin(table) ==
    \E u \in Users : table[u].role = "admin" /\ table[u].active

SoundStart ==
    /\ ActiveAdmin(InitialUsers)
    /\ \A u \in Users :
           InitialUsers[u].role = "admin" => InitialUsers[u].tenants = {Wildcard}
    /\ \A s \in Tokens : LET row == InitialSessions[s] IN
           IF row.user = None THEN ~row.revoked
           ELSE /\ InitialUsers[row.user].role # None
                /\ ~row.revoked => /\ InitialUsers[row.user].active
                                   /\ InitialUsers[row.user].pw = row.pw

ASSUME AccountsAssumption ==
    /\ Jobs \subseteq Job /\ \A job \in Jobs : WellFormed(job)
    /\ InitialUsers \in [Users -> Account]
    /\ InitialSessions \in [Tokens -> Session]
    /\ SoundStart
    /\ None \notin Users \cup Roles \cup Passwords \cup Tenants \cup Tokens
    /\ None # {Wildcard}
    /\ Wildcard \notin Tenants
    /\ Window \in Nat /\ MaxFailures \in Nat /\ Idle \in Nat /\ MaxAge \in Nat
    /\ TouchAfter \in Nat /\ MaxTime \in Nat /\ MaxRequests \in Nat

VARIABLES
    users,      \* tables users and user_tenants
    sessions,   \* table sessions
    failures,   \* table login_attempts: time and request of the failures
    audit,      \* table audit: the requests it has a success row for
    now,
    req,        \* the requests in flight
    asked,      \* requests so far
    delivered,  \* the requests answered, and whether they are of an audited kind
    entitled,   \* the rights the user of a request has had since it arrived
    overlapped  \* two account changes have been in flight at once

vars == <<users, sessions, failures, audit, now, req, asked, delivered,
          entitled, overlapped>>

Request ==
    [pc : {"idle", "session", "lapsed", "touch", "tenants", "handler", "change",
           "patch", "write", "audit", "deliver"},
     number : 0..MaxRequests, job : Jobs \cup {None}, token : Tokens \cup {None},
     at : 0..MaxTime,
     \* the AuthUser of the session
     role : Roles \cup {None}, must : BOOLEAN, tenants : TenantSets,
     \* what the handler read: a role; tenants as validated
     basis : Roles \cup {None}, given : TenantSets \cup {None}]

NoRequest == [pc |-> "idle", number |-> 0, job |-> None, token |-> None, at |-> 0,
              role |-> None, must |-> FALSE, tenants |-> {}, basis |-> None,
              given |-> None]

Rights == [role : Roles, tenants : TenantSets]

TypeOK ==
    /\ users \in [Users -> Account]
    /\ sessions \in [Tokens -> Session]
    /\ failures \in [Users \X Ips -> SUBSET ((0..MaxTime) \X (1..MaxRequests))]
    /\ audit \subseteq 1..MaxRequests /\ delivered \subseteq (1..MaxRequests) \X BOOLEAN
    /\ now \in 0..MaxTime /\ asked \in 0..MaxRequests
    /\ req \in [Slots -> Request]
    /\ entitled \in [Slots -> SUBSET Rights]
    /\ overlapped \in BOOLEAN

Init ==
    /\ users = InitialUsers
    /\ sessions = InitialSessions
    /\ failures = [x \in Users \X Ips |-> {}]
    /\ audit = {} /\ delivered = {}
    /\ now = 0 /\ asked = 0
    /\ req = [r \in Slots |-> NoRequest]
    /\ entitled = [r \in Slots |-> {}]
    /\ overlapped = FALSE

Tick ==
    /\ now < MaxTime
    /\ now' = now + 1
    /\ UNCHANGED <<users, sessions, failures, audit, req, asked, delivered,
                   entitled, overlapped>>

-------------------------------------------------------------------------------
(* Login: authenticate begins with a DELETE, so it is one step. *)

\* The failures that count.  The table keeps them for a day; older ones than
\* the window have no effect.
Recent(u, ip) == {row \in failures[<<u, ip>>] : row[1] + Window >= now}

Credentials(u, p) ==
    users[u].role # None /\ users[u].pw = p /\ users[u].active

LoginStep ==
    /\ asked < MaxRequests
    /\ asked' = asked + 1
    /\ UNCHANGED <<users, now, req, delivered, entitled, overlapped>>

LoginLimited(u, ip) ==
    /\ Cardinality(Recent(u, ip)) >= MaxFailures
    /\ UNCHANGED <<sessions, failures, audit>>
    /\ LoginStep

LoginRefused(u, p, ip) ==
    /\ Cardinality(Recent(u, ip)) < MaxFailures
    /\ ~Credentials(u, p)
    /\ failures' = [failures EXCEPT ![<<u, ip>>] = Recent(u, ip) \cup {<<now, asked + 1>>}]
    /\ UNCHANGED <<sessions, audit>>
    /\ LoginStep

LoginAccepted(u, p, ip, s) ==
    /\ Cardinality(Recent(u, ip)) < MaxFailures
    /\ Credentials(u, p)
    /\ sessions[s].user = None
    /\ sessions' = [sessions EXCEPT ![s] =
           [user |-> u, born |-> now, seen |-> now, revoked |-> FALSE, pw |-> p]]
    /\ failures' = [failures EXCEPT ![<<u, ip>>] = {}]
    /\ audit' = audit \cup {asked + 1}
    /\ LoginStep

-------------------------------------------------------------------------------
(* Steps of a request *)

Set(r, fields) == req' = [req EXCEPT ![r] = fields]
To(r, pc) == Set(r, [req[r] EXCEPT !.pc = pc])

RightsOf(u) == [role |-> users[u].role, tenants |-> users[u].tenants]
UserOf(r) == sessions[req[r].token].user
Busy(r) == req[r].pc # "idle"

Patching(r) == Busy(r) /\ req[r].job.kind = "patch"

\* A request arrives with a cookie issued earlier, and notes the time.
Arrive(r, s, job) ==
    /\ ~Busy(r)
    /\ asked < MaxRequests
    /\ sessions[s].user # None
    /\ asked' = asked + 1
    /\ Set(r, [NoRequest EXCEPT !.pc = "session", !.number = asked + 1,
                                !.job = job, !.token = s, !.at = now])
    /\ entitled' = [entitled EXCEPT ![r] = {RightsOf(sessions[s].user)}]
    /\ overlapped' = (overlapped \/ (job.kind = "patch" /\ \E q \in Slots : Patching(q)))
    /\ UNCHANGED <<users, sessions, failures, audit, now, delivered>>

\* The request is refused or fails: a wrong CSRF token, a weak password, an
\* unknown name, a locked database, a kill.  What is not committed is undone.
Fail(r) ==
    /\ Busy(r)
    /\ Set(r, NoRequest)
    /\ entitled' = [entitled EXCEPT ![r] = {}]
    /\ UNCHANGED <<users, sessions, failures, audit, now, asked, delivered,
                   overlapped>>

Silent == UNCHANGED <<users, sessions, failures, audit, now, asked, delivered,
                      entitled, overlapped>>

Expired(r) ==
    LET row == sessions[req[r].token] IN
    \/ row.revoked
    \/ ~users[row.user].active
    \/ req[r].at >= row.born + MaxAge
    \/ req[r].at > row.seen + Idle

\* AuthStore.session, first SELECT: session and account, without the tenants.
SelectSession(r) ==
    LET u == users[UserOf(r)]
        row == sessions[req[r].token] IN
    /\ req[r].pc = "session"
    /\ Set(r, [req[r] EXCEPT !.role = u.role, !.must = u.must,
              !.pc = CASE Expired(r) -> "lapsed"
                       [] ~Expired(r) /\ req[r].at >= row.seen + TouchAfter -> "touch"
                       [] OTHER -> "tenants"])
    /\ Silent

\* An expired session is revoked for good, and the request refused.
RevokeLapsed(r) ==
    /\ req[r].pc = "lapsed"
    /\ sessions' = [sessions EXCEPT ![req[r].token].revoked = TRUE]
    /\ Set(r, NoRequest)
    /\ entitled' = [entitled EXCEPT ![r] = {}]
    /\ UNCHANGED <<users, failures, audit, now, asked, delivered, overlapped>>

\* Faulty variant: the row is replaced instead of updated.
TouchReplacing(r) ==
    /\ req[r].pc = "touch"
    /\ sessions' = [sessions EXCEPT ![req[r].token].seen = req[r].at,
                                    ![req[r].token].revoked = FALSE]
    /\ Set(r, [req[r] EXCEPT !.pc = "handler", !.tenants = users[UserOf(r)].tenants])
    /\ UNCHANGED <<users, failures, audit, now, asked, delivered, entitled,
                   overlapped>>

\* last_seen is renewed, and the tenants are read in the same transaction.
Touch(r) ==
    /\ req[r].pc = "touch"
    /\ sessions' = [sessions EXCEPT ![req[r].token].seen = req[r].at]
    /\ Set(r, [req[r] EXCEPT !.pc = "handler", !.tenants = users[UserOf(r)].tenants])
    /\ UNCHANGED <<users, failures, audit, now, asked, delivered, entitled,
                   overlapped>>

\* Second SELECT, which may see a later commit than the first.
SelectTenants(r) ==
    /\ req[r].pc = "tenants"
    /\ Set(r, [req[r] EXCEPT !.pc = "handler", !.tenants = users[UserOf(r)].tenants])
    /\ Silent

\* require(permission); logout and change-password need a session only.
Allowed(r, perm) == ~req[r].must /\ perm \in Permissions(req[r].role)

Doing(r, pc, kind) == req[r].pc = pc /\ req[r].job.kind = kind

-------------------------------------------------------------------------------
(* Own account *)

Logout(r) ==
    /\ Doing(r, "handler", "logout")
    /\ sessions' = [sessions EXCEPT ![req[r].token].revoked = TRUE]
    /\ To(r, "audit")
    /\ UNCHANGED <<users, failures, audit, now, asked, delivered, entitled,
                   overlapped>>

\* change_password reads the hash and verifies the current password ...
VerifyPassword(r) ==
    /\ Doing(r, "handler", "change")
    /\ users[UserOf(r)].pw = req[r].job.old
    /\ To(r, "change")
    /\ Silent

\* Sessions of u but for the given one.
RevokeOthers(u, keep) ==
    [s \in Tokens |-> IF sessions[s].user = u /\ s # keep
                      THEN [sessions[s] EXCEPT !.revoked = TRUE] ELSE sessions[s]]

\* Faulty variant: the other sessions of the user stay.
ChangePasswordOnly(r) ==
    /\ req[r].pc = "change"
    /\ users' = [users EXCEPT ![UserOf(r)].pw = req[r].job.pw,
                              ![UserOf(r)].must = FALSE]
    /\ sessions' = [sessions EXCEPT ![req[r].token].pw = req[r].job.pw]
    /\ To(r, "audit")
    /\ UNCHANGED <<failures, audit, now, asked, delivered, entitled, overlapped>>

\* ... and writes the new one, whatever has become of the account meanwhile.
ChangePassword(r) ==
    /\ req[r].pc = "change"
    /\ users' = [users EXCEPT ![UserOf(r)].pw = req[r].job.pw,
                              ![UserOf(r)].must = FALSE]
    /\ sessions' = [RevokeOthers(UserOf(r), req[r].token)
                        EXCEPT ![req[r].token].pw = req[r].job.pw]
    /\ To(r, "audit")
    /\ UNCHANGED <<failures, audit, now, asked, delivered, entitled, overlapped>>

-------------------------------------------------------------------------------
(* Administration of accounts *)

\* u gets another row; requests of u become entitled to what it says.
Store(u, account) ==
    /\ users' = [users EXCEPT ![u] = account]
    /\ entitled' = [r \in Slots |->
           IF Busy(r) /\ UserOf(r) = u
           THEN entitled[r] \cup {[role |-> account.role, tenants |-> account.tenants]}
           ELSE entitled[r]]

Create(r) ==
    LET job == req[r].job
        tenants == IF job.role = "admin" THEN {Wildcard} ELSE job.tenants IN
    /\ Doing(r, "handler", "create")
    /\ Allowed(r, "admin")
    /\ users[job.user].role = None
    /\ tenants # {}
    /\ job.role # "admin" => Wildcard \notin tenants
    /\ Store(job.user, [role |-> job.role, active |-> TRUE, must |-> TRUE,
                        pw |-> job.pw, tenants |-> tenants])
    /\ To(r, "audit")
    /\ UNCHANGED <<sessions, failures, audit, now, asked, delivered, overlapped>>

\* Faulty variant: the guard looks at the role only.
NotOwnDemotionOnly(r) ==
    req[r].job.user = UserOf(r) => req[r].job.role \in {None, "admin"}

\* Nobody deactivates or demotes the account of the request.
NotOwnDemotion(r) ==
    req[r].job.user = UserOf(r) =>
        req[r].job.role \in {None, "admin"} /\ req[r].job.active # FALSE

\* _validate_assigned_tenants, by the role asked for or the one stored now.
ValidateTenants(r) ==
    LET job == req[r].job
        role == IF job.role = None THEN users[job.user].role ELSE job.role IN
    /\ Doing(r, "handler", "patch")
    /\ Allowed(r, "admin")
    /\ NotOwnDemotion(r)
    /\ Set(r, [req[r] EXCEPT !.pc = "patch",
              !.given = IF job.tenants = None THEN None
                        ELSE IF role = "admin" THEN {Wildcard} ELSE job.tenants])
    /\ Silent

\* update_user, SELECT: the role the account has before.
ReadAccount(r) ==
    LET job == req[r].job
        role == users[job.user].role IN
    /\ Doing(r, "patch", "patch")
    /\ role # None
    /\ ~(role = "admin" /\ job.role \notin {None, "admin"} /\ req[r].given = None)
    /\ Set(r, [req[r] EXCEPT !.pc = "write", !.basis = role])
    /\ Silent

Given(value, otherwise) == IF value = None THEN otherwise ELSE value

\* Faulty variant: the role that was read is not filled in.
NewRoleAsGiven(r) == req[r].job.role

NewRole(r) == Given(req[r].job.role, req[r].basis)

\* None: the rows of user_tenants stay as they are.
NewTenants(r) == IF NewRole(r) = "admin" THEN {Wildcard} ELSE req[r].given

PatchedAccount(r, tenants) ==
    LET job == req[r].job
        row == users[job.user] IN
    [role    |-> NewRole(r),
     active  |-> Given(job.active, row.active),
     must    |-> row.must \/ job.pw # None,
     pw      |-> Given(job.pw, row.pw),
     tenants |-> Given(tenants, row.tenants)]

\* Faulty variant: an administrator's tenants are written only if given.
WriteAccountAsGiven(r) ==
    /\ Doing(r, "write", "patch")
    /\ Store(req[r].job.user, PatchedAccount(r, req[r].given))
    /\ sessions' = RevokeOthers(req[r].job.user, None)
    /\ To(r, "audit")
    /\ UNCHANGED <<failures, audit, now, asked, delivered, overlapped>>

\* update_user, one transaction: the role read before is written back, and
\* every session of the account ends.
WriteAccount(r) ==
    /\ Doing(r, "write", "patch")
    /\ NewTenants(r) # {}
    /\ NewRole(r) # "admin" /\ NewTenants(r) # None => Wildcard \notin NewTenants(r)
    /\ Store(req[r].job.user, PatchedAccount(r, NewTenants(r)))
    /\ sessions' = RevokeOthers(req[r].job.user, None)
    /\ To(r, "audit")
    /\ UNCHANGED <<failures, audit, now, asked, delivered, overlapped>>

-------------------------------------------------------------------------------
(* Work on a tenant, the audit trail and the answer *)

CanAccess(role, tenants, tenant) ==
    role = "admin" \/ Wildcard \in tenants \/ tenant \in tenants

\* Faulty variant: the tenant is looked up before the permission only.
WorkAnywhere(r) ==
    /\ Doing(r, "handler", "work")
    /\ Allowed(r, req[r].job.perm)
    /\ To(r, "audit")
    /\ Silent

\* Faulty variant: the answer goes out first.
WorkUnaudited(r) ==
    /\ Doing(r, "handler", "work")
    /\ Allowed(r, req[r].job.perm)
    /\ CanAccess(req[r].role, req[r].tenants, req[r].job.tenant)
    /\ To(r, "deliver")
    /\ Silent

\* anonymize and deanonymize, of which the audit row is still to be written, and
\* the reports, fields and stats, which are answered at once; with the rights read
\* before.
Work(r) ==
    /\ Doing(r, "handler", "work")
    /\ Allowed(r, req[r].job.perm)
    /\ CanAccess(req[r].role, req[r].tenants, req[r].job.tenant)
    /\ To(r, IF Audited(req[r].job) THEN "audit" ELSE "deliver")
    /\ Silent

Audit(r) ==
    /\ req[r].pc = "audit"
    /\ audit' = audit \cup {req[r].number}
    /\ To(r, "deliver")
    /\ UNCHANGED <<users, sessions, failures, now, asked, delivered, entitled,
                   overlapped>>

Deliver(r) ==
    /\ req[r].pc = "deliver"
    /\ delivered' = delivered \cup {<<req[r].number, Audited(req[r].job)>>}
    /\ Set(r, NoRequest)
    /\ entitled' = [entitled EXCEPT ![r] = {}]
    /\ UNCHANGED <<users, sessions, failures, audit, now, asked, overlapped>>

Step(r) ==
    \/ SelectSession(r) \/ RevokeLapsed(r) \/ Touch(r) \/ SelectTenants(r)
    \/ Logout(r) \/ VerifyPassword(r) \/ ChangePassword(r)
    \/ Create(r) \/ ValidateTenants(r) \/ ReadAccount(r) \/ WriteAccount(r)
    \/ Work(r) \/ Audit(r) \/ Deliver(r)

Next ==
    \/ \E u \in Users, p \in Passwords, ip \in Ips :
           \/ LoginLimited(u, ip)
           \/ LoginRefused(u, p, ip)
           \/ \E s \in Tokens : LoginAccepted(u, p, ip, s)
    \/ \E r \in Slots :
           \/ \E s \in Tokens, job \in Jobs : Arrive(r, s, job)
           \/ Step(r)
           \/ Fail(r)
    \/ Tick

Spec == Init /\ [][Next]_vars

-------------------------------------------------------------------------------
(* Properties *)

Live(s) == sessions[s].user # None /\ ~sessions[s].revoked

\* Whatever logins, password changes and resets meet, a live session belongs to
\* an active account and was opened with its present password, or has itself
\* changed the password.  So a reset or deactivation locks everybody out.
LiveSessionsAuthentic ==
    \A s \in Tokens : Live(s) =>
        /\ users[sessions[s].user].active
        /\ users[sessions[s].user].pw = sessions[s].pw

\* An administrator has the wildcard and nothing else, whatever concurrent
\* patches read and write.
AdminsEverywhere ==
    \A u \in Users : users[u].role = "admin" => users[u].tenants = {Wildcard}

\* A request that works on a tenant had the permission, and had the tenant, at
\* some moment since it arrived (though perhaps not both at one moment).
EntitledSinceArrival ==
    \A r \in Slots : Doing(r, "audit", "work") \/ Doing(r, "deliver", "work") =>
        /\ \E e \in entitled[r] : req[r].job.perm \in Permissions(e.role)
        /\ \E e \in entitled[r] : CanAccess(e.role, e.tenants, req[r].job.tenant)

\* No pseudonymised or restored text, and no confirmation of a change to an
\* account, leaves the program before the audit trail names its request.  (The
\* reports leave no trace there.)
AuditedBeforeDelivered ==
    \A d \in delivered : d[2] => d[1] \in audit

\* As long as no two account changes overlap, there is an active administrator.
AdministratorRemains ==
    ~overlapped => ActiveAdmin(users)

\* A session that has ended stays ended, whatever a request in flight writes.
EndedForGood ==
    [][\A s \in Tokens : sessions[s].revoked => sessions'[s].revoked]_vars

\* auth.py:265 and 542: the wildcard tenant is reserved for administrators.  The
\* code breaks it: a patch without role and tenants writes back a role that
\* another patch has replaced, and leaves that patch's wildcard.
WildcardReserved ==
    \A u \in Users : Wildcard \in users[u].tenants => users[u].role = "admin"

===============================================================================
