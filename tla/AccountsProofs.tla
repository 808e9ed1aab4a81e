---------------------------- MODULE AccountsProofs -----------------------------
(****************************************************************************)
(* Theorems about Accounts, for any users, tenants, cookies, jobs, limits   *)
(* and requests in flight allowed by AccountsAssumption.                    *)
(****************************************************************************)
EXTENDS Accounts, TLAPS

-------------------------------------------------------------------------------
(* The inductive invariant *)

\* Only a session that was opened can end, and its account is never removed.
SessionInv ==
    \A s \in Tokens :
        /\ sessions[s].user = None => ~sessions[s].revoked
        /\ sessions[s].user # None => users[sessions[s].user].role # None

\* A request in flight has a number, a cookie that was issued and a job; where
\* it stands says what its handler has checked and read.
Standing(r) ==
    /\ req[r].number \in 1..MaxRequests
    /\ req[r].token \in Tokens
    /\ UserOf(r) \in Users
    /\ req[r].job \in Jobs
    /\ req[r].pc = "change" => req[r].job.kind = "change"
    /\ req[r].pc \in {"patch", "write"} =>
           req[r].job.kind = "patch" /\ req[r].role = "admin" /\ NotOwnDemotion(r)
    /\ req[r].pc = "write" => req[r].basis \in Roles
    /\ req[r].pc = "deliver" /\ Audited(req[r].job) => req[r].number \in audit

StandingInv == \A r \in Slots : Busy(r) => Standing(r)

\* What a request read of its user is something the user was entitled to.
Entitlement(r) ==
    /\ RightsOf(UserOf(r)) \in entitled[r]
    /\ req[r].pc # "session" => \E e \in entitled[r] : e.role = req[r].role
    /\ req[r].pc = "handler" => \E e \in entitled[r] : e.tenants = req[r].tenants

EntitlementInv == \A r \in Slots : Busy(r) => Entitlement(r)

\* Without overlapping changes, the one in flight acts on what its
\* administrator still is.
SoloInv ==
    ~overlapped =>
        /\ \A q, r \in Slots : Patching(q) /\ Patching(r) => q = r
        /\ \A r \in Slots :
               Patching(r) /\ req[r].pc \in {"touch", "tenants", "handler", "patch", "write"} =>
                   users[UserOf(r)].role = req[r].role /\ users[UserOf(r)].active
        /\ \A r \in Slots :
               Patching(r) /\ req[r].pc = "write" /\ req[r].job.user = UserOf(r) =>
                   req[r].basis = "admin"

IInv ==
    /\ TypeOK
    /\ SessionInv
    /\ LiveSessionsAuthentic
    /\ AdminsEverywhere
    /\ StandingInv
    /\ EntitlementInv
    /\ EntitledSinceArrival
    /\ AuditedBeforeDelivered
    /\ SoloInv
    /\ AdministratorRemains

-------------------------------------------------------------------------------

\* A database as bootstrap_admin leaves it establishes the invariant.
LEMMA InitIInv == Init => IInv
  <1> SUFFICES ASSUME Init PROVE IInv
    OBVIOUS
  <1> USE AccountsAssumption DEF Init, SoundStart
  <1>1. NoRequest \in Request
    BY DEF NoRequest, Request, TenantSets, Roles
  <1>2. TypeOK
    <2>1. failures \in [Users \X Ips -> SUBSET ((0..MaxTime) \X (1..MaxRequests))]
      OBVIOUS
    <2>2. req \in [Slots -> Request] /\ entitled \in [Slots -> SUBSET Rights]
      BY <1>1
    <2>3. users \in [Users -> Account] /\ sessions \in [Tokens -> Session]
      OBVIOUS
    <2>4. now \in 0..MaxTime /\ asked \in 0..MaxRequests
      OBVIOUS
    <2>6. overlapped \in BOOLEAN
      OBVIOUS
    <2>5. audit \subseteq 1..MaxRequests /\ delivered \subseteq (1..MaxRequests) \X BOOLEAN
      OBVIOUS
    <2>. QED
      BY <2>1, <2>2, <2>3, <2>4, <2>5, <2>6 DEF TypeOK
  <1>3. SessionInv /\ LiveSessionsAuthentic
    BY DEF SessionInv, LiveSessionsAuthentic, Live
  <1>4. AdminsEverywhere /\ AdministratorRemains
    BY DEF AdminsEverywhere, AdministratorRemains
  <1>5. \A r \in Slots : req[r].pc = "idle"
    BY DEF NoRequest
  <1>6. StandingInv /\ EntitlementInv /\ EntitledSinceArrival /\ SoloInv
    BY <1>5 DEF StandingInv, EntitlementInv, EntitledSinceArrival, SoloInv,
                Patching, Busy, Doing
  <1>7. AuditedBeforeDelivered
    BY DEF AuditedBeforeDelivered
  <1>. QED
    BY <1>2, <1>3, <1>4, <1>6, <1>7 DEF IInv

\* Cookies issued, roles, tenants and activity stay, and the audit trail only grows.
RightsKept ==
    /\ \A s \in Tokens : sessions[s].user # None => sessions'[s].user = sessions[s].user
    /\ \A u \in Users : /\ users'[u].role = users[u].role
                        /\ users'[u].active = users[u].active
                        /\ users'[u].tenants = users[u].tenants
    /\ audit \subseteq audit'
    /\ overlapped' = overlapped

\* What concerns the requests in flight.
RequestsInv ==
    /\ req \in [Slots -> Request] /\ entitled \in [Slots -> SUBSET Rights]
    /\ StandingInv /\ EntitlementInv /\ EntitledSinceArrival /\ SoloInv

\* The other requests lose nothing while rights are kept.
LEMMA OthersKeep ==
    ASSUME IInv, RightsKept, NEW q \in Slots, Busy(q), req'[q] = req[q],
           entitled'[q] = entitled[q]
    PROVE  /\ UserOf(q)' = UserOf(q) /\ UserOf(q) \in Users
           /\ Standing(q)' /\ Entitlement(q)'
  <1>1. Standing(q) /\ Entitlement(q)
    BY DEF IInv, StandingInv, EntitlementInv
  <1>2. UserOf(q)' = UserOf(q) /\ UserOf(q) \in Users
    BY <1>1, AccountsAssumption DEF UserOf, Standing, RightsKept
  <1>3. RightsOf(UserOf(q))' = RightsOf(UserOf(q))
    BY <1>2 DEF RightsOf, RightsKept
  <1>4. Standing(q)'
    BY <1>1, <1>2 DEF Standing, NotOwnDemotion, RightsKept
  <1>5. Entitlement(q)'
    BY <1>1, <1>3 DEF Entitlement
  <1>. QED
    BY <1>2, <1>4, <1>5

\* A step of one request keeps RequestsInv while rights are kept, when what the
\* new place of the request asks for is there.
LEMMA MoveKeeps ==
    ASSUME IInv, RightsKept, NEW r \in Slots, NEW f \in Request, Set(r, f),
           entitled' = entitled, Busy(r), f.pc # "idle", f.job = req[r].job,
           Standing(r)', Entitlement(r)',
           f.pc \in {"audit", "deliver"} /\ f.job.kind = "work" =>
               /\ \E e \in entitled[r] : f.job.perm \in Permissions(e.role)
               /\ \E e \in entitled[r] : CanAccess(e.role, e.tenants, f.job.tenant),
           ~overlapped /\ f.job.kind = "patch"
               /\ f.pc \in {"touch", "tenants", "handler", "patch", "write"} =>
                   users[UserOf(r)'].role = f.role /\ users[UserOf(r)'].active,
           ~overlapped /\ f.job.kind = "patch" /\ f.pc = "write"
               /\ f.job.user = UserOf(r)' => f.basis = "admin"
    PROVE  RequestsInv'
  <1>1. /\ req' \in [Slots -> Request] /\ req'[r] = f
        /\ \A q \in Slots : q # r => req'[q] = req[q]
    BY DEF IInv, TypeOK, Set
  <1>2. \A q \in Slots : q # r /\ Busy(q)' =>
            /\ Busy(q) /\ UserOf(q)' = UserOf(q) /\ UserOf(q) \in Users
            /\ Standing(q)' /\ Entitlement(q)'
    BY <1>1, OthersKeep DEF Busy
  <1>3. StandingInv' /\ EntitlementInv'
    BY <1>2 DEF StandingInv, EntitlementInv
  <1>4. EntitledSinceArrival'
    BY <1>1 DEF EntitledSinceArrival, Doing, IInv
  <1>5. UserOf(r)' \in Users
    BY DEF Standing
  <1>6. SoloInv'
    BY <1>1, <1>2, <1>5 DEF SoloInv, Patching, Busy, IInv, RightsKept
  <1>. QED
    BY <1>1, <1>3, <1>4, <1>6 DEF RequestsInv, IInv, TypeOK

\* The end of a request keeps RequestsInv while rights are kept.
LEMMA EndKeeps ==
    ASSUME IInv, RightsKept, NEW r \in Slots, Set(r, NoRequest),
           entitled' = [entitled EXCEPT ![r] = {}]
    PROVE  RequestsInv'
  <1>1. NoRequest \in Request
    BY AccountsAssumption DEF NoRequest, Request, TenantSets, Roles
  <1>2. /\ req' \in [Slots -> Request] /\ ~Busy(r)'
        /\ entitled' \in [Slots -> SUBSET Rights]
        /\ \A q \in Slots : q # r => req'[q] = req[q] /\ entitled'[q] = entitled[q]
    BY <1>1 DEF IInv, TypeOK, Set, Busy, NoRequest
  <1>3. \A q \in Slots : Busy(q)' =>
            /\ q # r /\ Busy(q) /\ UserOf(q)' = UserOf(q) /\ UserOf(q) \in Users
            /\ Standing(q)' /\ Entitlement(q)'
    BY <1>2, OthersKeep DEF Busy
  <1>4. StandingInv' /\ EntitlementInv'
    BY <1>3 DEF StandingInv, EntitlementInv
  <1>5. EntitledSinceArrival'
    BY <1>2 DEF EntitledSinceArrival, Doing, Busy, IInv
  <1>6. SoloInv'
    BY <1>2, <1>3 DEF SoloInv, Patching, IInv, RightsKept
  <1>. QED
    BY <1>2, <1>4, <1>5, <1>6 DEF RequestsInv

\* A step that changes nothing but its request preserves the invariant.
LEMMA QuietKeeps ==
    ASSUME IInv, Silent, RequestsInv'
    PROVE  IInv'
  <1> USE DEF IInv, Silent
  <1>1. TypeOK'
    BY DEF TypeOK, RequestsInv
  <1>2. SessionInv' /\ LiveSessionsAuthentic' /\ AdminsEverywhere'
        /\ AuditedBeforeDelivered'
    BY DEF SessionInv, LiveSessionsAuthentic, AdminsEverywhere, Live,
           AuditedBeforeDelivered
  <1>3. AdministratorRemains'
    BY DEF AdministratorRemains, ActiveAdmin
  <1>. QED
    BY <1>1, <1>2, <1>3 DEF RequestsInv

\* Reading the session row preserves it: what is read is what the user is
\* entitled to now, and the user of a session found good is active.
LEMMA SelectSessionKeeps ==
    ASSUME IInv, NEW r \in Slots, SelectSession(r)
    PROVE  IInv'
  <1> DEFINE u == users[UserOf(r)]
             f == [req[r] EXCEPT !.role = u.role, !.must = u.must,
                    !.pc = CASE Expired(r) -> "lapsed"
                             [] ~Expired(r) /\ req[r].at >= sessions[req[r].token].seen
                                                               + TouchAfter -> "touch"
                             [] OTHER -> "tenants"]
  <1>1. Set(r, f) /\ Silent /\ Busy(r)
    BY DEF SelectSession, Busy
  <1>2. req[r] \in Request /\ Standing(r) /\ Entitlement(r)
    BY <1>1 DEF IInv, TypeOK, StandingInv, EntitlementInv
  <1>3. u \in Account /\ u.role \in Roles \cup {None}
    BY <1>2 DEF IInv, TypeOK, Standing, Account
  <1>4. /\ f \in Request /\ f.pc \in {"lapsed", "touch", "tenants"} /\ f.role = u.role
        /\ f.job = req[r].job /\ f.token = req[r].token /\ f.number = req[r].number
        /\ f.pc # "lapsed" => ~Expired(r)
    BY <1>2, <1>3 DEF Request, Account
  <1>5. req'[r] = f /\ sessions' = sessions /\ users' = users /\ entitled' = entitled
    BY <1>1 DEF Set, Silent, IInv, TypeOK
  <1> HIDE DEF f
  <1>6. UserOf(r)' = UserOf(r)
    BY <1>4, <1>5 DEF UserOf
  <1>7. Standing(r)'
    BY <1>2, <1>4, <1>5, <1>6 DEF Standing
  <1>8. Entitlement(r)'
    BY <1>2, <1>4, <1>5, <1>6 DEF Entitlement, RightsOf
  <1>9. f.pc # "lapsed" => u.active
    BY <1>4 DEF Expired, UserOf
  <1>0. RightsKept
    BY <1>1 DEF RightsKept, Silent
  <1>. QED
    BY <1>1, <1>4, <1>6, <1>7, <1>8, <1>9, <1>0, MoveKeeps, QuietKeeps DEF Silent

\* Reading the tenants preserves it: they are the user's own at this moment.
LEMMA SelectTenantsKeeps ==
    ASSUME IInv, NEW r \in Slots, SelectTenants(r)
    PROVE  IInv'
  <1> DEFINE f == [req[r] EXCEPT !.pc = "handler", !.tenants = users[UserOf(r)].tenants]
  <1>1. Set(r, f) /\ Silent /\ Busy(r) /\ req[r].pc = "tenants"
    BY DEF SelectTenants, Busy
  <1>2. req[r] \in Request /\ Standing(r) /\ Entitlement(r)
    BY <1>1 DEF IInv, TypeOK, StandingInv, EntitlementInv
  <1>3. users[UserOf(r)].tenants \in TenantSets
    BY <1>2 DEF IInv, TypeOK, Standing, Account
  <1>4. /\ f \in Request /\ f.pc = "handler" /\ f.role = req[r].role
        /\ f.tenants = users[UserOf(r)].tenants
        /\ f.job = req[r].job /\ f.token = req[r].token /\ f.number = req[r].number
    BY <1>2, <1>3 DEF Request
  <1>5. req'[r] = f /\ sessions' = sessions /\ users' = users /\ entitled' = entitled
    BY <1>1 DEF Set, Silent, IInv, TypeOK
  <1> HIDE DEF f
  <1>6. UserOf(r)' = UserOf(r)
    BY <1>4, <1>5 DEF UserOf
  <1>7. Standing(r)'
    BY <1>2, <1>4, <1>5, <1>6 DEF Standing
  <1>8. Entitlement(r)'
    BY <1>1, <1>2, <1>4, <1>5, <1>6 DEF Entitlement, RightsOf
  <1>9. ~overlapped /\ f.job.kind = "patch" =>
            users[UserOf(r)].role = f.role /\ users[UserOf(r)].active
    BY <1>1, <1>4 DEF IInv, SoloInv, Patching, Busy
  <1>0. RightsKept
    BY <1>1 DEF RightsKept, Silent
  <1>. QED
    BY <1>1, <1>4, <1>6, <1>7, <1>8, <1>9, <1>0, MoveKeeps, QuietKeeps DEF Silent

\* Verifying the old password preserves it.
LEMMA VerifyPasswordKeeps ==
    ASSUME IInv, NEW r \in Slots, VerifyPassword(r)
    PROVE  IInv'
  <1> DEFINE f == [req[r] EXCEPT !.pc = "change"]
  <1>1. Set(r, f) /\ Silent /\ Busy(r) /\ req[r].pc = "handler" /\ req[r].job.kind = "change"
    BY DEF VerifyPassword, Busy, Doing, To
  <1>2. req[r] \in Request /\ Standing(r) /\ Entitlement(r)
    BY <1>1 DEF IInv, TypeOK, StandingInv, EntitlementInv
  <1>4. /\ f \in Request /\ f.pc = "change" /\ f.role = req[r].role
        /\ f.job = req[r].job /\ f.token = req[r].token /\ f.number = req[r].number
    BY <1>2 DEF Request
  <1>5. req'[r] = f /\ sessions' = sessions /\ users' = users /\ entitled' = entitled
    BY <1>1 DEF Set, Silent, IInv, TypeOK
  <1> HIDE DEF f
  <1>6. UserOf(r)' = UserOf(r)
    BY <1>4, <1>5 DEF UserOf
  <1>7. Standing(r)'
    BY <1>1, <1>2, <1>4, <1>5, <1>6 DEF Standing
  <1>8. Entitlement(r)'
    BY <1>1, <1>2, <1>4, <1>5, <1>6 DEF Entitlement, RightsOf
  <1>0. RightsKept
    BY <1>1 DEF RightsKept, Silent
  <1>. QED
    BY <1>1, <1>4, <1>6, <1>7, <1>8, <1>0, MoveKeeps, QuietKeeps DEF Silent

\* Only administrators may administer.
LEMMA AdminOnly == \A role : "admin" \in Permissions(role) => role = "admin"
  BY DEF Permissions

\* The checks of a patch preserve it: an administrator asks, and not for the
\* end of the own administration.
LEMMA ValidateTenantsKeeps ==
    ASSUME IInv, NEW r \in Slots, ValidateTenants(r)
    PROVE  IInv'
  <1> DEFINE role == IF req[r].job.role = None THEN users[req[r].job.user].role
                     ELSE req[r].job.role
             f == [req[r] EXCEPT !.pc = "patch",
                     !.given = IF req[r].job.tenants = None THEN None
                               ELSE IF role = "admin" THEN {Wildcard}
                               ELSE req[r].job.tenants]
  <1>1. /\ Set(r, f) /\ Silent /\ Busy(r)
        /\ req[r].pc = "handler" /\ req[r].job.kind = "patch"
        /\ Allowed(r, "admin") /\ NotOwnDemotion(r)
    BY DEF ValidateTenants, Busy, Doing
  <1>2. req[r] \in Request /\ Standing(r) /\ Entitlement(r)
    BY <1>1 DEF IInv, TypeOK, StandingInv, EntitlementInv
  <1>3. req[r].job.tenants \in TenantSets \cup {None} /\ {Wildcard} \in TenantSets
    BY <1>2, AccountsAssumption DEF Standing, Job, TenantSets
  <1>4. /\ f \in Request /\ f.pc = "patch" /\ f.role = req[r].role
        /\ f.job = req[r].job /\ f.token = req[r].token /\ f.number = req[r].number
    BY <1>2, <1>3 DEF Request
  <1>5. req'[r] = f /\ sessions' = sessions /\ users' = users /\ entitled' = entitled
    BY <1>1 DEF Set, Silent, IInv, TypeOK
  <1> HIDE DEF f
  <1>6. UserOf(r)' = UserOf(r) /\ req[r].role = "admin"
    BY <1>1, <1>4, <1>5, AdminOnly DEF UserOf, Allowed
  <1>7. Standing(r)'
    BY <1>1, <1>2, <1>4, <1>5, <1>6 DEF Standing, NotOwnDemotion
  <1>8. Entitlement(r)'
    BY <1>1, <1>2, <1>4, <1>5, <1>6 DEF Entitlement, RightsOf
  <1>9. ~overlapped => users[UserOf(r)].role = f.role /\ users[UserOf(r)].active
    BY <1>1, <1>4 DEF IInv, SoloInv, Patching, Busy
  <1>0. RightsKept
    BY <1>1 DEF RightsKept, Silent
  <1>. QED
    BY <1>1, <1>4, <1>6, <1>7, <1>8, <1>9, <1>0, MoveKeeps, QuietKeeps DEF Silent

\* The SELECT of update_user preserves it: the role read exists, and it is
\* "admin" when an undisturbed administrator patches the own account.
LEMMA ReadAccountKeeps ==
    ASSUME IInv, NEW r \in Slots, ReadAccount(r)
    PROVE  IInv'
  <1> DEFINE f == [req[r] EXCEPT !.pc = "write", !.basis = users[req[r].job.user].role]
  <1>1. /\ Set(r, f) /\ Silent /\ Busy(r)
        /\ req[r].pc = "patch" /\ req[r].job.kind = "patch"
        /\ users[req[r].job.user].role # None
    BY DEF ReadAccount, Busy, Doing
  <1>2. req[r] \in Request /\ Standing(r) /\ Entitlement(r)
    BY <1>1 DEF IInv, TypeOK, StandingInv, EntitlementInv
  <1>3. users[req[r].job.user].role \in Roles
    BY <1>1, <1>2, AccountsAssumption DEF Standing, WellFormed, IInv, TypeOK, Account
  <1>4. /\ f \in Request /\ f.pc = "write" /\ f.role = req[r].role
        /\ f.basis = users[req[r].job.user].role
        /\ f.job = req[r].job /\ f.token = req[r].token /\ f.number = req[r].number
    BY <1>2, <1>3 DEF Request
  <1>5. req'[r] = f /\ sessions' = sessions /\ users' = users /\ entitled' = entitled
    BY <1>1 DEF Set, Silent, IInv, TypeOK
  <1> HIDE DEF f
  <1>6. UserOf(r)' = UserOf(r) /\ req[r].role = "admin"
    BY <1>1, <1>2, <1>4, <1>5 DEF UserOf, Standing
  <1>7. Standing(r)'
    BY <1>1, <1>2, <1>3, <1>4, <1>5, <1>6 DEF Standing, NotOwnDemotion
  <1>8. Entitlement(r)'
    BY <1>1, <1>2, <1>4, <1>5, <1>6 DEF Entitlement, RightsOf
  <1>9. ~overlapped => users[UserOf(r)].role = f.role /\ users[UserOf(r)].active
    BY <1>1, <1>4 DEF IInv, SoloInv, Patching, Busy
  <1>10. ~overlapped /\ f.job.user = UserOf(r) => f.basis = "admin"
    BY <1>4, <1>6, <1>9
  <1>0. RightsKept
    BY <1>1 DEF RightsKept, Silent
  <1>. QED
    BY <1>1, <1>4, <1>6, <1>7, <1>8, <1>9, <1>10, <1>0, MoveKeeps, QuietKeeps DEF Silent

\* The checks of a request that works on a tenant preserve it: role and tenants
\* that allow the work are ones its user was entitled to.
LEMMA WorkKeeps ==
    ASSUME IInv, NEW r \in Slots, Work(r)
    PROVE  IInv'
  <1> DEFINE pc == IF Audited(req[r].job) THEN "audit" ELSE "deliver"
             f == [req[r] EXCEPT !.pc = pc]
  <1>1. /\ Set(r, f) /\ Silent /\ Busy(r)
        /\ req[r].pc = "handler" /\ req[r].job.kind = "work"
        /\ req[r].job.perm \in Permissions(req[r].role)
        /\ CanAccess(req[r].role, req[r].tenants, req[r].job.tenant)
    BY DEF Work, Busy, Doing, To, Allowed
  <1>2. req[r] \in Request /\ Standing(r) /\ Entitlement(r)
    BY <1>1 DEF IInv, TypeOK, StandingInv, EntitlementInv
  <1>3. PICK e \in entitled[r] : e.role = req[r].role
    BY <1>1, <1>2 DEF Entitlement
  <1>4. PICK d \in entitled[r] : d.tenants = req[r].tenants
    BY <1>1, <1>2 DEF Entitlement
  <1>5. /\ f \in Request /\ f.pc = pc /\ f.role = req[r].role
        /\ f.job = req[r].job /\ f.token = req[r].token /\ f.number = req[r].number
    BY <1>2 DEF Request
  <1>6. req'[r] = f /\ sessions' = sessions /\ users' = users /\ entitled' = entitled
    BY <1>1 DEF Set, Silent, IInv, TypeOK
  <1> HIDE DEF f
  <1>7. UserOf(r)' = UserOf(r)
    BY <1>5, <1>6 DEF UserOf
  <1>8. Standing(r)'
    BY <1>1, <1>2, <1>5, <1>6, <1>7 DEF Standing
  <1>9. Entitlement(r)'
    BY <1>1, <1>2, <1>5, <1>6, <1>7 DEF Entitlement, RightsOf
  <1>10. \E x \in entitled[r] : f.job.perm \in Permissions(x.role)
    BY <1>1, <1>3, <1>5
  <1>11. \E x \in entitled[r] : CanAccess(x.role, x.tenants, f.job.tenant)
    BY <1>1, <1>3, <1>4, <1>5 DEF CanAccess
  <1>0. RightsKept
    BY <1>1 DEF RightsKept, Silent
  <1>. QED
    BY <1>1, <1>5, <1>7, <1>8, <1>9, <1>10, <1>11, <1>0, MoveKeeps, QuietKeeps DEF Silent

\* Renewing last_seen and reading the tenants preserves it.
LEMMA TouchKeeps ==
    ASSUME IInv, NEW r \in Slots, Touch(r)
    PROVE  IInv'
  <1> DEFINE f == [req[r] EXCEPT !.pc = "handler", !.tenants = users[UserOf(r)].tenants]
             t == req[r].token
  <1>1. /\ Set(r, f) /\ Busy(r) /\ req[r].pc = "touch"
        /\ sessions' = [sessions EXCEPT ![t].seen = req[r].at]
        /\ UNCHANGED <<users, failures, audit, now, asked, delivered, entitled,
                       overlapped>>
    BY DEF Touch, Busy
  <1>2. req[r] \in Request /\ Standing(r) /\ Entitlement(r)
    BY <1>1 DEF IInv, TypeOK, StandingInv, EntitlementInv
  <1>3. t \in Tokens /\ req[r].at \in 0..MaxTime /\ users[UserOf(r)].tenants \in TenantSets
    BY <1>2 DEF Standing, IInv, TypeOK, Request, Account
  <1>4. /\ sessions' \in [Tokens -> Session]
        /\ \A s \in Tokens : /\ sessions'[s].user = sessions[s].user
                             /\ sessions'[s].revoked = sessions[s].revoked
                             /\ sessions'[s].pw = sessions[s].pw
    BY <1>1, <1>3 DEF IInv, TypeOK, Session
  <1>5. /\ f \in Request /\ f.pc = "handler" /\ f.role = req[r].role
        /\ f.tenants = users[UserOf(r)].tenants
        /\ f.job = req[r].job /\ f.token = t /\ f.number = req[r].number
    BY <1>2, <1>3 DEF Request
  <1>6. req'[r] = f
    BY <1>1 DEF Set, IInv, TypeOK
  <1> HIDE DEF f
  <1>7. UserOf(r)' = UserOf(r)
    BY <1>3, <1>4, <1>5, <1>6 DEF UserOf
  <1>8. Standing(r)'
    BY <1>1, <1>2, <1>5, <1>6, <1>7 DEF Standing
  <1>9. Entitlement(r)'
    BY <1>1, <1>2, <1>5, <1>6, <1>7 DEF Entitlement, RightsOf
  <1>10. ~overlapped /\ f.job.kind = "patch" =>
             users[UserOf(r)].role = f.role /\ users[UserOf(r)].active
    BY <1>1, <1>5 DEF IInv, SoloInv, Patching, Busy
  <1>11. RightsKept
    BY <1>1, <1>4 DEF RightsKept
  <1>12. RequestsInv'
    BY <1>1, <1>5, <1>7, <1>8, <1>9, <1>10, <1>11, MoveKeeps
  <1>13. SessionInv' /\ LiveSessionsAuthentic'
    BY <1>1, <1>4 DEF IInv, SessionInv, LiveSessionsAuthentic, Live
  <1>14. AdminsEverywhere' /\ AuditedBeforeDelivered' /\ AdministratorRemains'
    BY <1>1 DEF IInv, AdminsEverywhere, AuditedBeforeDelivered, AdministratorRemains,
                ActiveAdmin
  <1>15. TypeOK'
    BY <1>1, <1>4, <1>12 DEF IInv, TypeOK, RequestsInv
  <1>. QED
    BY <1>12, <1>13, <1>14, <1>15 DEF IInv, RequestsInv

\* A logout preserves it: ending a session takes no right away.
LEMMA LogoutKeeps ==
    ASSUME IInv, NEW r \in Slots, Logout(r)
    PROVE  IInv'
  <1> DEFINE f == [req[r] EXCEPT !.pc = "audit"]
             t == req[r].token
  <1>1. /\ Set(r, f) /\ Busy(r) /\ req[r].pc = "handler" /\ req[r].job.kind = "logout"
        /\ sessions' = [sessions EXCEPT ![t].revoked = TRUE]
        /\ UNCHANGED <<users, failures, audit, now, asked, delivered, entitled,
                       overlapped>>
    BY DEF Logout, Busy, Doing, To
  <1>2. req[r] \in Request /\ Standing(r) /\ Entitlement(r)
    BY <1>1 DEF IInv, TypeOK, StandingInv, EntitlementInv
  <1>3. t \in Tokens /\ sessions[t].user # None
    BY <1>2, AccountsAssumption DEF Standing, UserOf
  <1>4. /\ sessions' \in [Tokens -> Session]
        /\ \A s \in Tokens : /\ sessions'[s].user = sessions[s].user
                             /\ sessions'[s].pw = sessions[s].pw
                             /\ s # t => sessions'[s] = sessions[s]
        /\ sessions'[t].revoked
    BY <1>1, <1>3 DEF IInv, TypeOK, Session
  <1>5. /\ f \in Request /\ f.pc = "audit" /\ f.role = req[r].role
        /\ f.job = req[r].job /\ f.token = t /\ f.number = req[r].number
    BY <1>2 DEF Request
  <1>6. req'[r] = f
    BY <1>1 DEF Set, IInv, TypeOK
  <1> HIDE DEF f
  <1>7. UserOf(r)' = UserOf(r)
    BY <1>3, <1>4, <1>5, <1>6 DEF UserOf
  <1>8. Standing(r)'
    BY <1>1, <1>2, <1>5, <1>6, <1>7 DEF Standing
  <1>9. Entitlement(r)'
    BY <1>1, <1>2, <1>5, <1>6, <1>7 DEF Entitlement, RightsOf
  <1>11. RightsKept
    BY <1>1, <1>4 DEF RightsKept
  <1>12. RequestsInv'
    BY <1>1, <1>5, <1>7, <1>8, <1>9, <1>11, MoveKeeps
  <1>13. SessionInv' /\ LiveSessionsAuthentic'
    BY <1>1, <1>3, <1>4 DEF IInv, SessionInv, LiveSessionsAuthentic, Live
  <1>14. AdminsEverywhere' /\ AuditedBeforeDelivered' /\ AdministratorRemains'
    BY <1>1 DEF IInv, AdminsEverywhere, AuditedBeforeDelivered, AdministratorRemains,
                ActiveAdmin
  <1>15. TypeOK'
    BY <1>1, <1>4, <1>12 DEF IInv, TypeOK, RequestsInv
  <1>. QED
    BY <1>12, <1>13, <1>14, <1>15 DEF IInv, RequestsInv

\* Revoking a lapsed session preserves it.
LEMMA RevokeLapsedKeeps ==
    ASSUME IInv, NEW r \in Slots, RevokeLapsed(r)
    PROVE  IInv'
  <1> DEFINE t == req[r].token
  <1>1. /\ Set(r, NoRequest) /\ Busy(r)
        /\ entitled' = [entitled EXCEPT ![r] = {}]
        /\ sessions' = [sessions EXCEPT ![t].revoked = TRUE]
        /\ UNCHANGED <<users, failures, audit, now, asked, delivered, overlapped>>
    BY DEF RevokeLapsed, Busy
  <1>2. t \in Tokens /\ sessions[t].user # None
    BY <1>1, AccountsAssumption DEF IInv, StandingInv, Standing, UserOf
  <1>3. /\ sessions' \in [Tokens -> Session]
        /\ \A s \in Tokens : /\ sessions'[s].user = sessions[s].user
                             /\ sessions'[s].pw = sessions[s].pw
                             /\ s # t => sessions'[s] = sessions[s]
        /\ sessions'[t].revoked
    BY <1>1, <1>2 DEF IInv, TypeOK, Session
  <1>4. RightsKept
    BY <1>1, <1>3 DEF RightsKept
  <1>5. RequestsInv'
    BY <1>1, <1>4, EndKeeps
  <1>6. SessionInv' /\ LiveSessionsAuthentic'
    BY <1>1, <1>2, <1>3 DEF IInv, SessionInv, LiveSessionsAuthentic, Live
  <1>7. AdminsEverywhere' /\ AuditedBeforeDelivered' /\ AdministratorRemains'
    BY <1>1 DEF IInv, AdminsEverywhere, AuditedBeforeDelivered, AdministratorRemains,
                ActiveAdmin
  <1>8. TypeOK'
    BY <1>1, <1>3, <1>5 DEF IInv, TypeOK, RequestsInv
  <1>. QED
    BY <1>5, <1>6, <1>7, <1>8 DEF IInv, RequestsInv

\* The audit row of a request preserves it, and is what the answer waits for.
LEMMA AuditKeeps ==
    ASSUME IInv, NEW r \in Slots, Audit(r)
    PROVE  IInv'
  <1> DEFINE f == [req[r] EXCEPT !.pc = "deliver"]
  <1>1. /\ Set(r, f) /\ Busy(r) /\ req[r].pc = "audit"
        /\ audit' = audit \cup {req[r].number}
        /\ UNCHANGED <<users, sessions, failures, now, asked, delivered, entitled,
                       overlapped>>
    BY DEF Audit, Busy, To
  <1>2. req[r] \in Request /\ Standing(r) /\ Entitlement(r)
    BY <1>1 DEF IInv, TypeOK, StandingInv, EntitlementInv
  <1>3. /\ f \in Request /\ f.pc = "deliver" /\ f.role = req[r].role
        /\ f.job = req[r].job /\ f.token = req[r].token /\ f.number = req[r].number
    BY <1>2 DEF Request
  <1>4. req'[r] = f
    BY <1>1 DEF Set, IInv, TypeOK
  <1> HIDE DEF f
  <1>5. UserOf(r)' = UserOf(r)
    BY <1>1, <1>3, <1>4 DEF UserOf
  <1>6. Standing(r)'
    BY <1>1, <1>2, <1>3, <1>4, <1>5 DEF Standing
  <1>7. Entitlement(r)'
    BY <1>1, <1>2, <1>3, <1>4, <1>5 DEF Entitlement, RightsOf
  <1>8. f.job.kind = "work" =>
            /\ \E e \in entitled[r] : f.job.perm \in Permissions(e.role)
            /\ \E e \in entitled[r] : CanAccess(e.role, e.tenants, f.job.tenant)
    BY <1>1, <1>3 DEF IInv, EntitledSinceArrival, Doing
  <1>9. RightsKept
    BY <1>1 DEF RightsKept
  <1>10. RequestsInv'
    BY <1>1, <1>3, <1>6, <1>7, <1>8, <1>9, MoveKeeps
  <1>11. SessionInv' /\ LiveSessionsAuthentic' /\ AdminsEverywhere'
    BY <1>1 DEF IInv, SessionInv, LiveSessionsAuthentic, Live, AdminsEverywhere
  <1>12. AuditedBeforeDelivered' /\ AdministratorRemains'
    BY <1>1 DEF IInv, AuditedBeforeDelivered, AdministratorRemains, ActiveAdmin
  <1>13. TypeOK'
    BY <1>1, <1>2, <1>10 DEF IInv, TypeOK, RequestsInv, Standing
  <1>. QED
    BY <1>10, <1>11, <1>12, <1>13 DEF IInv, RequestsInv

\* The answer preserves it: its request is in the audit trail.
LEMMA DeliverKeeps ==
    ASSUME IInv, NEW r \in Slots, Deliver(r)
    PROVE  IInv'
  <1>1. /\ Set(r, NoRequest) /\ Busy(r) /\ req[r].pc = "deliver"
        /\ entitled' = [entitled EXCEPT ![r] = {}]
        /\ delivered' = delivered \cup {<<req[r].number, Audited(req[r].job)>>}
        /\ UNCHANGED <<users, sessions, failures, audit, now, asked, overlapped>>
    BY DEF Deliver, Busy
  <1>2. /\ Audited(req[r].job) => req[r].number \in audit
        /\ req[r].number \in 1..MaxRequests
    BY <1>1 DEF IInv, StandingInv, Standing
  <1>3. RightsKept
    BY <1>1 DEF RightsKept
  <1>4. RequestsInv'
    BY <1>1, <1>3, EndKeeps
  <1>5. SessionInv' /\ LiveSessionsAuthentic' /\ AdminsEverywhere'
    BY <1>1 DEF IInv, SessionInv, LiveSessionsAuthentic, Live, AdminsEverywhere
  <1>6. AuditedBeforeDelivered' /\ AdministratorRemains'
    BY <1>1, <1>2 DEF IInv, AuditedBeforeDelivered, AdministratorRemains, ActiveAdmin
  <1>7. TypeOK'
    <2>1. Audited(req[r].job) \in BOOLEAN
      BY DEF Audited
    <2>. QED
      BY <1>1, <1>2, <1>4, <2>1 DEF IInv, TypeOK, RequestsInv
  <1>. QED
    BY <1>4, <1>5, <1>6, <1>7 DEF IInv, RequestsInv

\* A refusal, failure or kill preserves it, wherever the request stood.
LEMMA FailKeeps ==
    ASSUME IInv, NEW r \in Slots, Fail(r)
    PROVE  IInv'
  <1>1. /\ Set(r, NoRequest)
        /\ entitled' = [entitled EXCEPT ![r] = {}]
        /\ UNCHANGED <<users, sessions, failures, audit, now, asked, delivered,
                       overlapped>>
    BY DEF Fail
  <1>2. RightsKept
    BY <1>1 DEF RightsKept
  <1>3. RequestsInv'
    BY <1>1, <1>2, EndKeeps
  <1>4. SessionInv' /\ LiveSessionsAuthentic' /\ AdminsEverywhere'
    BY <1>1 DEF IInv, SessionInv, LiveSessionsAuthentic, Live, AdminsEverywhere
  <1>5. AuditedBeforeDelivered' /\ AdministratorRemains'
    BY <1>1 DEF IInv, AuditedBeforeDelivered, AdministratorRemains, ActiveAdmin
  <1>6. TypeOK'
    BY <1>1, <1>3 DEF IInv, TypeOK, RequestsInv
  <1>. QED
    BY <1>3, <1>4, <1>5, <1>6 DEF IInv, RequestsInv

\* A step outside the requests in flight keeps RequestsInv while rights are kept.
LEMMA OutsideKeeps ==
    ASSUME IInv, RightsKept, req' = req, entitled' = entitled
    PROVE  RequestsInv'
  <1>1. \A q \in Slots : Busy(q)' =>
            /\ Busy(q) /\ UserOf(q)' = UserOf(q) /\ UserOf(q) \in Users
            /\ Standing(q)' /\ Entitlement(q)'
    BY OthersKeep DEF Busy
  <1>2. StandingInv' /\ EntitlementInv'
    BY <1>1 DEF StandingInv, EntitlementInv
  <1>3. EntitledSinceArrival'
    BY DEF EntitledSinceArrival, Doing, IInv
  <1>4. SoloInv'
    BY <1>1 DEF SoloInv, Patching, IInv, RightsKept
  <1>. QED
    BY <1>2, <1>3, <1>4 DEF RequestsInv, IInv, TypeOK

\* Time passing preserves it.
LEMMA TickKeeps ==
    ASSUME IInv, Tick
    PROVE  IInv'
  <1>1. /\ now < MaxTime /\ now' = now + 1
        /\ UNCHANGED <<users, sessions, failures, audit, req, asked, delivered,
                       entitled, overlapped>>
    BY DEF Tick
  <1>2. RequestsInv'
    BY <1>1, OutsideKeeps DEF RightsKept
  <1>3. SessionInv' /\ LiveSessionsAuthentic' /\ AdminsEverywhere'
    BY <1>1 DEF IInv, SessionInv, LiveSessionsAuthentic, Live, AdminsEverywhere
  <1>4. AuditedBeforeDelivered' /\ AdministratorRemains'
    BY <1>1 DEF IInv, AuditedBeforeDelivered, AdministratorRemains, ActiveAdmin
  <1>5. now' \in 0..MaxTime
    BY <1>1, AccountsAssumption DEF IInv, TypeOK
  <1>6. TypeOK'
    BY <1>1, <1>2, <1>5 DEF IInv, TypeOK, RequestsInv
  <1>. QED
    BY <1>2, <1>3, <1>4, <1>6 DEF IInv, RequestsInv

\* A login that is refused, for too many failures or for its credentials,
\* preserves it.
LEMMA LoginRejectedKeeps ==
    ASSUME IInv, NEW u \in Users, NEW p \in Passwords, NEW ip \in Ips,
           LoginLimited(u, ip) \/ LoginRefused(u, p, ip)
    PROVE  IInv'
  <1>1. /\ asked < MaxRequests /\ asked' = asked + 1
        /\ UNCHANGED <<users, sessions, audit, now, req, delivered, entitled, overlapped>>
    BY DEF LoginLimited, LoginRefused, LoginStep
  <1>2. RequestsInv'
    BY <1>1, OutsideKeeps DEF RightsKept
  <1>3. SessionInv' /\ LiveSessionsAuthentic' /\ AdminsEverywhere'
    BY <1>1 DEF IInv, SessionInv, LiveSessionsAuthentic, Live, AdminsEverywhere
  <1>4. AuditedBeforeDelivered' /\ AdministratorRemains'
    BY <1>1 DEF IInv, AuditedBeforeDelivered, AdministratorRemains, ActiveAdmin
  <1>5. asked' \in 0..MaxRequests /\ asked + 1 \in 1..MaxRequests
    BY <1>1, AccountsAssumption DEF IInv, TypeOK
  <1>6. Recent(u, ip) \cup {<<now, asked + 1>>} \subseteq (0..MaxTime) \X (1..MaxRequests)
    BY <1>5 DEF Recent, IInv, TypeOK
  <1>7. failures' \in [Users \X Ips -> SUBSET ((0..MaxTime) \X (1..MaxRequests))]
    BY <1>6 DEF LoginLimited, LoginRefused, IInv, TypeOK
  <1>8. TypeOK'
    BY <1>1, <1>2, <1>5, <1>7 DEF IInv, TypeOK, RequestsInv
  <1>. QED
    BY <1>2, <1>3, <1>4, <1>8 DEF IInv, RequestsInv

\* A login preserves it: the session is opened with the present password of an
\* active account, on a cookie nobody has had.
LEMMA LoginAcceptedKeeps ==
    ASSUME IInv, NEW u \in Users, NEW p \in Passwords, NEW ip \in Ips,
           NEW s \in Tokens, LoginAccepted(u, p, ip, s)
    PROVE  IInv'
  <1> DEFINE row == [user |-> u, born |-> now, seen |-> now, revoked |-> FALSE, pw |-> p]
  <1>1. /\ asked < MaxRequests /\ asked' = asked + 1
        /\ users[u].role # None /\ users[u].pw = p /\ users[u].active
        /\ sessions[s].user = None
        /\ sessions' = [sessions EXCEPT ![s] = row]
        /\ failures' = [failures EXCEPT ![<<u, ip>>] = {}]
        /\ audit' = audit \cup {asked + 1}
        /\ UNCHANGED <<users, now, req, delivered, entitled, overlapped>>
    BY DEF LoginAccepted, LoginStep, Credentials
  <1>2. row \in Session
    BY DEF Session, IInv, TypeOK
  <1>3. /\ sessions' \in [Tokens -> Session] /\ sessions'[s] = row
        /\ \A x \in Tokens : x # s => sessions'[x] = sessions[x]
    BY <1>1, <1>2 DEF IInv, TypeOK
  <1>4. row.user = u /\ row.pw = p /\ ~row.revoked /\ u # None
    BY AccountsAssumption
  <1> HIDE DEF row
  <1>5. RequestsInv'
    BY <1>1, <1>3, OutsideKeeps DEF RightsKept
  <1>6. SessionInv' /\ LiveSessionsAuthentic'
    BY <1>1, <1>3, <1>4 DEF IInv, SessionInv, LiveSessionsAuthentic, Live
  <1>7. AdminsEverywhere' /\ AuditedBeforeDelivered' /\ AdministratorRemains'
    BY <1>1 DEF IInv, AdminsEverywhere, AuditedBeforeDelivered, AdministratorRemains,
                ActiveAdmin
  <1>8. asked' \in 0..MaxRequests /\ asked + 1 \in 1..MaxRequests
    BY <1>1, AccountsAssumption DEF IInv, TypeOK
  <1>9. failures' \in [Users \X Ips -> SUBSET ((0..MaxTime) \X (1..MaxRequests))]
    BY <1>1 DEF IInv, TypeOK
  <1>10. TypeOK'
    BY <1>1, <1>3, <1>5, <1>8, <1>9 DEF IInv, TypeOK, RequestsInv
  <1>. QED
    BY <1>5, <1>6, <1>7, <1>10 DEF IInv, RequestsInv

\* The arrival of a request preserves it: its user is entitled to the present
\* rights, and a second change in flight is noted as overlapping.
LEMMA ArriveKeeps ==
    ASSUME IInv, NEW r \in Slots, NEW s \in Tokens, NEW job \in Jobs, Arrive(r, s, job)
    PROVE  IInv'
  <1> DEFINE f == [NoRequest EXCEPT !.pc = "session", !.number = asked + 1,
                                    !.job = job, !.token = s, !.at = now]
             rights == RightsOf(sessions[s].user)
  <1>1. /\ ~Busy(r) /\ asked < MaxRequests /\ sessions[s].user # None
        /\ asked' = asked + 1 /\ Set(r, f)
        /\ entitled' = [entitled EXCEPT ![r] = {rights}]
        /\ UNCHANGED <<users, sessions, failures, audit, now, delivered>>
    BY DEF Arrive
  <1>2. asked + 1 \in 1..MaxRequests /\ asked' \in 0..MaxRequests
    BY <1>1, AccountsAssumption DEF IInv, TypeOK
  <1>3. /\ f \in Request /\ f.pc = "session" /\ f.job = job /\ f.token = s
        /\ f.number = asked + 1
    <2>1. NoRequest \in Request
      BY AccountsAssumption DEF NoRequest, Request, TenantSets, Roles
    <2>2. asked + 1 \in 0..MaxRequests /\ now \in 0..MaxTime
      BY <1>2 DEF IInv, TypeOK
    <2>. QED
      BY <2>1, <2>2 DEF Request
  <1>4. sessions[s].user \in Users
    BY <1>1 DEF IInv, TypeOK, Session
  <1>5. users[sessions[s].user].role \in Roles
    BY <1>1, <1>4 DEF IInv, TypeOK, SessionInv, Account
  <1>6. rights \in Rights
    BY <1>4, <1>5 DEF RightsOf, Rights, IInv, TypeOK, Account
  <1>7. /\ req' \in [Slots -> Request] /\ req'[r] = f
        /\ entitled' \in [Slots -> SUBSET Rights] /\ entitled'[r] = {rights}
        /\ \A q \in Slots : q # r => req'[q] = req[q] /\ entitled'[q] = entitled[q]
    BY <1>1, <1>3, <1>6 DEF IInv, TypeOK, Set
  <1> HIDE DEF f
  <1>8. UserOf(r)' = sessions[s].user
    BY <1>1, <1>3, <1>7 DEF UserOf
  <1>9. Standing(r)' /\ Entitlement(r)'
    <2>1. Standing(r)'
      BY <1>1, <1>2, <1>3, <1>4, <1>7, <1>8 DEF Standing
    <2>2. Entitlement(r)'
      BY <1>1, <1>3, <1>7, <1>8 DEF Entitlement, RightsOf
    <2>. QED
      BY <2>1, <2>2
  <1>10. ASSUME NEW q \in Slots, q # r, Busy(q)'
         PROVE  /\ Busy(q) /\ UserOf(q)' = UserOf(q)
                /\ Standing(q)' /\ Entitlement(q)'
    <2>1. Busy(q) /\ req'[q] = req[q] /\ entitled'[q] = entitled[q]
      BY <1>7, <1>10 DEF Busy
    <2>2. Standing(q) /\ Entitlement(q)
      BY <2>1 DEF IInv, StandingInv, EntitlementInv
    <2>3. UserOf(q)' = UserOf(q)
      BY <1>1, <2>1 DEF UserOf
    <2>4. Standing(q)'
      BY <1>1, <2>1, <2>2, <2>3 DEF Standing, NotOwnDemotion
    <2>5. Entitlement(q)'
      BY <1>1, <2>1, <2>2, <2>3 DEF Entitlement, RightsOf
    <2>. QED
      BY <2>1, <2>3, <2>4, <2>5
  <1>11. StandingInv' /\ EntitlementInv'
    BY <1>9, <1>10 DEF StandingInv, EntitlementInv
  <1>12. EntitledSinceArrival'
    BY <1>3, <1>7 DEF IInv, EntitledSinceArrival, Doing
  <1>13. /\ overlapped' \in BOOLEAN
         /\ ~overlapped' => ~overlapped
         /\ ~overlapped' /\ job.kind = "patch" => \A q \in Slots : ~Patching(q)
    BY DEF Arrive
  <1>14. SoloInv'
    BY <1>1, <1>3, <1>7, <1>10, <1>13 DEF IInv, SoloInv, Patching, Busy
  <1>15. SessionInv' /\ LiveSessionsAuthentic' /\ AdminsEverywhere'
    BY <1>1 DEF IInv, SessionInv, LiveSessionsAuthentic, Live, AdminsEverywhere
  <1>16. AuditedBeforeDelivered' /\ AdministratorRemains'
    BY <1>1, <1>13 DEF IInv, AuditedBeforeDelivered, AdministratorRemains, ActiveAdmin
  <1>17. TypeOK'
    BY <1>1, <1>2, <1>7, <1>13 DEF IInv, TypeOK
  <1>. QED
    BY <1>11, <1>12, <1>14, <1>15, <1>16, <1>17 DEF IInv

\* Store writes one row, and tells the requests of its user.
LEMMA StoreFacts ==
    ASSUME IInv, NEW u \in Users, NEW account \in Account, account.role \in Roles,
           Store(u, account)
    PROVE  /\ users' \in [Users -> Account] /\ users'[u] = account
           /\ \A v \in Users : v # u => users'[v] = users[v]
           /\ entitled' \in [Slots -> SUBSET Rights]
           /\ \A q \in Slots : entitled[q] \subseteq entitled'[q]
           /\ \A q \in Slots : Busy(q) /\ UserOf(q) = u =>
                  [role |-> account.role, tenants |-> account.tenants] \in entitled'[q]
  <1>1. [role |-> account.role, tenants |-> account.tenants] \in Rights
    BY DEF Rights, Account
  <1>2. users' \in [Users -> Account] /\ users'[u] = account
        /\ \A v \in Users : v # u => users'[v] = users[v]
    BY DEF Store, IInv, TypeOK
  <1>3. entitled' \in [Slots -> SUBSET Rights]
    BY <1>1 DEF Store, IInv, TypeOK
  <1>4. \A q \in Slots : entitled[q] \subseteq entitled'[q]
    BY DEF Store
  <1>5. \A q \in Slots : Busy(q) /\ UserOf(q) = u =>
            [role |-> account.role, tenants |-> account.tenants] \in entitled'[q]
    BY DEF Store
  <1>. QED
    BY <1>2, <1>3, <1>4, <1>5

\* The request that creates or patches an account keeps RequestsInv, when
\* another change in flight without overlap is not of that account's user.
LEMMA StoreKeeps ==
    ASSUME IInv, NEW r \in Slots, Busy(r), To(r, "audit"),
           req[r].job.kind \in {"create", "patch"}, req[r].pc # "session",
           NEW u \in Users, NEW account \in Account, account.role \in Roles,
           Store(u, account),
           \A s \in Tokens : sessions'[s].user = sessions[s].user,
           \A q \in Slots : q # r /\ Patching(q) /\ ~overlapped => UserOf(q) # u,
           UNCHANGED <<audit, overlapped>>
    PROVE  RequestsInv' /\ users' \in [Users -> Account]
  <1>0. /\ users' \in [Users -> Account] /\ users'[u] = account
        /\ \A v \in Users : v # u => users'[v] = users[v]
        /\ entitled' \in [Slots -> SUBSET Rights]
        /\ \A q \in Slots : entitled[q] \subseteq entitled'[q]
        /\ \A q \in Slots : Busy(q) /\ UserOf(q) = u =>
               [role |-> account.role, tenants |-> account.tenants] \in entitled'[q]
    BY StoreFacts
  <1> DEFINE f == [req[r] EXCEPT !.pc = "audit"]
  <1>1. req[r] \in Request /\ Set(r, f)
    BY DEF To, IInv, TypeOK
  <1>2. /\ f \in Request /\ f.pc = "audit" /\ f.role = req[r].role
        /\ f.job = req[r].job /\ f.token = req[r].token /\ f.number = req[r].number
    BY <1>1 DEF Request
  <1>3. /\ req' \in [Slots -> Request] /\ req'[r] = f
        /\ \A q \in Slots : q # r => req'[q] = req[q]
    BY <1>1, <1>2 DEF Set, IInv, TypeOK
  <1> HIDE DEF f
  <1>4. ASSUME NEW q \in Slots, Busy(q)'
        PROVE  /\ Busy(q) /\ UserOf(q)' = UserOf(q) /\ UserOf(q) \in Users
               /\ Standing(q)' /\ Entitlement(q)'
    <2>1. Busy(q) /\ req'[q].token = req[q].token
      BY <1>2, <1>3, <1>4 DEF Busy
    <2>2. Standing(q) /\ Entitlement(q)
      BY <2>1 DEF IInv, StandingInv, EntitlementInv
    <2>3. UserOf(q)' = UserOf(q) /\ UserOf(q) \in Users
      BY <2>1, <2>2 DEF UserOf, Standing
    <2>4. Standing(q)'
      <3>1. CASE q = r
        BY <3>1, <1>2, <1>3, <2>2, <2>3 DEF Standing
      <3>2. CASE q # r
        BY <3>2, <1>3, <2>2, <2>3 DEF Standing, NotOwnDemotion
      <3>. QED
        BY <3>1, <3>2
    <2>5. RightsOf(UserOf(q))' \in entitled'[q]
      <3>1. CASE UserOf(q) = u
        BY <3>1, <1>0, <2>1, <2>3 DEF RightsOf
      <3>2. CASE UserOf(q) # u
        BY <3>2, <1>0, <2>2, <2>3 DEF Entitlement, RightsOf
      <3>. QED
        BY <3>1, <3>2
    <2>6. \A e \in entitled[q] : e \in entitled'[q]
      BY <1>0
    <2>7. Entitlement(q)'
      <3>1. CASE q = r
        BY <3>1, <1>2, <1>3, <2>2, <2>5, <2>6 DEF Entitlement
      <3>2. CASE q # r
        BY <3>2, <1>3, <2>2, <2>5, <2>6 DEF Entitlement
      <3>. QED
        BY <3>1, <3>2
    <2>. QED
      BY <2>1, <2>3, <2>4, <2>7
  <1>5. StandingInv' /\ EntitlementInv'
    BY <1>4 DEF StandingInv, EntitlementInv
  <1>6. EntitledSinceArrival'
    <2> SUFFICES ASSUME NEW q \in Slots,
                        req'[q].pc \in {"audit", "deliver"}, req'[q].job.kind = "work"
                 PROVE  /\ \E e \in entitled'[q] : req'[q].job.perm \in Permissions(e.role)
                        /\ \E e \in entitled'[q] :
                               CanAccess(e.role, e.tenants, req'[q].job.tenant)
      BY DEF EntitledSinceArrival, Doing
    <2>1. q # r
      BY <1>2, <1>3
    <2>2. /\ \E e \in entitled[q] : req[q].job.perm \in Permissions(e.role)
          /\ \E e \in entitled[q] : CanAccess(e.role, e.tenants, req[q].job.tenant)
      BY <1>3, <2>1 DEF IInv, EntitledSinceArrival, Doing
    <2>3. entitled[q] \subseteq entitled'[q]
      BY <1>0
    <2>. QED
      BY <1>3, <2>1, <2>2, <2>3
  <1>7. SoloInv'
    <2> SUFFICES ASSUME ~overlapped PROVE SoloInv'
      BY DEF SoloInv
    <2>1. ASSUME NEW q \in Slots, Patching(q)'
          PROVE  Patching(q) /\ UserOf(q)' = UserOf(q) /\ UserOf(q) \in Users
      BY <2>1, <1>2, <1>3, <1>4 DEF Patching
    <2>2. ASSUME NEW q \in Slots, Patching(q)',
                 req'[q].pc \in {"touch", "tenants", "handler", "patch", "write"}
          PROVE  /\ q # r /\ req'[q] = req[q]
                 /\ users'[UserOf(q)] = users[UserOf(q)]
      BY <2>1, <2>2, <1>0, <1>2, <1>3
    <2>. QED
      BY <2>1, <2>2 DEF SoloInv, IInv
  <1>. QED
    BY <1>0, <1>3, <1>5, <1>6, <1>7 DEF RequestsInv

\* Creating an account preserves it: nobody had a session of that name.
LEMMA CreateKeeps ==
    ASSUME IInv, NEW r \in Slots, Create(r)
    PROVE  IInv'
  <1> DEFINE job == req[r].job
             tenants == IF job.role = "admin" THEN {Wildcard} ELSE job.tenants
             account == [role |-> job.role, active |-> TRUE, must |-> TRUE,
                         pw |-> job.pw, tenants |-> tenants]
  <1>1. /\ Busy(r) /\ job.kind = "create" /\ req[r].pc = "handler" /\ To(r, "audit")
        /\ users[job.user].role = None
        /\ Store(job.user, account)
        /\ UNCHANGED <<sessions, failures, audit, now, asked, delivered, overlapped>>
    BY DEF Create, Busy, Doing
  <1>2. job \in Jobs
    BY <1>1 DEF IInv, StandingInv, Standing
  <1>3. /\ job.user \in Users /\ job.role \in Roles /\ job.tenants \in TenantSets
        /\ job.pw \in Passwords
    BY <1>1, <1>2, AccountsAssumption DEF WellFormed
  <1>4. /\ account \in Account /\ account.role \in Roles
        /\ account.role # None
        /\ account.role = "admin" => account.tenants = {Wildcard}
    BY <1>3, AccountsAssumption DEF Account, TenantSets
  <1> HIDE DEF account
  <1>5. \A s \in Tokens : sessions[s].user # None => sessions[s].user # job.user
    BY <1>1 DEF IInv, SessionInv
  <1>6. \A q \in Slots : q # r /\ Patching(q) /\ ~overlapped => UserOf(q) # job.user
    BY <1>5, AccountsAssumption DEF Patching, IInv, StandingInv, Standing, UserOf
  <1>7. RequestsInv' /\ users' \in [Users -> Account]
    BY <1>1, <1>3, <1>4, <1>6, StoreKeeps
  <1>8. /\ users'[job.user] = account
        /\ \A v \in Users : v # job.user => users'[v] = users[v]
    BY <1>1, <1>3, <1>4, StoreFacts
  <1>9. SessionInv' /\ LiveSessionsAuthentic'
    BY <1>1, <1>5, <1>8 DEF IInv, SessionInv, LiveSessionsAuthentic, Live, TypeOK, Session
  <1>10. AdminsEverywhere' /\ AuditedBeforeDelivered'
    BY <1>1, <1>4, <1>8 DEF IInv, AdminsEverywhere, AuditedBeforeDelivered
  <1>11. AdministratorRemains'
    BY <1>1, <1>8, AccountsAssumption DEF IInv, AdministratorRemains, ActiveAdmin, Roles
  <1>12. TypeOK'
    BY <1>1, <1>7 DEF IInv, TypeOK, RequestsInv
  <1>. QED
    BY <1>7, <1>9, <1>10, <1>11, <1>12 DEF IInv, RequestsInv

\* Ending the sessions of a user keeps users and passwords of all sessions.
LEMMA RevokeFacts ==
    ASSUME IInv, NEW u \in Users, NEW keep
    PROVE  LET after == RevokeOthers(u, keep) IN
           /\ after \in [Tokens -> Session]
           /\ \A s \in Tokens :
                  /\ after[s].user = sessions[s].user /\ after[s].pw = sessions[s].pw
                  /\ sessions[s].user = u /\ s # keep => after[s].revoked
                  /\ sessions[s].user # u \/ s = keep => after[s] = sessions[s]
  <1> DEFINE after == RevokeOthers(u, keep)
  <1>1. \A s \in Tokens : [sessions[s] EXCEPT !.revoked = TRUE] \in Session
    BY DEF IInv, TypeOK, Session
  <1>2. after \in [Tokens -> Session]
    BY <1>1 DEF RevokeOthers, IInv, TypeOK
  <1>3. \A s \in Tokens : sessions[s].user # u \/ s = keep => after[s] = sessions[s]
    BY DEF RevokeOthers
  <1>4. ASSUME NEW s \in Tokens, sessions[s].user = u, s # keep
        PROVE  /\ after[s].user = sessions[s].user /\ after[s].pw = sessions[s].pw
               /\ after[s].revoked
    <2>1. after[s] = [sessions[s] EXCEPT !.revoked = TRUE]
      BY <1>4 DEF RevokeOthers
    <2>2. sessions[s] \in Session
      BY DEF IInv, TypeOK
    <2>. QED
      BY <2>1, <2>2 DEF Session
  <1>. QED
    BY <1>2, <1>3, <1>4

\* Writing a new password preserves it: the session that did it knows it, and
\* the others end.
LEMMA ChangePasswordKeeps ==
    ASSUME IInv, NEW r \in Slots, ChangePassword(r)
    PROVE  IInv'
  <1> DEFINE f == [req[r] EXCEPT !.pc = "audit"]
             t == req[r].token
             u == UserOf(r)
             p == req[r].job.pw
             after == RevokeOthers(u, t)
  <1>1. /\ Set(r, f) /\ Busy(r) /\ req[r].pc = "change"
        /\ users' = [users EXCEPT ![u].pw = p, ![u].must = FALSE]
        /\ sessions' = [after EXCEPT ![t].pw = p]
        /\ UNCHANGED <<failures, audit, now, asked, delivered, entitled, overlapped>>
    BY DEF ChangePassword, Busy, To
  <1>2. req[r] \in Request /\ Standing(r) /\ Entitlement(r)
    BY <1>1 DEF IInv, TypeOK, StandingInv, EntitlementInv
  <1>3. t \in Tokens /\ u \in Users /\ u # None /\ p \in Passwords /\ sessions[t].user = u
        /\ req[r].job.kind = "change"
    BY <1>1, <1>2, AccountsAssumption DEF Standing, UserOf, WellFormed
  <1>4. /\ after \in [Tokens -> Session]
        /\ \A s \in Tokens :
               /\ after[s].user = sessions[s].user /\ after[s].pw = sessions[s].pw
               /\ sessions[s].user = u /\ s # t => after[s].revoked
               /\ sessions[s].user # u \/ s = t => after[s] = sessions[s]
    BY <1>3, RevokeFacts
  <1>5. /\ f \in Request /\ f.pc = "audit" /\ f.role = req[r].role
        /\ f.job = req[r].job /\ f.token = t /\ f.number = req[r].number
    BY <1>2 DEF Request
  <1>6. req'[r] = f
    BY <1>1 DEF Set, IInv, TypeOK
  <1> HIDE DEF f, after, p
  <1>7. /\ sessions' \in [Tokens -> Session]
        /\ \A s \in Tokens : /\ sessions'[s].user = sessions[s].user
                             /\ s # t => sessions'[s] = after[s]
        /\ sessions'[t].pw = p /\ sessions'[t].revoked = sessions[t].revoked
    BY <1>1, <1>3, <1>4 DEF Session
  <1>8. /\ users' \in [Users -> Account]
        /\ users'[u].pw = p
        /\ \A v \in Users : /\ users'[v].role = users[v].role
                            /\ users'[v].active = users[v].active
                            /\ users'[v].tenants = users[v].tenants
                            /\ v # u => users'[v] = users[v]
    BY <1>1, <1>3 DEF IInv, TypeOK, Account
  <1>9. RightsKept
    BY <1>1, <1>7, <1>8 DEF RightsKept
  <1>10. UserOf(r)' = u
    BY <1>3, <1>5, <1>6, <1>7 DEF UserOf
  <1>11. Standing(r)'
    BY <1>1, <1>2, <1>5, <1>6, <1>10 DEF Standing
  <1>12. RightsOf(UserOf(r))' = RightsOf(UserOf(r))
    BY <1>3, <1>8, <1>10 DEF RightsOf
  <1>13. Entitlement(r)'
    BY <1>1, <1>2, <1>5, <1>6, <1>12 DEF Entitlement
  <1>14. RequestsInv'
    BY <1>1, <1>3, <1>5, <1>9, <1>11, <1>13, MoveKeeps
  <1>15. SessionInv'
    <2>1. ASSUME NEW s \in Tokens, sessions'[s].user = None PROVE ~sessions'[s].revoked
      BY <2>1, <1>3, <1>4, <1>7 DEF IInv, SessionInv
    <2>2. ASSUME NEW s \in Tokens, sessions'[s].user # None
          PROVE  users'[sessions'[s].user].role # None
      <3>1. sessions[s].user \in Users /\ sessions'[s].user = sessions[s].user
        BY <2>2, <1>7 DEF IInv, TypeOK, Session
      <3>. QED
        BY <3>1, <2>2, <1>8 DEF IInv, SessionInv
    <2>. QED
      BY <2>1, <2>2 DEF SessionInv
  <1>16. LiveSessionsAuthentic'
    <2> SUFFICES ASSUME NEW s \in Tokens, sessions'[s].user # None, ~sessions'[s].revoked
                 PROVE  /\ users'[sessions'[s].user].active
                        /\ users'[sessions'[s].user].pw = sessions'[s].pw
      BY DEF LiveSessionsAuthentic, Live
    <2>1. sessions[s].user \in Users /\ sessions'[s].user = sessions[s].user
      BY <1>7 DEF IInv, TypeOK, Session
    <2>2. CASE s = t
      BY <2>1, <2>2, <1>3, <1>7, <1>8 DEF IInv, LiveSessionsAuthentic, Live
    <2>3. CASE s # t
      BY <2>1, <2>3, <1>4, <1>7, <1>8 DEF IInv, LiveSessionsAuthentic, Live
    <2>. QED
      BY <2>2, <2>3
  <1>17. AdminsEverywhere' /\ AuditedBeforeDelivered'
    BY <1>1, <1>8 DEF IInv, AdminsEverywhere, AuditedBeforeDelivered
  <1>18. AdministratorRemains'
    BY <1>1, <1>8 DEF IInv, AdministratorRemains, ActiveAdmin
  <1>19. TypeOK'
    BY <1>1, <1>7, <1>8, <1>14 DEF IInv, TypeOK, RequestsInv
  <1>. QED
    BY <1>14, <1>15, <1>16, <1>17, <1>18, <1>19 DEF IInv, RequestsInv

\* The account a patch writes is a well-formed row, with the role the patch
\* asks for or read, and an administrator's has the wildcard.
LEMMA PatchedFacts ==
    ASSUME IInv, NEW r \in Slots, req[r].pc = "write"
    PROVE  LET job == req[r].job
               account == PatchedAccount(r, NewTenants(r)) IN
           /\ job.user \in Users
           /\ account \in Account /\ account.role \in Roles
           /\ account.role = "admin" => account.tenants = {Wildcard}
           /\ account.role = IF job.role = None THEN req[r].basis ELSE job.role
           /\ job.active # FALSE /\ users[job.user].active => account.active
  <1> DEFINE job == req[r].job
             row == users[job.user]
             account == PatchedAccount(r, NewTenants(r))
  <1>1. Standing(r) /\ req[r] \in Request
    BY DEF IInv, TypeOK, StandingInv, Busy
  <1>2. job \in Job /\ job.user \in Users /\ req[r].basis \in Roles
    BY <1>1, AccountsAssumption DEF Standing, WellFormed
  <1>3. row \in Account
    BY <1>2 DEF IInv, TypeOK
  <1>4. NewRole(r) \in Roles /\ NewRole(r) = IF job.role = None THEN req[r].basis ELSE job.role
    BY <1>2 DEF NewRole, Given, Job
  <1>5. NewTenants(r) \in TenantSets \cup {None}
    BY <1>1 DEF NewTenants, Request, TenantSets
  <1>6. Given(NewTenants(r), row.tenants) \in TenantSets
    BY <1>3, <1>5 DEF Given, Account
  <1>7. NewRole(r) = "admin" => Given(NewTenants(r), row.tenants) = {Wildcard}
    BY AccountsAssumption DEF NewTenants, Given
  <1>8. Given(job.active, row.active) \in BOOLEAN
    <2>1. job.active \in BOOLEAN \cup {None} /\ row.active \in BOOLEAN
      BY <1>2, <1>3 DEF Job, Account
    <2>. QED
      BY <2>1 DEF Given
  <1>9. job.active # FALSE /\ row.active => Given(job.active, row.active)
    <2>1. job.active \in BOOLEAN \cup {None}
      BY <1>2 DEF Job
    <2>. QED
      BY <2>1 DEF Given
  <1>10. Given(job.pw, row.pw) \in Passwords
    BY <1>2, <1>3 DEF Given, Job, Account
  <1>11. (row.must \/ job.pw # None) \in BOOLEAN
    OBVIOUS
  <1>. QED
    BY <1>2, <1>4, <1>6, <1>7, <1>8, <1>9, <1>10, <1>11 DEF PatchedAccount, Account

\* The transaction of update_user preserves it: every session of the account
\* ends, and an undisturbed administrator stays one.
LEMMA WriteAccountKeeps ==
    ASSUME IInv, NEW r \in Slots, WriteAccount(r)
    PROVE  IInv'
  <1> DEFINE job == req[r].job
             u == job.user
             account == PatchedAccount(r, NewTenants(r))
             after == RevokeOthers(u, None)
  <1>1. /\ Busy(r) /\ req[r].pc = "write" /\ job.kind = "patch" /\ To(r, "audit")
        /\ Store(u, account)
        /\ sessions' = after
        /\ UNCHANGED <<failures, audit, now, asked, delivered, overlapped>>
    BY DEF WriteAccount, Busy, Doing
  <1>2. /\ u \in Users /\ u # None
        /\ account \in Account /\ account.role \in Roles /\ account.role # None
        /\ account.role = "admin" => account.tenants = {Wildcard}
        /\ account.role = IF job.role = None THEN req[r].basis ELSE job.role
        /\ job.active # FALSE /\ users[u].active => account.active
    BY <1>1, PatchedFacts, AccountsAssumption
  <1>3. /\ sessions' \in [Tokens -> Session]
        /\ \A s \in Tokens :
               /\ sessions'[s].user = sessions[s].user
               /\ sessions[s].user = u => sessions'[s].revoked
               /\ sessions[s].user # u => sessions'[s] = sessions[s]
    BY <1>1, <1>2, RevokeFacts, AccountsAssumption
  <1> HIDE DEF account, after
  <1>4. \A q \in Slots : q # r /\ Patching(q) /\ ~overlapped => UserOf(q) # u
    BY <1>1 DEF IInv, SoloInv, Patching
  <1>5. RequestsInv' /\ users' \in [Users -> Account]
    BY <1>1, <1>2, <1>3, <1>4, StoreKeeps
  <1>6. /\ users'[u] = account
        /\ \A v \in Users : v # u => users'[v] = users[v]
    BY <1>1, <1>2, StoreFacts
  <1>7. SessionInv' /\ LiveSessionsAuthentic'
    BY <1>2, <1>3, <1>6 DEF IInv, SessionInv, LiveSessionsAuthentic, Live, TypeOK, Session
  <1>8. AdminsEverywhere' /\ AuditedBeforeDelivered'
    BY <1>1, <1>2, <1>6 DEF IInv, AdminsEverywhere, AuditedBeforeDelivered
  <1>9. AdministratorRemains'
    <2> SUFFICES ASSUME ~overlapped
                 PROVE  \E v \in Users : users'[v].role = "admin" /\ users'[v].active
      BY <1>1 DEF AdministratorRemains, ActiveAdmin
    <2>1. /\ UserOf(r) \in Users /\ req[r].role = "admin" /\ NotOwnDemotion(r)
      BY <1>1 DEF IInv, StandingInv, Standing
    <2>2. users[UserOf(r)].role = "admin" /\ users[UserOf(r)].active
      BY <1>1, <2>1 DEF IInv, SoloInv, Patching
    <2>3. CASE u # UserOf(r)
      BY <2>1, <2>2, <2>3, <1>6
    <2>4. CASE u = UserOf(r)
      <3>1. job.role \in {None, "admin"} /\ job.active # FALSE /\ req[r].basis = "admin"
        BY <1>1, <2>1, <2>4 DEF NotOwnDemotion, IInv, SoloInv, Patching
      <3>2. account.role = "admin" /\ account.active
        BY <3>1, <1>2, <2>2, <2>4
      <3>. QED
        BY <3>2, <1>2, <1>6
    <2>. QED
      BY <2>3, <2>4
  <1>10. TypeOK'
    BY <1>1, <1>3, <1>5 DEF IInv, TypeOK, RequestsInv
  <1>. QED
    BY <1>5, <1>7, <1>8, <1>9, <1>10 DEF IInv, RequestsInv

\* A step of a request preserves it.
LEMMA StepKeeps ==
    ASSUME IInv, NEW r \in Slots, Step(r)
    PROVE  IInv'
  <1>1. \/ SelectSession(r) \/ RevokeLapsed(r) \/ Touch(r) \/ SelectTenants(r)
        \/ Logout(r) \/ VerifyPassword(r) \/ ChangePassword(r)
        \/ Create(r) \/ ValidateTenants(r) \/ ReadAccount(r) \/ WriteAccount(r)
        \/ Work(r) \/ Audit(r) \/ Deliver(r)
    BY DEF Step
  <1>. QED
    BY <1>1, SelectSessionKeeps, RevokeLapsedKeeps, TouchKeeps, SelectTenantsKeeps,
       LogoutKeeps, VerifyPasswordKeeps, ChangePasswordKeeps, CreateKeeps,
       ValidateTenantsKeeps, ReadAccountKeeps, WriteAccountKeeps, WorkKeeps,
       AuditKeeps, DeliverKeeps

\* Every step of the system preserves it.
LEMMA NextIInv == IInv /\ [Next]_vars => IInv'
  <1> SUFFICES ASSUME IInv, [Next]_vars PROVE IInv'
    OBVIOUS
  <1>1. CASE UNCHANGED vars
    <2>1. Silent /\ RightsKept /\ req' = req /\ entitled' = entitled
      BY <1>1 DEF vars, Silent, RightsKept
    <2>. QED
      BY <2>1, OutsideKeeps, QuietKeeps
  <1>2. ASSUME NEW u \in Users, NEW p \in Passwords, NEW ip \in Ips,
               LoginLimited(u, ip) \/ LoginRefused(u, p, ip)
        PROVE  IInv'
    BY <1>2, LoginRejectedKeeps
  <1>3. ASSUME NEW u \in Users, NEW p \in Passwords, NEW ip \in Ips, NEW s \in Tokens,
               LoginAccepted(u, p, ip, s)
        PROVE  IInv'
    BY <1>3, LoginAcceptedKeeps
  <1>4. ASSUME NEW r \in Slots, NEW s \in Tokens, NEW job \in Jobs, Arrive(r, s, job)
        PROVE  IInv'
    BY <1>4, ArriveKeeps
  <1>5. ASSUME NEW r \in Slots, Step(r) \/ Fail(r) PROVE IInv'
    BY <1>5, StepKeeps, FailKeeps
  <1>6. CASE Tick
    BY <1>6, TickKeeps
  <1>. QED
    BY <1>1, <1>2, <1>3, <1>4, <1>5, <1>6 DEF Next

\* The invariant holds throughout.
THEOREM Invariance == Spec => []IInv
  BY InitIInv, NextIInv, PTL DEF Spec

\* Tables, requests and history keep their types (the tables of auth.py and the
\* AuthUser of a request).
THEOREM TypesHold == Spec => []TypeOK
  BY Invariance, PTL DEF IInv

\* However logins, password changes and resets interleave, a live session is of
\* an active account and knows its present password.
THEOREM ResetLocksOut == Spec => []LiveSessionsAuthentic
  BY Invariance, PTL DEF IInv

\* Administrators have the wildcard, whatever concurrent patches read and write.
THEOREM AdminsHaveWildcard == Spec => []AdminsEverywhere
  BY Invariance, PTL DEF IInv

\* Work on a tenant was allowed by rights its user had since the request came.
THEOREM WorkWasAllowed == Spec => []EntitledSinceArrival
  BY Invariance, PTL DEF IInv

\* No result leaves before its row in the audit trail.
THEOREM NothingUnaudited == Spec => []AuditedBeforeDelivered
  BY Invariance, PTL DEF IInv

\* Unless two changes of accounts overlap, an active administrator remains.
THEOREM NoLockout == Spec => []AdministratorRemains
  BY Invariance, PTL DEF IInv

\* No step brings an ended session back: the row of a cookie is written by
\* updates that leave revoked alone, and login takes a cookie nobody has had.
LEMMA StepEndsForGood ==
    ASSUME IInv, [Next]_vars
    PROVE  \A s \in Tokens : sessions[s].revoked => sessions'[s].revoked
  <1> SUFFICES ASSUME NEW s \in Tokens, sessions[s].revoked PROVE sessions'[s].revoked
    OBVIOUS
  <1>1. CASE sessions' = sessions
    BY <1>1
  <1>2. ASSUME NEW u \in Users, NEW p \in Passwords, NEW ip \in Ips, NEW x \in Tokens,
               LoginAccepted(u, p, ip, x)
        PROVE  sessions'[s].revoked
    <2>1. sessions[s].user # None
      BY DEF IInv, SessionInv
    <2>2. x # s /\ sessions'[s] = sessions[s]
      BY <1>2, <2>1 DEF LoginAccepted, IInv, TypeOK
    <2>. QED
      BY <2>2
  <1>3. ASSUME NEW r \in Slots, Touch(r) PROVE sessions'[s].revoked
    <2>1. sessions'[s].revoked = sessions[s].revoked
      BY <1>3 DEF Touch, IInv, TypeOK, Session
    <2>. QED
      BY <2>1
  <1>4. ASSUME NEW r \in Slots, Logout(r) \/ RevokeLapsed(r) PROVE sessions'[s].revoked
    BY <1>4 DEF Logout, RevokeLapsed, IInv, TypeOK, Session
  <1>5. ASSUME NEW r \in Slots, ChangePassword(r) PROVE sessions'[s].revoked
    <2> DEFINE after == RevokeOthers(UserOf(r), req[r].token)
    <2>1. UserOf(r) \in Users
      BY <1>5 DEF ChangePassword, IInv, StandingInv, Standing, Busy
    <2>2. after \in [Tokens -> Session] /\ after[s].revoked
      BY <2>1, RevokeFacts
    <2>3. sessions' = [after EXCEPT ![req[r].token].pw = req[r].job.pw]
      BY <1>5 DEF ChangePassword
    <2> HIDE DEF after
    <2>4. sessions'[s].revoked = after[s].revoked
      BY <2>2, <2>3 DEF Session
    <2>. QED
      BY <2>2, <2>4
  <1>6. ASSUME NEW r \in Slots, WriteAccount(r) PROVE sessions'[s].revoked
    <2>1. req[r].job.user \in Users
      BY <1>6, PatchedFacts DEF WriteAccount, Doing
    <2>2. sessions' = RevokeOthers(req[r].job.user, None)
      BY <1>6 DEF WriteAccount
    <2>. QED
      BY <2>1, <2>2, RevokeFacts
  <1>. QED
    BY <1>1, <1>2, <1>3, <1>4, <1>5, <1>6 DEF Next, vars, Step, LoginLimited,
       LoginRefused, Arrive, Fail, Tick, SelectSession, SelectTenants, VerifyPassword,
       Create, ValidateTenants, ReadAccount, Work, Audit, Deliver, Silent

\* A session that has ended stays ended, whatever a request in flight writes.
THEOREM EndedStaysEnded == Spec => EndedForGood
  <1>1. IInv /\ [Next]_vars =>
            [\A s \in Tokens : sessions[s].revoked => sessions'[s].revoked]_vars
    BY StepEndsForGood
  <1>. QED
    BY <1>1, Invariance, PTL DEF Spec, EndedForGood

===============================================================================
