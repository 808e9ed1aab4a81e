CONSTANTS
    ann = ann  bob = bob  eve = eve
    acme = acme  ford = ford
    pw1 = pw1  pw2 = pw2
    Users = {ann, bob, eve}
    Tenants = {acme, ford}
    Ips = {ip1}
    Passwords = {pw1, pw2}
    s1 = s1
    Tokens = {s1, s2}
    Slots = {r1, r2}
    Jobs <- MCJobs
    InitialUsers <- MCInitialUsers
    InitialSessions <- MCInitialSessions
    Window = 1
    MaxFailures = 1
    Idle = 1
    MaxAge = 2
    TouchAfter = 1
    MaxTime = 2
    MaxRequests = 3
    Wildcard = Wildcard
    None = None
SPECIFICATION Spec
SYMMETRY Symmetry
INVARIANTS TypeOK LiveSessionsAuthentic AdminsEverywhere EntitledSinceArrival AuditedBeforeDelivered AdministratorRemains
PROPERTY EndedForGood
CHECK_DEADLOCK FALSE
