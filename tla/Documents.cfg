SPECIFICATION Spec
CONSTANTS
    Worker = worker
    Admins = {a1}
    Fields <- MCFields
    KitBodies <- MCKitBodies
    Updates <- MCUpdates
    NoKit = NoKit
    Torn = Torn
    Never = Never
    MaxTime = 2
    MaxEdits = 2
    NameClass <- MCNameClass
    Fingerprint = {"note"}
    Jobs <- MCJobs
    Watched <- MCWatched
    SetupsFor <- MCSetupsFor
INVARIANTS
    TypeOK
    CacheCurrent
    KitsCurrent
    NoMailDelivered
    ClearForAReason
    BlockedNotDelivered
    IdentitySwept
    SafeModeDelivers
    SameFieldSameTreatment
CHECK_DEADLOCK FALSE
