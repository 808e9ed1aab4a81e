CONSTANTS
    Tenants = {acme, ford}
    Slots = {r1, r2}
    Commands = {c1}
    MaxKeys = 3
    MaxRows = 1
    MaxTime = 1
    MaxKills = 2
    MaxResets = 2
    None = None  Torn = Torn  Lost = Lost
SPECIFICATION Spec
SYMMETRY Symmetry
INVARIANTS TypeOK LiveUnderMaster Recoverable PairedArchives
CHECK_DEADLOCK FALSE
