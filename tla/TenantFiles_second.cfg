CONSTANTS
    Tenants = {acme}
    Slots = {r1}
    Commands = {c1}
    MaxKeys = 3
    MaxRows = 1
    MaxTime = 0
    MaxKills = 0
    MaxResets = 2
    None = None  Torn = Torn  Lost = Lost
SPECIFICATION Spec
INVARIANT NothingDestroyed
CHECK_DEADLOCK FALSE
