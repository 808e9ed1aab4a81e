\* A web thread and a CLI run of anonymize, one request each: the two meet
\* only in SQLite.
CONSTANTS
    fqdnA = fqdnA  fqdnB = fqdnB  bare = bare  other = other
    maskA = maskA  maskB = maskB  rootA = rootA  rootB = rootB
    NoName = NoName  NoToken = NoToken  NoConn = NoConn

    Names <- MCNames
    Tokens <- MCTokens
    Prf <- MCPrf
    Label <- MCLabel
    Root <- MCRoot
    Web = {w1}
    Cli = {c1}
    Early = {}
    MaxSalt = 2
    MaxRequests = 1
SPECIFICATION Spec
INVARIANTS TypeOK Reversible NoMergedNames SkippedSaltsTaken CacheBacked
PROPERTIES RowsArePermanent KeepsPromise
CHECK_DEADLOCK FALSE
