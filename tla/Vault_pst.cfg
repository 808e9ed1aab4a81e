\* One CLI run of anonymize-pst on its own.
CONSTANTS
    fqdnA = fqdnA  fqdnB = fqdnB  bare = bare  other = other
    maskA = maskA  maskB = maskB  rootA = rootA  rootB = rootB
    NoName = NoName  NoToken = NoToken  NoConn = NoConn

    Names <- MCNames
    Tokens <- MCTokens
    Prf <- MCPrf
    Label <- MCLabel
    Root <- MCRoot
    Web = {}
    Cli = {p1}
    Early = {p1}
    MaxSalt = 2
    MaxRequests = 1
SPECIFICATION Spec
INVARIANT PstExportsReversible
CHECK_DEADLOCK FALSE
