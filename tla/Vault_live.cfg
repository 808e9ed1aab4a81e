\* Two web threads under app.LOCK and a CLI run of anonymize-pst, one request
\* each, over one FQDN and its short label.
CONSTANTS
    fqdnA = fqdnA  fqdnB = fqdnB  bare = bare  other = other
    maskA = maskA  maskB = maskB  rootA = rootA  rootB = rootB
    NoName = NoName  NoToken = NoToken  NoConn = NoConn

    Names <- MCPair
    Tokens <- MCTokens
    Prf <- MCPairPrf
    Label <- MCPairLabel
    Root <- MCRoot
    Web = {w1, w2}
    Cli = {p1}
    Early = {p1}
    MaxSalt = 2
    MaxRequests = 1
SPECIFICATION FairSpec
PROPERTY EveryRequestEnds
CHECK_DEADLOCK FALSE
