\* One document naming both FQDNs and their common label is enough.
CONSTANTS
    webMilano = webMilano
    webRoma = webRoma
    web01 = web01
    dcCorp = dcCorp
    dc1 = dc1
    lookalike = lookalike
    NoToken = NoToken
    NoDoc = NoDoc
    Fqdns = {webMilano, webRoma, dcCorp}
    Shorts = {web01, dc1}
    Label <- MCLabel
    AliasShorts = {web01}
    LinkShorts = {web01, dc1}
    Foreign = {lookalike}
    Masked = Masked
    MaxDocs = 2
    MaxValues = 3
SPECIFICATION Spec
INVARIANT AmbiguousNotGuessed
CHECK_DEADLOCK FALSE
