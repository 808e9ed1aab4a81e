\* Two documents of up to three values: three FQDNs, two short names, one lookalike.
CONSTANTS
    webMilano = webMilano
    webRoma = webRoma
    web01 = web01
    dcCorp = dcCorp
    dc1 = dc1
    lookalike = lookalike
    NoToken = NoToken
    NoDoc = NoDoc
    Fqdns = {webMilano, webRoma, dcCorp}
    Shorts = {web01, dc1}
    Label <- MCLabel
    AliasShorts = {web01}
    LinkShorts = {web01, dc1}
    Foreign = {lookalike}
    Masked = Masked
    MaxDocs = 2
    MaxValues = 3
SPECIFICATION Spec
INVARIANTS TypeOK ResolvesToHost ReanonymizedUnchanged LinkedInDocument
CHECK_DEADLOCK FALSE
