SPECIFICATION Spec
CONSTANTS
    ads = ads
    ADS = ADS
    site = site
    local = local
    junk = junk
    A = A
    AAAA = AAAA
    Nil = Nil
    Name = {ads, ADS, site, local, junk}
    QType = {A, AAAA}
    Normal <- MCNormal
    Malformed = {junk}
    Local = {local}
    SampleSize = 3
    Line <- MCLine
    MaxLines = 5
    Tag <- MCTag
    MaxTags = 4
CHECK_DEADLOCK FALSE
INVARIANT
    PathRulesAreSkipped
