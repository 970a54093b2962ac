SPECIFICATION FairSpec
CONSTANTS
    site = site
    Site = Site
    Name = {site, Site}
    Normal <- MCNormal
    QType = {"A", "AAAA", "MX"}
    Nil = Nil
    Worker = {w1}
    Upstreams <- MCUpstreams
    blockMode = "null"
    Snapshots <- MCSnapshots
    MaxSeen = 3
INVARIANTS
    DecidedByWhatWas
    BlockedAnswerFits
    FirstUpstreamThatAnswers
    ExchangesBounded
PROPERTIES
    QueryEnds
