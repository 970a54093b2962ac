SPECIFICATION FairSpec
CONSTANTS
    Domain = {d1}
    Address = {u1}
    Etag = {}
    NoEtag = NoEtag
    GroupName = {default, kids}
    DefaultName = default
    MaxId = 1
    Main = Main
    Handler = {h1}
    Updater = {b1}
    Free = Free
    ValidRegex = {d1}
    ReadFaults = TRUE
INVARIANTS
    TypeOK
    DBIntegrity
    DefaultGroupSilences
PROPERTIES
    Answered
