SPECIFICATION FairSpec
CONSTANTS
    u1 = u1
    u2 = u2
    a1 = a1
    a2 = a2
    b1 = b1
    Domain <- MCDomain
    Address <- MCAddress
    Corpus <- MCCorpus
    Default = {u1}
    Etag = {1, 2}
    NoEtag = 0
    GroupName = {default}
    DefaultName = default
    MaxId = 2
    MaxVersion = 2
    Main = Main
    Updater = {up1}
INVARIANTS
    TypeOK
    NoOrphans
    RowsAreOneVersion
    UnchangedMeansCurrent
PROPERTIES
    RefreshIsCurrent
    QuietWritesKeepRows
    RunEnds
