SPECIFICATION Spec
CONSTANTS
    u1 = u1
    u2 = u2
    a1 = a1
    a2 = a2
    b1 = b1
    Domain <- MCDomain
    Address <- MCAddressOne
    Corpus <- MCCorpusOne
    Default = {u1}
    Etag = {1, 2}
    NoEtag = 0
    GroupName = {default}
    DefaultName = default
    MaxId = 2
    MaxVersion = 2
    Main = Main
    Updater = {up1, up2}
INVARIANTS
    UnchangedMeansCurrent
