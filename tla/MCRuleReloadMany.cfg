SPECIFICATION Spec
CONSTANTS
    Domain = {d1}
    Address = {u1}
    Etag = {}
    NoEtag = NoEtag
    GroupName = {default}
    DefaultName = default
    MaxId = 1
    Main = Main
    Handler = {h1, h2}
    Updater = {b1}
    Free = Free
    ValidRegex = {d1}
    ReadFaults = TRUE
SYMMETRY Symm
INVARIANTS
    EngineMatches
    FreshWhenIdle
PROPERTIES
    ServesAnswered
