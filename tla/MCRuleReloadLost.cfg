SPECIFICATION Spec
CONSTANTS
    Domain = {d1}
    Address = {u1}
    Etag = {}
    NoEtag = NoEtag
    GroupName = {default, kids}
    DefaultName = default
    MaxId = 1
    Main = Main
    Handler = {h1, h2}
    Updater = {}
    Free = Free
    ValidRegex = {d1}
    ReadFaults = FALSE
SYMMETRY Symm
INVARIANTS
    ChangesAreInForce
