SPECIFICATION FairSpec
CONSTANTS
    Service <- MCService
    Original <- MCOriginal
    Contended = {"udp", "http"}
    MaxCrashes = 1
    Budget <- MCBudget
CHECK_DEADLOCK FALSE
INVARIANTS
    OriginalsSurvive
    NobodyIsStranded
    OnceFetchedAlwaysServed
PROPERTIES
    UninstallRestores
    AnswersAgain
    IconEventuallyRight
