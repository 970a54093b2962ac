SPECIFICATION Spec
CONSTANTS
    Service = {"lan"}
    Original <- MCOriginal
    Contended = {}
    MaxCrashes = 0
    Budget <- MCScripts
CHECK_DEADLOCK FALSE
PROPERTIES
    UninstallReverses
