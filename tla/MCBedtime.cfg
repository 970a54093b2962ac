SPECIFICATION Spec
CONSTANTS
    Caller = {c1, c2}
    TicksPerSecond = 3
    DurationModulus = 32
    Timer = {0, 1, 2, 6, 11}
    MaxTime = 9
SYMMETRY Symm
INVARIANTS
    CommandObeyed
    OffWasTrue
PROPERTIES
    SwitchSpec
