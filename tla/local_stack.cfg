SPECIFICATION Spec
CONSTANTS
    Bootstraps = {b1, b2}
    Doctors = {d1, d2}
    Events = {e1}
    MaxTries = 2
    MaxReceives = 2
    MaxResets = 1
    Environments <- SmallEnvironments
SYMMETRY Symmetry
INVARIANTS
    TypeOK
    CompletedMeansProvisioned
    BootstrapsRepeat
    EventsSurviveDoctor
    CheckFailuresExplained
CHECK_DEADLOCK FALSE
