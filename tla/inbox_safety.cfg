SPECIFICATION Spec
CONSTANTS
    c1 = c1
    c2 = c2
    m1 = m1
    m2 = m2
    e1 = e1
    Events = {e1}
    Messages <- TwinMessages
    Event <- TwinEvents
    Consumers <- TwoConsumers
    BatchSize = 2
    MaxReceives = 2
    Scenarios <- SafetyScenarios
    MaxOutages = 1
SYMMETRY Symmetry
CHECK_DEADLOCK FALSE
INVARIANTS
    TypeOK
    AuditsPerReceipt
    LossNeedsReservationRace
    ShutdownRepeatsNothing
