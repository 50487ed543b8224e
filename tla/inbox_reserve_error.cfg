SPECIFICATION Spec
CONSTANTS
    c1 = c1
    c2 = c2
    m1 = m1
    m2 = m2
    e1 = e1
    Events = {e1}
    Messages <- TwinMessages
    Event <- TwinEvents
    Consumers <- OneConsumer
    BatchSize = 1
    MaxReceives = 2
    Scenarios <- ReserveScenario
    MaxOutages = 0
CHECK_DEADLOCK FALSE
INVARIANT EventNotLost
