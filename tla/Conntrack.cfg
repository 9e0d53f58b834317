\* Two CPUs, one connection, two slots.
SPECIFICATION Spec
CONSTANTS
    a = a
    b = b
    Cpus = {cpu0, cpu1}
    Slots = {s0, s1}
    IngressFlows <- Outbound
    EgressFlows <- Inbound
    NewTimeout = 0
    EstablishedTimeout = 1
    MaxClock = 1
    NoFlow = NoFlow
    NoSlot = NoSlot
SYMMETRY Symmetry
INVARIANTS
    TypeOK
PROPERTIES
    ImplementsAdmission
