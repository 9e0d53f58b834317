\* Two interfaces, three creations, a restart of the agent and two faults.
SPECIFICATION Spec
CONSTANTS
    Ifaces = {tap0, tap1}
    NoIface = NoIface
    MaxLinks = 3
    MaxEvents = 2
    MaxRestarts = 2
    MaxFaults = 2
INVARIANTS
    TypeOK
    
PROPERTIES
    RegistryConverges
CHECK_DEADLOCK FALSE
