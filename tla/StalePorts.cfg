\* A port set that lets a port pass is deleted.
SPECIFICATION Spec
CONSTANTS
    GroupRequests <- FaultGroups
    PolicyRequests <- FaultPolicies
    PortTexts <- FaultTexts
    QosRequests = {}
    Rates = {}
    ConfigRequests = {}
    MaxPortPolicies = 2
    NumCpus = 2
    MaxGroupId = 1
    MaxFaults = 0
INVARIANTS
    NoStalePortEntries
