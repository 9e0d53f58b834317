\* Kernel calls of the policy handlers fail, at most two of them.
SPECIFICATION Spec
CONSTANTS
    GroupRequests <- FaultGroups
    PolicyRequests <- FaultPolicies
    PortTexts <- FaultTexts
    QosRequests = {}
    Rates = {}
    ConfigRequests = {}
    MaxPortPolicies = 2
    NumCpus = 2
    MaxGroupId = 1
    MaxFaults = 2
INVARIANTS
    TypeOK
    KernelHasTheRules
    LivePortsWritten
PROPERTIES
    ImplementsRuleTable
