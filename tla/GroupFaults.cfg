\* Two groups that share CIDRs, a policy and QoS rules that refer to them, the switches; at most two kernel calls fail.
SPECIFICATION Spec
CONSTANTS
    GroupRequests <- SharedCidrs
    PolicyRequests <- GroupPolicies
    PortTexts <- OnlyAll
    QosRequests <- QosTargets
    Rates = {100}
    ConfigRequests <- Switch
    MaxPortPolicies = 0
    NumCpus = 2
    MaxGroupId = 2
    MaxFaults = 2
INVARIANTS
    GroupIdsDistinct
    SwitchesInForce
    TriesNameOwners
    QosInForce
PROPERTIES
    ReferencesKept
