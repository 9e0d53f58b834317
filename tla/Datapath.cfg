\* Three rules between web and web, port texts that only deny; kernel calls succeed.
SPECIFICATION DpSpec
CONSTANTS
    GroupRequests <- WebGroup
    PolicyRequests <- FallbackPolicies
    PortTexts <- DenyTexts
    QosRequests = {}
    Rates = {}
    ConfigRequests = {}
    MaxPortPolicies = 2
    NumCpus = 2
    MaxGroupId = 1
    MaxFaults = 0
    Traffic <- MCTraffic
    Datagrams <- MCDatagrams
    NoVerdict = NoVerdict
INVARIANTS
    SettledVerdicts
    FramesGetTheirVerdict
    SettledPorts
PROPERTIES
    OldOrNew
