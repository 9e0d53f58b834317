\* A group of two CIDRs, a policy over two port sets and a QoS rule; one compaction stops half way, one append fails.
SPECIFICATION Spec
CONSTANTS
    GroupRequests <- WebTwice
    PolicyRequests <- WebPolicies
    PortTexts <- Texts
    QosRequests <- Global
    Rates = {100}
    ConfigRequests = {}
    MaxPortPolicies = 2
    MaxGroupId = 2
    MaxLog = 3
    MaxInterrupted = 1
    MaxAppendFaults = 1
INVARIANTS
    ReplayTwiceKeepsContents
PROPERTIES
    ImplementsDurableStore
