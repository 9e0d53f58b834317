\* A group, a policy, a QoS rule and a switch through every kind of start, stop, crash and reboot.
SPECIFICATION Spec
CONSTANTS
    GroupRequests <- Web
    PolicyRequests <- WebPolicies
    PortTexts <- OpenText
    QosRequests <- Global
    Rates = {100}
    ConfigRequests <- ConntrackOff
    MaxPortPolicies = 1
    MaxGroupId = 1
    NumCpus = 2
    MaxLog = 2
    MaxItems = 2
    RequestsAfterLoss = FALSE
INVARIANTS
    TypeOK
    OnlyMishapsUnenforced
PROPERTIES
    OnlyMishapsForget
