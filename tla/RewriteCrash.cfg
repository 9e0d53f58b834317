\* A crash while the attach of a tap rewrites the state file.
SPECIFICATION Spec
CONSTANTS
    GroupRequests <- Web
    PolicyRequests = {}
    PortTexts = {}
    QosRequests = {}
    Rates = {}
    ConfigRequests = {}
    MaxPortPolicies = 1
    MaxGroupId = 1
    NumCpus = 2
    MaxLog = 1
    MaxItems = 2
    RequestsAfterLoss = TRUE
PROPERTIES
    RestartKeepsState
