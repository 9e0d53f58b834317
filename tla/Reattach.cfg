\* The interface is created again under the same name when nobody listens.
SPECIFICATION Spec
CONSTANTS
    Ifaces = {tap0}
    NoIface = NoIface
    MaxLinks = 2
    MaxEvents = 2
    MaxRestarts = 1
    MaxFaults = 0
PROPERTIES
    ProtectionConverges
CHECK_DEADLOCK FALSE
