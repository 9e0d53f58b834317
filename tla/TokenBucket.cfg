\* Two CPUs; buckets for one of two keys at a time.
SPECIFICATION Spec
CONSTANTS
    Cpus = {cpu0, cpu1}
    Packets <- MCPackets
    QosRules <- MCQosRules
    num_cpus = 2
    Second = 2
    MaxBuckets = 1
    MaxClock = 3
    MaxPassed = 6
    MaxBacklog = 1
    NoKey = NoKey
    NoCpu = NoCpu
    NoPacket = NoPacket
SYMMETRY Symmetry
INVARIANTS
    TypeOK
    QuotaHolds
    CreditKept
    PacedWithinTwice
