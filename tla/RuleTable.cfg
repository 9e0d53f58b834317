\* Three rules over three distinct port sets, limits that bind and that are
\* lowered below what is in use.
SPECIFICATION Spec
CONSTANTS
    RuleKeys = {r1, r2, r3}
    PortTexts <- MCWithRefused
    Limits = {1, 2, 3}
INVARIANTS
    TypeOK
    RefCountsExact
    IndicesDistinct
    IndicesPartitioned
    RulesResolve
    LimitMeansFull
    SameFormSameParts
    DisjointTextsShareSafely
PROPERTIES
    NoIndexBeyondLimit
    OtherRulesUnmoved
