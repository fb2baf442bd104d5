\* Two creators and two event types; ids to 3, so that a query meets more than
\* the two logs it may return.
CONSTANTS
    c1 = c1  c2 = c2  e1 = e1  e2 = e2
    Creators = {c1, c2}
    EventTypes = {e1, e2}
    DataSizes = {1, 2}
    ParamChoices <- MCParamChoices
    Geneses <- MCGeneses
    StartTimes = {0, 1}
    AuditMaxDataLowerBound = 1
    AuditMaxDataUpperBound = 2
    AuditMaxAuditsPerBlockUpper = 2
    MaxQueryResults = 2
    MaxSeq = 3
    MaxTime = 2
SPECIFICATION Spec
SYMMETRY MCSymmetry
INVARIANTS
    StoreConsistent
    RateLimitExact
    TimeRangeExact
    ListingsAgree
PROPERTIES
    LogSpec
