\* Two categories, block times 1..5 and a drift of up to 2, so that a datapoint
\* can lie on either side of the block time and one past the window.
CONSTANTS
    o1 = o1  o2 = o2  c1 = c1  c2 = c2
    Addresses = {o1, o2}
    Categories = {c1, c2}
    Timestamps = {1, 3, 4}
    MetadataSizes = {2}
    ParamChoices <- MCParamChoices
    Geneses <- MCGeneses
    NoSubmitter = NoSubmitter
    OracleMaxMetadataLowerBound = 1
    OracleMaxMetadataUpperBound = 2
    OracleDataMaxAgeUpperBound = 2
    MaxOracles = 1
    MaxHistoryResults = 1
    MaxTime = 5
    MaxData = 2
SPECIFICATION Spec
INVARIANTS
    LatestConsistent
    FreshIsRecent
    HistoryQueriesAgree
PROPERTIES
    HistoryOnlyByOracles
    ExportStaysValid
