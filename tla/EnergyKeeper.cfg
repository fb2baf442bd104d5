\* Two submitters, two categories, two hashes, so that the order of the items of
\* a batch shows; ids up to 4: a batch of two and a single record, two batches of
\* one, or four single records.  The one metadata size fits some of the caps.
CONSTANTS
    s1 = s1  s2 = s2  c1 = c1  c2 = c2  h1 = h1  h2 = h2
    padded = padded  custom = custom
    Submitters = {s1, s2}
    Categories = {c1, c2}
    Hashes = {h1, h2}
    MetadataSizes = {2}
    ForeignIDs <- MCForeignIDs
    ForeignNum <- MCForeignNum
    Geneses <- MCGeneses
    ParamChoices <- MCParamChoices
    NoBatch = NoBatch
    MaxBatchSizeUpperBound = 2
    MaxMetadataSizeLowerBound = 1
    MaxMetadataSizeUpperBound = 3
    MaxSubmissionsPerBlockUpper = 2
    NewCap = 3
    MaxSeq = 4
    MaxItems = 2
    MaxMsgs = 2
SPECIFICATION Spec
SYMMETRY MCSymmetry
INVARIANTS
    StoreConsistent
    IndexesConsistent
    RateLimitExact
    BatchesComplete
PROPERTIES
    AdmittedWhenCommitted
    LogSpec
