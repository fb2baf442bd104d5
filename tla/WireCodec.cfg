\* Every message and field of the four modules, at the boundaries of the
\* encodings.  A reader that has returned stops.
SPECIFICATION Spec
CHECK_DEADLOCK FALSE
CONSTANTS
    Table <- MCTable
    Values <- MCValues
    Richest <- MCRichest
    Unknowns <- MCUnknowns
    Foreign <- MCForeign
INVARIANTS
    SizeExact
    RoundTrip
    CutDetected
    UnknownFieldsSkipped
