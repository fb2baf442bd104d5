\* Lists of up to 5 items over 2 hashes: repeated hashes, odd nodes on every
\* level but the root, and all pairs of lists of different length.  Ids up to
\* 11, with records on both sides of the tenth, the first whose byte order is
\* not its order.
CONSTANTS
    c1 = c1  c2 = c2
    Hashes = {h1, h2}
    MaxLen = 5
    Categories = {c1, c2}
    BatchCategory = c1
    Limits = {1, 2}
    Earlier <- MCEarlier
    MaxSeq = 11
SPECIFICATION ClientSpec
SYMMETRY MCSymmetry
INVARIANTS
    RootBindsItems
    ListingComplete
    BatchAuditable
\* A rejected message is not sent again.
CHECK_DEADLOCK FALSE
