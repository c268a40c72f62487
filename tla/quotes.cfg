SPECIFICATION Spec
CONSTANTS
    w1 = w1
    w2 = w2
    d1 = d1
    Worlds = {w1, w2}
    DcOf <- SharedDc
    Region = region
    Tasks = {t1, t2}
    Listings <- AllListings
    Capacity = 1
    Snapshots = TRUE
CONSTRAINT OneSubject
INVARIANTS
    TypeOK
    QuotesAreBacked
    NothingCheaperThanQuoted
SYMMETRY TaskSymmetry
