SPECIFICATION Spec
CONSTANTS
    w1 = w1
    w2 = w2
    d1 = d1
    Worlds = {w1}
    DcOf <- OneDc
    Region = region
    Tasks = {t1}
    Listings <- BothQualities
    Capacity = 2
    Snapshots = FALSE
CONSTRAINT KeepsUp
INVARIANTS
    NothingCheaperThanQuoted
