SPECIFICATION Spec
CONSTANTS
    r1 = r1
    r2 = r2
    i1 = i1
    Routes = {r1, r2}
    Items = {i1}
    ItemOf <- OneItem
    SameDc = {r2}
    Offers <- MCOffers
    Settings <- MCSettings
    Hour = 2
    Longest = 2
    Delay = 1
    Slips = 1
CONSTRAINT Pertinent
INVARIANTS
    TypeOK
    
    LimitKept
    NothingToldWaits
    
PROPERTIES
    TellsNews
    DigestsApart
    
