SPECIFICATION Spec
CONSTANTS
    Keys <- Listings
    Before <- UpdateBefore
    Inputs <- UpdateInputs
CHECK_DEADLOCK FALSE
INVARIANTS
    NoChurnInAnyOrder
