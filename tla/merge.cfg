SPECIFICATION Spec
CONSTANTS
    Keys <- Listings
    Before <- UpdateBefore
    Inputs <- MergeInputs
CHECK_DEADLOCK FALSE
INVARIANTS
    PatchesToIncoming
    NoChurn
    AgreesWithFunction
