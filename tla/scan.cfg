SPECIFICATION ScanSpec
CONSTANTS
    Capacity <- MCCapacity
    Profiles <- MCProfiles
    Debounce <- MCDebounce
    Frequency <- MCFrequency
INVARIANT ScanTypeOK
PROPERTIES
    ScansAreApart
    ChangeIsScannedOrListenerGone
    QueuedIsResolved
