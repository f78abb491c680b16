SPECIFICATION FairSpec
CONSTANTS
    b1 = b1
    b2 = b2
    img = img
    None = None
    Torn = Torn
    Builds <- MCBuilds
    Bases <- MCBases
    Programs <- MCPrograms
    Names = {1}
    KeyPath = TRUE
INVARIANTS TypeOK OwnDevice DevicesReturned ManifestMatchesRootfs AloneIsComplete
PROPERTIES BuildsEnd
CHECK_DEADLOCK FALSE
