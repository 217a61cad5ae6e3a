SPECIFICATION Spec
CONSTANTS
    Serials = {1, 2, 3}
    Offers <- MCOffers
    Entries = {0, 1}
    None = None
    Targets = {"gl", "fw"}
    HooksOf <- MCHooks
    Absent = {"fw"}
    SHA = TRUE
    MAX_TRIES = 2
    MAX_SERIALS = 1
    MaxRuns = 4
    MaxCrashes = 1
    MaxEdits = 1
CHECK_DEADLOCK FALSE
INVARIANTS OfferWhole PackageWhole RunsCurrent  SeedIsFloor BackupIsOriginal
