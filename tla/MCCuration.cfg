SPECIFICATION Spec
CONSTANTS
    Entities <- MCEntities
    DomainOf <- MCDomainOf
    AgeBounds <- MCAgeBounds
    OlderThan <- MCOlderThan
    KeepEvery <- MCKeepEvery
    Archives = {"archive"}
    Live = "live"
    Curating = "curating"
    New = "new"
    Curated = {"live", "curating"}
    States = {"on"}
    UsedReasons = {1}
    GraceHours = {0}
    PruneHours = {0}
    MaxClock = 1
    Reports = {"db_overview", "flagged_summary", "domain_stats", "age_distribution"}
    MaxReports = 1
    MaxRows = 2
    MaxRotations = 1
INVARIANTS ReportsAddUp PreviewTellsWhatFlagDoes EveryRowIsCounted
PROPERTIES FlagsStick OnlyRipeRowsVanish ImplementsRecordStore
CHECK_DEADLOCK FALSE
