SPECIFICATION Spec
CONSTANTS
    Entities <- MCEntities
    DomainOf <- MCDomainOf
    Spelling <- MCSpelling
    Patterns <- MCPatterns
    AgeBounds <- MCAgeBounds
    Archives = {"archive"}
    OlderThan = {}
    KeepEvery = {}
    Live = "live"
    Curating = "curating"
    New = "new"
    Curated = {}
    States = {"on"}
    UsedReasons = {}
    GraceHours = {}
    PruneHours = {}
    MaxClock = 1
    Capacity = 1
    MaxChanges = 3
    MaxErrors = 1
    MaxStarts = 1
    MaxRotations = 3
INVARIANTS OnlyAdmittedRecorded EveryChangeIsAccountedFor CaughtUp
PROPERTIES ChangesAreDrained
CHECK_DEADLOCK FALSE
