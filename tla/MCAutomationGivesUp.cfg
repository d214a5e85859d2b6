SPECIFICATION Spec
CONSTANTS
    IdleBelow = 4
    RunningAbove = 10
    DebounceOn = 2
    DebounceOff = 3
    Unit = 1
    Readings = {20}
    Day = 4
    EventAt <- MCEventAt
    Offsets <- MCOffsets
    Days = {"plain", "odd"}
    Late = 2
    MaxEvals = 1
    Deployments = {"newer"}
    Path = "lights"
    Others = {"other"}
    Title = "Lights"
    Generated = "auto"
    MaxFaults = 0
    MaxManaged = 0
    MaxWait = 2
    Entities = {light1, light2}
    All = all
    MaxRetries = 2
    Enabled = TRUE
    Handles = {h1, h2, h3, h4}
    None = none
    NewsBound = 2
PROPERTY EveryRecoveryIsReconciled
CHECK_DEADLOCK FALSE
