CONSTANTS
    MaxIterations = 2
    MaxRepeats = 2
    MaxBlocks = 1
    MaxHostCalls = 1
    Scheduled = TRUE
    Conns = {c1, c2, c3}
    First = c1
    Notes = {note}
    Empty = empty
    Torn = torn
SPECIFICATION FairSpec
PROPERTY SessionsComeBack
