SPECIFICATION Spec
CONSTANTS
    Callers = {"house", "person"}
    Agents = {"house"}
    HouseAgents = {"house"}
    Bodies = {dark, lit}
    Ids = {1, 2}
    MaxPosts = 2
    MaxReplies = 1
SYMMETRY BodiesAreAlike
INVARIANTS PostedAtMostOnce RepliesAreHeard
PROPERTIES ImplementsBoard
CHECK_DEADLOCK FALSE
