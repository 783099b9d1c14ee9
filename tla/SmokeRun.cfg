SPECIFICATION RunSpec
CONSTANTS
    Runs = {r1, r2}
    NoRun = NoRun
    Nothing = Nothing
    Node = {1, 2}
    Replica = {1, 2}
    Worlds <- MCWorlds
    Scenes <- MCScenes
CHECK_DEADLOCK FALSE
INVARIANTS RunTypeOK WrongThroughoutIsReported
PROPERTIES ResultIsOwn PassGivesBackItsVolume NextRunRepairs OverlapLeavesNothing
