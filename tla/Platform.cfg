SPECIFICATION WatchedSpec
CONSTANTS
    Worlds <- MCWorlds
CHECK_DEADLOCK FALSE
INVARIANTS TypeOK NothingWaitsInVain SuccessIsInstalled DestroyLeavesNothing ReportsReassureRightly
PROPERTIES DependantsGoFirst
