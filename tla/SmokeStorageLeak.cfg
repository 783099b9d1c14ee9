SPECIFICATION Spec
CONSTANTS
    Runs = {r1, r2}
    NoRun = NoRun
    Worlds <- JustQuiet
CHECK_DEADLOCK FALSE
INVARIANT VolumeGoesWithItsClaim
