\* Two commands, the first one from a dual reboot, two concurrent CWMP requests; no symmetry, for liveness.
CONSTANTS
    Commands <- TwoCommands
    Handlers = {h1, h2}
    Patchers = {}
    Dual <- FirstIsDual
    Faulty <- SecondIsFaulty
    PatchTo <- ThreeStatuses
    MaxRewinds = 0
    None = None
SPECIFICATION FairSpec
INVARIANTS
    UndisturbedResultIsOwn
    RefusedRebootHasNoRow
PROPERTIES
    UndisturbedSettlesOnce
    UndisturbedTakesOldest
    PendingIsServed
    DualRebootIsAnswered
