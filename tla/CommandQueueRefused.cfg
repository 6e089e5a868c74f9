\* A dual reboot is dequeued between its commit and its compensation.
CONSTANTS
    Commands <- TwoCommands
    Handlers = {h1, h2}
    Patchers = {}
    Dual <- FirstIsDual
    Faulty <- SecondIsFaulty
    PatchTo <- ThreeStatuses
    MaxRewinds = 0
    None = None
SPECIFICATION Spec
SYMMETRY Symmetry
INVARIANTS
    RefusedRebootIsNotExecuted
