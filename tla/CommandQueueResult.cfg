\* A repeated response settles the command that was dispatched after it.
CONSTANTS
    Commands <- TwoCommands
    Handlers = {h1, h2}
    Patchers = {}
    Dual <- NoCommands
    Faulty <- SecondIsFaulty
    PatchTo <- ThreeStatuses
    MaxRewinds = 0
    None = None
SPECIFICATION Spec
SYMMETRY Symmetry
INVARIANTS
    ResultIsOwn
