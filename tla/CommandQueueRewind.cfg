\* A PATCH that is overtaken by the device's response rewinds a settled row.
CONSTANTS
    Commands <- TwoCommands
    Handlers = {h1, h2}
    Patchers = {p1}
    Dual <- NoCommands
    Faulty <- SecondIsFaulty
    PatchTo <- ToPending
    MaxRewinds = 1
    None = None
SPECIFICATION Spec
SYMMETRY Symmetry
PROPERTIES
    TerminalIsNeverRewound
