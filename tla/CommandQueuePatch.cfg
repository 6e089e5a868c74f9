\* Two commands, two concurrent CWMP requests, a concurrent PATCH that may re-queue each command once.
CONSTANTS
    Commands <- TwoCommands
    Handlers = {h1, h2}
    Patchers = {p1}
    Dual <- NoCommands
    Faulty <- SecondIsFaulty
    PatchTo <- ThreeStatuses
    MaxRewinds = 1
    None = None
SPECIFICATION Spec
SYMMETRY Symmetry
INVARIANTS
    TypeOK
    SelectionStaysValid
    DispatchedOncePerQueueing
PROPERTIES
    OnlyStalePatchRewinds
    LifeSpec
