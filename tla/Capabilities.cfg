SPECIFICATION Spec
CONSTANTS
    MAX_TASKS = 2
    MAX_HANDLES = 4
    MAX_ADDRESS_SPACES = 2
    Frame = {f1, f2, f3, f4, f5, f6}
    Page = {p1, p2}
    BootPage = {p1}
    BootFrame = BootFrame
    NoFrame = NoFrame
    NoPage = NoPage
SYMMETRY FrameSymmetry
INVARIANTS FramesOwnedOnce MappingsMatchHandles NoPanic
PROPERTY RefusedChangesNothing
