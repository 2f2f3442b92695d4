SPECIFICATION Spec
CONSTANTS
    FRAME_SIZE = 2
    ADDRESS_LIMIT = 21
    MemoryMaps <- MCMemoryMaps
    NoFrame = NoFrame
    NoAnswer = NoAnswer
INVARIANTS CountsMatchBitmap OnlyUsableMemory NoPanic
PROPERTY ImplementsFramePool
