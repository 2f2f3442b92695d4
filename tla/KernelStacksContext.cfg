SPECIFICATION Spec
CONSTANTS
    MAX_KERNEL_STACKS = 4
    KERNEL_STACK_PAGES = 2
    MAX_TASKS = 2
    FRAMES = 9
    NoFrame = NoFrame
INVARIANT ContextOnOwnStack
