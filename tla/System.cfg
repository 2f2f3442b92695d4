SPECIFICATION SystemSpec
CONSTANTS
    MAX_TASKS = 3
    NoTask = NoTask
    MAILBOX_CAPACITY = 1
    Payload = {d}
    Firmware <- MCFirmware
    LocalApics <- MCLocalApics
    IoApics <- MCIoApics
    INITIAL_COUNT = 2
    FRAME_SIZE = 4
    USER_SPACE_END = 32
    Archives <- MCArchives
    Images <- MCImages
    MAX_HANDLES = 10
    STACK_PAGES = 1
    STACK_TOP = 28
    INITRAMFS_START = 16
    USIZE_MAX = 39
INVARIANTS
    PitRoutedByTable
    CalibrationMeasures
    ImageMatchesFile
    UserRangeExact
    EndsAsItShould
PROPERTY
    SystemSettles
