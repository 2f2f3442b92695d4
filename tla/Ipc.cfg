SPECIFICATION FairSpec
CONSTANTS
    MAX_TASKS = 3
    NoTask = NoTask
    MAILBOX_CAPACITY = 2
    Payload = {d}
INVARIANTS
    NoLostWakeup
    WokenFindsMessage
    HaltIsQuiescent
PROPERTIES
    IdentifiersNeverReused
    ImplementsInboxes
    ImplementsScheduler
    MessagesArrive
