SPECIFICATION SchedFairSpec
CONSTANTS
    MAX_TASKS = 5
    NoTask = NoTask
INVARIANTS
    QueueMatchesStates
    NoPanic
PROPERTIES
    NoOvertaking
    NoStarvation
