SPECIFICATION ReadySpec
CONSTANTS
    MAX_TASKS = 4
    TaskId = {t0, t1, t2}
PROPERTY ImplementsFifo
