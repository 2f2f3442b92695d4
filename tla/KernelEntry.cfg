SPECIFICATION EntrySpec
CONSTANTS
    Task = {t1, t2, t3}
    Boot = Boot
    Value = {v1, v2}
INVARIANTS GsMatchesMode KernelRunsMasked
PROPERTIES ResumesWhereItLeft
SYMMETRY Symmetry
