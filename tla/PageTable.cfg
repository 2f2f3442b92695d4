SPECIFICATION Spec
CONSTANTS
    Levels = 2
    Index <- MCIndex
    KernelIndex <- MCKernelIndex
    UserPage <- MCUserPage
    BootPage <- MCImagePage
    ImagePage <- MCImagePage
    StackPage <- MCStackPage
    TableFrame = {1, 2, 3, 4, 5, 6, 7}
    Data = {d1}
    Users = {u1, u2}
    Kernel = Kernel
    NoFrame = NoFrame
    NotMapped = NotMapped
INVARIANTS TablesAreForest KernelHalfShared UserBitsRight UserTlbCoherent
PROPERTY ImplementsPageMap
SYMMETRY Symmetry
