SPECIFICATION Spec
CONSTANTS
    Mem = 3
    Sizes = {1, 2}
    Limits = {0, 1}
    Levels = {0, 1, 2}
    FreeList = 2
    MaxLeft = 1
    MaxSpent = 2
VIEW View
INVARIANT BooksKept
PROPERTIES FailsOnlyWhenFull DamageReported DoubleFreeKnown ImplementsHeap
