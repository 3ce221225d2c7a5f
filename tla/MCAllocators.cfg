\* A segment that starts unaligned, offsets of four bytes as in the code, and
\* sizes and alignments below and above that; constructors and destructors
\* nested three deep; at most four blocks of the linear allocator, the last of
\* which need not fit.  A pool of five slots, with calls nested four deep in
\* destructors.
CONSTANTS
    Begin = 3
    End = 36
    Header = 4
    Sizes = {1, 6}
    Alignments = {1, 8}
    Space = 64
    Nesting = 3
    LinearBlocks = 4
    Capacity = 5
    MaxCalls = 4
    CtorReenters = FALSE
SPECIFICATION MCSpec
INVARIANTS StackWhole PoolSafe
PROPERTIES ImplementsBlocks LinearImplementsBlocks ArenaUsesStoreInOrder ArenaThrowRestores ImplementsStore
