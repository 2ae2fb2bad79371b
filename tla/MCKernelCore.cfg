\* Two console processes and the dummy process with two-byte read buffers, under
\* the fairness of the hardware and the time slice.
SPECIFICATION FairSpec
CONSTANTS
    NumThreads = 3
    Readers = {2, 3}
    Chars = {a, b}
    CR = CR
    NUL = NUL
    BufSize = 2
    FifoDepth = 2
    MaxTyped = 3
INVARIANTS
    WakeupsKept
    DispatchesRunnable
    ResultMatchesBuffer
PROPERTIES
    ImplementsTerminal
    EveryLineRead
    NoStarvation
