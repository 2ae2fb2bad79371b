\* A pool of 13 words, where the requests need blocks of two, three and five
\* words; seven pages, runs of up to three, and anything behind the table.
SPECIFICATION AllocatorsSpec
CONSTANTS
    Parts = {"heap", "pages"}
    Total = 104
    Sizes = {1, 9, 30}
    NumPages = 7
    MaxRun = 3
INVARIANTS
    BlocksSeparate
    AtMostOneGap
    StatisticsRight
    PagesAccounted
PROPERTIES
    HeldBlocksKept
    DeallocExact
    LoopsEnd
CHECK_DEADLOCK FALSE
