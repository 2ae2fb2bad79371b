\* Asynchronous and polled requests over a ring of 8, under the fairness of hart
\* and device: slots are reused, polls may fail.
SPECIFICATION FairSpec
CONSTANTS
    RingSize = 8
    IndexMod = 16
    Ptrs = {p1, p2}
    MaxRequests = 4
    MaxIds = 2
    Window = 2
    PollMayFail = TRUE
    NoPtr = NoPtr
CHECK_DEADLOCK FALSE
INVARIANTS
    RequestMemoryOwned
    AnswersReported
    NothingLeaks
PROPERTIES
    EveryRequestEnds
