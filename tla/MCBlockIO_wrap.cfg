\* As many requests as the ring has slots.
SPECIFICATION Spec
CONSTANTS
    RingSize = 4
    IndexMod = 16
    Ptrs = {p1}
    MaxRequests = 4
    MaxIds = 0
    Window = 1
    PollMayFail = FALSE
    NoPtr = NoPtr
CHECK_DEADLOCK FALSE
SYMMETRY PtrSymmetry
INVARIANT UsedElementsOnce
