----------------------------- MODULE KernelHeap -----------------------------
(***************************************************************************)
(* KernelMemoryAllocator: kmalloc, kfree and coalesce on one pool.         *)
(*                                                                         *)
(* A block starts at an offset of the pool with an AllocHeader of 8 bytes; *)
(* size gives the size field of every header reached by walking the pool   *)
(* from its head, taken the offsets whose taken bit is set.  The walks of  *)
(* kmalloc and coalesce are taken one header at a time; no other call      *)
(* starts before they end, because the kernel is not preempted.            *)
(***************************************************************************)
EXTENDS Integers, FiniteSets

CONSTANTS
    Total,     \* m_total_size, in bytes (64 pages)
    Sizes      \* sizes that callers ask for

HeaderSize == 8

ASSUME HeapAssumption ==
    /\ Total \in Nat
    /\ Total > HeaderSize
    /\ Sizes \subseteq Nat \ {0}

VARIABLES
    op,        \* "idle", or the loop the allocator is in
    ptr,       \* the loop's cursor
    want,      \* kmalloc's size argument
    size,      \* AllocHeader::size, by offset of the header
    taken,     \* offsets whose header has the taken bit set
    live,      \* history: what callers hold, as address |-> size asked for
    foreign    \* history: a caller holds memory from outside the pool

vars == <<op, ptr, want, size, taken, live, foreign>>

(* MemoryManager::align_value(value, 3). *)
Align8(value) == ((value + 7) \div 8) * 8

(* Mutated form: the header is not counted. *)
NeededBare(sz) == Align8(sz)

(* kmalloc's size, header included. *)
Needed(sz) == Align8(sz) + HeaderSize

Init ==
    /\ op = "idle"
    /\ ptr = 0
    /\ want = 0
    /\ size = [b \in {0} |-> Total]
    /\ taken = {}
    /\ live = [a \in {} |-> 0]
    /\ foreign = FALSE

(* A call returns and its local variables are gone. *)
Return == op' = "idle" /\ ptr' = 0 /\ want' = 0

(* kmalloc(sz) is called with sz > 0 (with 0 it returns nullptr at once). *)
Kmalloc(sz) ==
    /\ op = "idle"
    /\ op' = "search"
    /\ ptr' = 0
    /\ want' = sz
    /\ UNCHANGED <<size, taken, live, foreign>>

(* Mutated form: the taken bit is not looked at. *)
FitsAny == size[ptr] >= Needed(want)

Fits == ptr \notin taken /\ size[ptr] >= Needed(want)
Remaining == size[ptr] - Needed(want)
Rest == ptr + Needed(want)

(* The sizes after the block at the cursor has been cut to what is needed, *)
(* if what remains is larger than a header.                                *)
Split ==
    IF Remaining > HeaderSize
    THEN [b \in DOMAIN size \cup {Rest} |->
            IF b = ptr THEN Needed(want)
            ELSE IF b = Rest THEN Remaining ELSE size[b]]
    ELSE size

(* The block at the cursor is free and large enough: it is handed out. *)
SearchTake ==
    /\ op = "search"
    /\ ptr \in DOMAIN size
    /\ Fits
    /\ size' = Split
    /\ taken' = taken \cup {ptr}
    /\ live' = [a \in DOMAIN live \cup {ptr + HeaderSize} |->
                  IF a = ptr + HeaderSize THEN want ELSE live[a]]
    /\ Return
    /\ UNCHANGED foreign

SearchSkip ==
    /\ op = "search"
    /\ ptr \in DOMAIN size
    /\ ~Fits
    /\ ptr' = ptr + size[ptr]
    /\ UNCHANGED <<op, want, size, taken, live, foreign>>

(* No block fits.  The tail that bounds kmalloc's loop is computed as      *)
(* m_head + m_total_size headers, eight times the pool's length, so the    *)
(* walk goes on through whatever follows the pool: it may come out at the  *)
(* tail and return nullptr, take a word there for a free header and hand   *)
(* it out, or meet a zero word and stand still for ever.                   *)
SearchLeavesPool ==
    /\ op = "search"
    /\ ptr = Total
    /\ \/ Return /\ UNCHANGED foreign
       \/ Return /\ foreign' = TRUE
       \/ op' = "hung" /\ UNCHANGED <<ptr, want, foreign>>
    /\ UNCHANGED <<size, taken, live>>

(* Mutated form: kfree does not coalesce. *)
KfreeOnly(a) ==
    /\ op = "idle"
    /\ taken' = taken \ {a - HeaderSize}
    /\ live' = [x \in DOMAIN live \ {a} |-> live[x]]
    /\ UNCHANGED <<op, ptr, want, size, foreign>>

(* kfree of an address kmalloc returned and nobody freed (kfree of nullptr *)
(* does nothing): clear the taken bit, then coalesce.                      *)
Kfree(a) ==
    /\ op = "idle"
    /\ taken' = taken \ {a - HeaderSize}
    /\ live' = [x \in DOMAIN live \ {a} |-> live[x]]
    /\ op' = "coalesce"
    /\ ptr' = 0
    /\ UNCHANGED <<want, size, foreign>>

(* The same for an address outside the pool: only coalesce touches the pool. *)
KfreeForeign ==
    /\ op = "idle"
    /\ foreign
    /\ foreign' \in BOOLEAN
    /\ op' = "coalesce"
    /\ ptr' = 0
    /\ UNCHANGED <<want, size, taken, live>>

Following == ptr + size[ptr]
InLoop == op = "coalesce" /\ ptr \in DOMAIN size /\ Following < Total

(* Mutated form: the swallowed block's header is lost with it. *)
CoalesceMergeShort ==
    /\ InLoop
    /\ ptr \notin taken
    /\ Following \notin taken
    /\ size' = [b \in DOMAIN size \ {Following} |->
                  IF b = ptr THEN size[ptr] + size[Following] - HeaderSize ELSE size[b]]
    /\ ptr' = ptr + size[ptr] + size[Following]
    /\ UNCHANGED <<op, want, taken, live, foreign>>

(* coalesce: a free block swallows the free block after it, once, and the  *)
(* walk goes on behind the two.                                            *)
CoalesceMerge ==
    /\ InLoop
    /\ ptr \notin taken
    /\ Following \notin taken
    /\ size' = [b \in DOMAIN size \ {Following} |->
                  IF b = ptr THEN size[ptr] + size[Following] ELSE size[b]]
    /\ ptr' = ptr + size[ptr] + size[Following]
    /\ UNCHANGED <<op, want, taken, live, foreign>>

(* Mutated form: the cursor stays on a taken block. *)
CoalesceSkipFree ==
    /\ InLoop
    /\ ptr \in taken \/ Following \in taken
    /\ ptr' = IF ptr \in taken THEN ptr ELSE Following
    /\ UNCHANGED <<op, want, size, taken, live, foreign>>

CoalesceSkip ==
    /\ InLoop
    /\ ptr \in taken \/ Following \in taken
    /\ ptr' = Following
    /\ UNCHANGED <<op, want, size, taken, live, foreign>>

(* The walk reached the tail, or the last block. *)
CoalesceEnd ==
    /\ op = "coalesce"
    /\ ~InLoop
    /\ Return
    /\ UNCHANGED <<size, taken, live, foreign>>

(* get_statistics, which every interrupt and every system call reads: the  *)
(* walk from the head to the tail adds up the sizes of the blocks it meets.*)
WalkSum(blocks) ==
    LET from[b \in 0..Total] ==
          IF b \in DOMAIN size
          THEN (IF b \in blocks THEN size[b] ELSE 0) + from[b + size[b]]
          ELSE 0
    IN  from[0]
Statistics == [free |-> WalkSum(DOMAIN size \ taken), used |-> WalkSum(taken)]

(* is_in_freed_memory: the address lies in a free block, header included. *)
IsInFreedMemory(a) == \E b \in DOMAIN size \ taken : b <= a /\ a < b + size[b]

Loop == SearchTake \/ SearchSkip \/ SearchLeavesPool
        \/ CoalesceMerge \/ CoalesceSkip \/ CoalesceEnd

Next ==
    \/ \E sz \in Sizes : Kmalloc(sz)
    \/ \E a \in DOMAIN live : Kfree(a)
    \/ KfreeForeign
    \/ Loop

Spec == Init /\ [][Next]_vars

(* The hart executes the loops it is in. *)
Fairness == WF_vars(Loop)

-----------------------------------------------------------------------------
(* Properties. *)

(* Types: headers lie in the pool, sizes and cursors are byte counts. *)
TypeOK ==
    /\ op \in {"idle", "search", "coalesce", "hung"}
    /\ ptr \in 0..Total
    /\ want \in Sizes \cup {0}
    /\ DOMAIN size \subseteq 0..(Total - 1)
    /\ size \in [DOMAIN size -> 1..Total]
    /\ taken \subseteq DOMAIN size
    /\ live \in [DOMAIN live -> Nat]
    /\ DOMAIN live \subseteq Nat
    /\ foreign \in BOOLEAN

(* The headers a walk meets tile the pool: each size leads to the next     *)
(* header or to the end of the pool, and no header lies inside a block.    *)
Tiling ==
    /\ 0 \in DOMAIN size
    /\ \A b \in DOMAIN size : b + size[b] \in DOMAIN size \cup {Total}
    /\ \A b, c \in DOMAIN size : b < c => b + size[b] <= c

(* No two callers share a byte, and no caller's bytes hold another block's *)
(* header: whatever the order of calls, splits and merges.                 *)
NoOverlap ==
    \A a, b \in DOMAIN live :
        /\ a + live[a] <= Total
        /\ a < b => a + live[a] <= b - HeaderSize

(* Headers and callers' bytes together never overlap. *)
BlocksSeparate == Tiling /\ NoOverlap

(* A block in use never moves, shrinks or grows. *)
HeldBlocksKept ==
    [][\A a \in DOMAIN live \cap DOMAIN live' :
         /\ a - HeaderSize \in DOMAIN size'
         /\ size'[a - HeaderSize] = size[a - HeaderSize]
         /\ live'[a] = live[a]]_vars

(* One pass per kfree is enough to keep fragmentation bounded: outside a   *)
(* call at most one free block is followed directly by another.            *)
AtMostOneGap ==
    op = "idle" =>
        \A b, c \in DOMAIN size \ taken :
            /\ b + size[b] \in DOMAIN size \ taken
            /\ c + size[c] \in DOMAIN size \ taken
            => b = c

(* The bytes given to callers: header and rounded size of every request. *)
Reserved ==
    UNION {(a - HeaderSize)..(a - HeaderSize + Needed(live[a]) - 1) : a \in DOMAIN live}

(* The statistics account for the whole pool in every state in which they  *)
(* are read, what is used covers the bytes that callers hold, and no held  *)
(* address is taken for freed memory.                                      *)
StatisticsRight ==
    op = "idle" =>
        /\ Statistics.free + Statistics.used = Total
        /\ Statistics.used >= Cardinality(Reserved)
        /\ \A a \in DOMAIN live : ~IsInFreedMemory(a)

(* The loops end: no header in the pool ever has size 0. *)
LoopsEnd == (op \in {"search", "coalesce"}) ~> (op \in {"idle", "hung"})

=============================================================================
