---------------------------- MODULE MemoryProofs ----------------------------
(***************************************************************************)
(* The two allocators of the kernel, each for every size.                  *)
(*                                                                         *)
(* The page allocator never gives a page to two callers and dealloc frees  *)
(* exactly its block, for every number of pages, every length of run and   *)
(* every content of the bytes behind the table.                            *)
(*                                                                         *)
(* The kernel heap never hands the same byte out twice and its statistics  *)
(* account for every byte, for every pool size and every set of request    *)
(* sizes.                                                                  *)
(***************************************************************************)
EXTENDS PageAllocator, KernelHeap, FiniteSetTheorems, SequenceFacts

-----------------------------------------------------------------------------
(* The page allocator.                                                     *)

(* The inductive invariant: the marks are what keeps a first-fit run out   *)
(* of the blocks, the disjointness is what keeps the marks of one block    *)
(* from being changed by another.                                          *)
PagesSafe ==
    /\ PageTypes
    /\ BlocksDisjoint
    /\ MarksMatchBlocks
    /\ UnheldIsFree

(* Numbers: where a block lies. *)
LEMMA BlockPlace ==
    ASSUME PageTypes, NEW k \in DOMAIN held
    PROVE  /\ k \in Table /\ k \in Nat
           /\ held[k] \in 1..MaxRun /\ held[k] \in Nat
           /\ Run(k, held[k]) \subseteq Reach
           /\ k \in Run(k, held[k])
BY PageAssumption DEF PageTypes, Table, Reach, Run

(* Every page of a block is marked. *)
LEMMA HeldNotFree ==
    ASSUME PagesSafe, NEW k \in DOMAIN held, NEW j \in Run(k, held[k])
    PROVE  page[j] # "Free"
<1>1. k \in Nat /\ held[k] \in Nat /\ j \in Int
  BY BlockPlace DEF PagesSafe, Run
<1>2. CASE j = k + held[k] - 1
  BY <1>2 DEF PagesSafe, MarksMatchBlocks
<1>3. CASE j # k + held[k] - 1
  <2>1. j \in Run(k, held[k] - 1)
    BY <1>1, <1>3 DEF Run
  <2> QED
    BY <2>1 DEF PagesSafe, MarksMatchBlocks
<1> QED
  BY <1>2, <1>3

(* dealloc's walk covers its block and stops at the block's end. *)
LEMMA WalkIsBlock ==
    ASSUME PagesSafe, NEW i \in DOMAIN held
    PROVE  Cleared(i) = Run(i, held[i])
<1>1. /\ i \in Nat /\ held[i] \in Nat \ {0}
      /\ Run(i, held[i]) \subseteq Reach
  BY BlockPlace DEF PagesSafe
<1>2. /\ page[i + held[i] - 1] = "Last"
      /\ \A j \in Run(i, held[i] - 1) : page[j] = "Taken"
  BY DEF PagesSafe, MarksMatchBlocks
<1>3. ASSUME NEW j \in Run(i, held[i]) PROVE j \in Cleared(i)
  <2>1. j \in Reach /\ j \in Int /\ j >= i /\ j <= i + held[i] - 1
    BY <1>1 DEF Run
  <2>2. \A k \in i..(j - 1) : k \in Run(i, held[i] - 1)
    BY <1>1, <2>1 DEF Run
  <2> QED
    BY <1>2, <2>1, <2>2 DEF Cleared
<1>4. ASSUME NEW j \in Cleared(i) PROVE j \in Run(i, held[i])
  <2>1. j \in Int /\ j >= i /\ \A k \in i..(j - 1) : page[k] = "Taken"
    BY <1>4, PageAssumption DEF Cleared, Reach
  <2>2. ~(j > i + held[i] - 1)
    <3> SUFFICES ASSUME j > i + held[i] - 1 PROVE FALSE
      OBVIOUS
    <3>1. i + held[i] - 1 \in i..(j - 1)
      BY <1>1, <2>1
    <3> QED
      BY <1>2, <2>1, <3>1
  <2> QED
    BY <1>1, <2>1, <2>2 DEF Run
<1> QED
  BY <1>3, <1>4

-----------------------------------------------------------------------------
(* init() leaves one block, the MemoryManager's page. *)
LEMMA PagesInitSafe == PagesInit => PagesSafe
<1> SUFFICES ASSUME PagesInit PROVE PagesSafe
  OBVIOUS
<1>1. DOMAIN held = {0} /\ held[0] = 1 /\ 0 \in Table
  BY PageAssumption DEF PagesInit, Table
<1>2. PageTypes
  BY <1>1, PageAssumption DEF PagesInit, PageTypes
<1>3. BlocksDisjoint
  BY <1>1 DEF BlocksDisjoint
<1>4. MarksMatchBlocks
  BY <1>1 DEF PagesInit, MarksMatchBlocks, Run
<1>5. UnheldIsFree
  BY <1>1 DEF PagesInit, UnheldIsFree, Run
<1> QED
  BY <1>2, <1>3, <1>4, <1>5 DEF PagesSafe

(* A run of free pages becomes a block. *)
LEMMA AllocSafe ==
    ASSUME PagesSafe, NEW n \in 1..MaxRun, Alloc(n)
    PROVE  PagesSafe'
<1>1. PICK i \in Table :
        /\ FreeRun(i, n)
        /\ page' = Mark(i, n)
        /\ held' = [x \in DOMAIN held \cup {i} |-> IF x = i THEN n ELSE held[x]]
  BY DEF Alloc, FirstFit
<1>2. /\ i \in Nat /\ n \in Nat \ {0}
      /\ Run(i, n) \subseteq Reach /\ i \in Run(i, n)
      /\ \A j \in Run(i, n) : page[j] = "Free"
  BY <1>1, PageAssumption DEF Table, Reach, Run, FreeRun
<1>3. \A k \in DOMAIN held : \A j \in Run(k, held[k]) : j \notin Run(i, n)
  BY <1>2, HeldNotFree
<1>4. i \notin DOMAIN held
  BY <1>2, <1>3, BlockPlace DEF PagesSafe
<1>5. /\ DOMAIN held' = DOMAIN held \cup {i}
      /\ held'[i] = n
      /\ \A k \in DOMAIN held : held'[k] = held[k]
  BY <1>1, <1>4
<1>6. /\ page'[i + n - 1] = "Last"
      /\ \A j \in Run(i, n - 1) : page'[j] = "Taken"
      /\ \A j \in Reach : j \notin Run(i, n) => page'[j] = page[j]
  <2>1. i + n - 1 \in Run(i, n)
    BY <1>2 DEF Run
  <2>2. \A j \in Run(i, n - 1) : j \in Run(i, n) /\ j # i + n - 1
    BY <1>2 DEF Run
  <2> QED
    BY <1>1, <1>2, <2>1, <2>2 DEF Mark
<1>7. PageTypes'
  <2>1. page' \in [Reach -> Status]
    BY <1>1 DEF PagesSafe, PageTypes, Mark, Status
  <2>2. held' \in [DOMAIN held' -> 1..MaxRun] /\ DOMAIN held' \subseteq Table
    BY <1>1 DEF PagesSafe, PageTypes
  <2> QED
    BY <2>1, <2>2 DEF PageTypes
<1>8. BlocksDisjoint'
  <2>1. ASSUME NEW k \in DOMAIN held
        PROVE  /\ i < k => i + n <= k
               /\ k < i => k + held[k] <= i
    <3>1. /\ k \in Nat /\ held[k] \in Nat
          /\ k \in Run(k, held[k]) /\ k \notin Run(i, n) /\ i \notin Run(k, held[k])
      BY <1>2, <1>3, BlockPlace DEF PagesSafe
    <3> QED
      BY <1>2, <3>1 DEF Run
  <2> SUFFICES ASSUME NEW a \in DOMAIN held', NEW b \in DOMAIN held', a < b
               PROVE  a + held'[a] <= b
    BY DEF BlocksDisjoint
  <2>2. CASE a = i /\ b # i
    BY <1>5, <2>1, <2>2
  <2>3. CASE a # i /\ b = i
    BY <1>5, <2>1, <2>3
  <2>4. CASE a # i /\ b # i
    BY <1>5, <2>4 DEF PagesSafe, BlocksDisjoint
  <2> QED
    BY <1>2, <2>2, <2>3, <2>4
<1>9. MarksMatchBlocks'
  <2> SUFFICES ASSUME NEW k \in DOMAIN held'
               PROVE  /\ page'[k + held'[k] - 1] = "Last"
                      /\ \A j \in Run(k, held'[k] - 1) : page'[j] = "Taken"
    BY DEF MarksMatchBlocks
  <2>1. CASE k = i
    BY <1>5, <1>6, <2>1
  <2>2. CASE k # i
    <3>1. /\ k \in DOMAIN held /\ held'[k] = held[k]
          /\ k \in Nat /\ held[k] \in Nat \ {0}
          /\ Run(k, held[k]) \subseteq Reach
      BY <1>5, <2>2, BlockPlace DEF PagesSafe
    <3>2. \A j \in Run(k, held[k]) : page'[j] = page[j]
      BY <1>3, <1>6, <3>1
    <3>3. /\ k + held[k] - 1 \in Run(k, held[k])
          /\ Run(k, held[k] - 1) \subseteq Run(k, held[k])
      BY <3>1 DEF Run
    <3> QED
      BY <3>1, <3>2, <3>3 DEF PagesSafe, MarksMatchBlocks
  <2> QED
    BY <2>1, <2>2
<1>10. UnheldIsFree'
  <2> SUFFICES ASSUME NEW j \in Table, page'[j] # "Free"
               PROVE  \E k \in DOMAIN held' : j \in Run(k, held'[k])
    BY DEF UnheldIsFree
  <2>1. CASE j \in Run(i, n)
    BY <1>5, <2>1
  <2>2. CASE j \notin Run(i, n)
    <3>1. j \in Reach
      BY PageAssumption DEF Table, Reach
    <3> QED
      BY <1>5, <1>6, <2>2, <3>1 DEF PagesSafe, UnheldIsFree
  <2> QED
    BY <2>1, <2>2
<1> QED
  BY <1>7, <1>8, <1>9, <1>10 DEF PagesSafe

(* dealloc gives a block back. *)
LEMMA DeallocSafe ==
    ASSUME PagesSafe, NEW i \in DOMAIN held, Dealloc(i)
    PROVE  /\ PagesSafe'
           /\ DOMAIN held \ DOMAIN held' = {i}
           /\ \A j \in Reach : page'[j] # page[j] <=> j \in Run(i, held[i])
<1>1. /\ page' = [j \in Reach |-> IF j \in Run(i, held[i]) THEN "Free" ELSE page[j]]
      /\ held' = [x \in DOMAIN held \ {i} |-> held[x]]
  BY WalkIsBlock DEF Dealloc
<1>2. /\ DOMAIN held' = DOMAIN held \ {i}
      /\ \A k \in DOMAIN held' : held'[k] = held[k]
  BY <1>1
<1>3. \A j \in Reach : page'[j] # page[j] <=> j \in Run(i, held[i])
  BY <1>1, HeldNotFree
<1>4. ASSUME NEW k \in DOMAIN held, k # i, NEW j \in Run(k, held[k])
      PROVE  j \notin Run(i, held[i])
  <2>1. /\ k \in Nat /\ held[k] \in Nat /\ i \in Nat /\ held[i] \in Nat /\ j \in Int
        /\ k < i => k + held[k] <= i
        /\ i < k => i + held[i] <= k
    BY BlockPlace DEF PagesSafe, BlocksDisjoint, Run
  <2> QED
    BY <1>4, <2>1 DEF Run
<1>5. PageTypes'
  <2>1. page' \in [Reach -> Status]
    BY <1>1 DEF PagesSafe, PageTypes, Status
  <2>2. held' \in [DOMAIN held' -> 1..MaxRun] /\ DOMAIN held' \subseteq Table
    BY <1>1 DEF PagesSafe, PageTypes
  <2> QED
    BY <2>1, <2>2 DEF PageTypes
<1>6. BlocksDisjoint'
  BY <1>2 DEF PagesSafe, BlocksDisjoint
<1>7. MarksMatchBlocks'
  <2> SUFFICES ASSUME NEW k \in DOMAIN held'
               PROVE  /\ page'[k + held'[k] - 1] = "Last"
                      /\ \A j \in Run(k, held'[k] - 1) : page'[j] = "Taken"
    BY DEF MarksMatchBlocks
  <2>1. /\ k \in DOMAIN held /\ k # i /\ held'[k] = held[k]
        /\ k \in Nat /\ held[k] \in Nat \ {0}
        /\ Run(k, held[k]) \subseteq Reach
    BY <1>2, BlockPlace DEF PagesSafe
  <2>2. \A j \in Run(k, held[k]) : page'[j] = page[j]
    BY <1>3, <1>4, <2>1
  <2>3. /\ k + held[k] - 1 \in Run(k, held[k])
        /\ Run(k, held[k] - 1) \subseteq Run(k, held[k])
    BY <2>1 DEF Run
  <2> QED
    BY <2>1, <2>2, <2>3 DEF PagesSafe, MarksMatchBlocks
<1>8. UnheldIsFree'
  <2> SUFFICES ASSUME NEW j \in Table, page'[j] # "Free"
               PROVE  \E k \in DOMAIN held' : j \in Run(k, held'[k])
    BY DEF UnheldIsFree
  <2>1. j \in Reach
    BY PageAssumption DEF Table, Reach
  <2>2. j \notin Run(i, held[i]) /\ page[j] # "Free"
    BY <1>1, <2>1
  <2> QED
    BY <1>2, <2>2 DEF PagesSafe, UnheldIsFree
<1> QED
  BY <1>2, <1>3, <1>5, <1>6, <1>7, <1>8 DEF PagesSafe

-----------------------------------------------------------------------------
(* The allocator keeps its inductive invariant. *)
THEOREM PagesAlwaysSafe == PagesSpec => []PagesSafe
<1>1. PagesSafe /\ [PagesNext]_pageVars => PagesSafe'
  <2> SUFFICES ASSUME PagesSafe, [PagesNext]_pageVars PROVE PagesSafe'
    OBVIOUS
  <2>1. ASSUME NEW n \in 1..MaxRun, Alloc(n) PROVE PagesSafe'
    BY <2>1, AllocSafe
  <2>2. ASSUME NEW i \in DOMAIN held, Dealloc(i) PROVE PagesSafe'
    BY <2>2, DeallocSafe
  <2>3. CASE UNCHANGED pageVars
    BY <2>3 DEF pageVars, PagesSafe, PageTypes, BlocksDisjoint, MarksMatchBlocks, UnheldIsFree
  <2> QED
    BY <2>1, <2>2, <2>3 DEF PagesNext, AllocFails
<1> QED
  BY <1>1, PagesInitSafe, PTL DEF PagesSpec

(* Every page is free or in one block, and the marks describe the blocks. *)
THEOREM PagesDisjoint == PagesSpec => []PagesAccounted
<1>1. PagesSafe => PagesAccounted
  BY DEF PagesSafe, PagesAccounted
<1> QED
  BY <1>1, PagesAlwaysSafe, PTL

(* dealloc, which is not told the length, frees its block and no more. *)
THEOREM DeallocFreesBlock == PagesSpec => DeallocExact
<1> DEFINE Exact == \A i \in DOMAIN held \ DOMAIN held' :
                      \A j \in Reach : page'[j] # page[j] <=> j \in Run(i, held[i])
<1>1. PagesSafe /\ [PagesNext]_pageVars => [Exact]_pageVars
  <2> SUFFICES ASSUME PagesSafe, [PagesNext]_pageVars PROVE Exact \/ UNCHANGED pageVars
    OBVIOUS
  <2>1. ASSUME NEW n \in 1..MaxRun, Alloc(n) PROVE Exact
    BY <2>1 DEF Alloc
  <2>2. ASSUME NEW i \in DOMAIN held, Dealloc(i) PROVE Exact
    BY <2>2, DeallocSafe
  <2> QED
    BY <2>1, <2>2 DEF PagesNext, AllocFails
<1> QED
  BY <1>1, PagesAlwaysSafe, PTL DEF PagesSpec, DeallocExact

-----------------------------------------------------------------------------
(* The kernel heap.                                                        *)

(* Every walk stands on a header or at the end of the pool. *)
CursorOnHeader ==
    op \in {"search", "coalesce"} => ptr \in DOMAIN size \cup {Total}

(* kmalloc searches for a size that a caller asked for. *)
Searching == op = "search" => want \in Sizes

(* What callers hold is exactly what is marked taken, and each block is    *)
(* large enough for what was asked.                                        *)
HeldIsTaken ==
    /\ \A a \in DOMAIN live :
         /\ a - HeaderSize \in taken
         /\ live[a] + HeaderSize <= size[a - HeaderSize]
    /\ \A b \in taken : b + HeaderSize \in DOMAIN live

(* The inductive invariant: the tiling is what makes the block found by a  *)
(* walk disjoint from all others, the cursor's place is what makes the     *)
(* walk meet headers only.                                                 *)
Safe == TypeOK /\ Tiling /\ CursorOnHeader /\ Searching /\ HeldIsTaken

-----------------------------------------------------------------------------
(* Rounding up loses nothing: the block has room for header and request. *)
LEMMA NeededCovers ==
    ASSUME NEW sz \in Nat \ {0}
    PROVE  /\ Needed(sz) \in Nat
           /\ Needed(sz) >= sz + HeaderSize
           /\ Needed(sz) > HeaderSize
BY Z3 DEF Needed, Align8, HeaderSize

(* In a tiled pool nothing overlaps. *)
LEMMA TilingSeparates ==
    ASSUME Safe
    PROVE  NoOverlap
<1> SUFFICES ASSUME NEW a \in DOMAIN live, NEW b \in DOMAIN live
             PROVE  /\ a + live[a] <= Total
                    /\ a < b => a + live[a] <= b - HeaderSize
  BY DEF NoOverlap
<1> DEFINE x == a - HeaderSize
           y == b - HeaderSize
<1>1. /\ a \in Nat /\ b \in Nat /\ live[a] \in Nat
      /\ x \in DOMAIN size /\ y \in DOMAIN size
      /\ live[a] + HeaderSize <= size[x]
  BY DEF Safe, TypeOK, HeldIsTaken
<1>2. /\ x \in 0..(Total - 1) /\ y \in 0..(Total - 1)
      /\ size[x] \in 1..Total
      /\ x + size[x] \in DOMAIN size \cup {Total}
      /\ x < y => x + size[x] <= y
  BY <1>1 DEF Safe, TypeOK, Tiling
<1>3. x + size[x] <= Total
  BY <1>2, HeapAssumption DEF Safe, TypeOK
<1> QED
  BY <1>1, <1>2, <1>3, HeapAssumption DEF HeaderSize

-----------------------------------------------------------------------------
(* The constructor makes one free block of the whole pool. *)
LEMMA InitSafe == Init => Safe
<1> SUFFICES ASSUME Init PROVE Safe
  OBVIOUS
<1>1. DOMAIN size = {0} /\ size[0] = Total /\ DOMAIN live = {}
  BY DEF Init
<1>2. TypeOK
  BY <1>1, HeapAssumption DEF Init, TypeOK, HeaderSize
<1>3. Tiling
  BY <1>1, HeapAssumption DEF Tiling
<1> QED
  BY <1>1, <1>2, <1>3 DEF Init, Safe, CursorOnHeader, Searching, HeldIsTaken

(* Handing out the block at the cursor, cut to size. *)
LEMMA TakeSafe ==
    ASSUME Safe, SearchTake
    PROVE  Safe' /\ \A a \in DOMAIN live :
                      /\ a - HeaderSize \in DOMAIN size'
                      /\ size'[a - HeaderSize] = size[a - HeaderSize]
                      /\ live'[a] = live[a]
<1> DEFINE need == Needed(want)
           rem  == size[ptr] - need
           addr == ptr + HeaderSize
<1>1. /\ op = "search"
      /\ ptr \in DOMAIN size
      /\ ptr \notin taken
      /\ size[ptr] >= need
      /\ size' = Split
      /\ taken' = taken \cup {ptr}
      /\ live' = [a \in DOMAIN live \cup {addr} |-> IF a = addr THEN want ELSE live[a]]
      /\ op' = "idle" /\ ptr' = 0 /\ want' = 0
      /\ foreign' = foreign
  BY DEF SearchTake, Fits, Return
<1>2. /\ want \in Nat \ {0}
      /\ need \in Nat /\ need >= want + HeaderSize /\ need > HeaderSize
  BY <1>1, NeededCovers, HeapAssumption DEF Safe, Searching
<1>3. /\ ptr \in 0..(Total - 1)
      /\ size[ptr] \in 1..Total
      /\ Total \in Nat
      /\ ptr + size[ptr] \in DOMAIN size \cup {Total}
  BY <1>1, HeapAssumption DEF Safe, TypeOK, Tiling
<1>4. addr \notin DOMAIN live
  <2> SUFFICES ASSUME addr \in DOMAIN live PROVE FALSE
    OBVIOUS
  <2>1. addr - HeaderSize \in taken
    BY DEF Safe, HeldIsTaken
  <2>2. addr - HeaderSize = ptr
    BY <1>3 DEF HeaderSize
  <2> QED
    BY <1>1, <2>1, <2>2
<1> HIDE DEF need
<1>5. CASE rem > HeaderSize
  <2> DEFINE rest == ptr + need
  <2>1. /\ DOMAIN size' = DOMAIN size \cup {rest}
        /\ \A b \in DOMAIN size \cup {rest} :
             size'[b] = IF b = ptr THEN need ELSE IF b = rest THEN rem ELSE size[b]
    BY <1>1, <1>5 DEF Split, Remaining, Rest, need
  <2>2. /\ rest \in 0..(Total - 1)
        /\ ptr < rest /\ rest < ptr + size[ptr]
        /\ rem \in 1..Total
        /\ need \in 1..Total
        /\ rest + rem = ptr + size[ptr]
    <3>1. ptr + size[ptr] <= Total
      BY <1>3 DEF Safe, TypeOK
    <3> QED
      BY <3>1, <1>2, <1>3, <1>5 DEF HeaderSize
  <2> HIDE DEF rest, rem
  <2>3. rest \notin DOMAIN size
    BY <1>1, <1>3, <2>2 DEF Safe, Tiling
  <2>4. \A b \in DOMAIN size : b # ptr => size'[b] = size[b]
    BY <2>1, <2>3
  <2>5. size'[ptr] = need /\ size'[rest] = rem
    BY <1>1, <2>1, <2>3
  <2>6. TypeOK'
    <3>1. DOMAIN size' \subseteq 0..(Total - 1)
      BY <2>1, <2>2 DEF Safe, TypeOK
    <3>2. size' \in [DOMAIN size' -> 1..Total]
      <4>1. \A b \in DOMAIN size' : size'[b] \in 1..Total
        BY <1>3, <2>1, <2>2 DEF Safe, TypeOK
      <4>2. size' = [b \in DOMAIN size' |-> size'[b]]
        BY <1>1, <1>5 DEF Split, Remaining, rem, need
      <4> QED
        BY <4>1, <4>2
    <3>3. taken' \subseteq DOMAIN size'
      BY <1>1, <2>1 DEF Safe, TypeOK
    <3>4. live' \in [DOMAIN live' -> Nat] /\ DOMAIN live' \subseteq Nat
      BY <1>1, <1>2, <1>3 DEF Safe, TypeOK, HeaderSize
    <3> QED
      BY <1>1, <1>3, <3>1, <3>2, <3>3, <3>4, HeapAssumption DEF Safe, TypeOK
  <2>7. Tiling'
    <3>1. 0 \in DOMAIN size'
      BY <2>1 DEF Safe, Tiling
    <3>2. ASSUME NEW b \in DOMAIN size'
          PROVE  b + size'[b] \in DOMAIN size' \cup {Total}
      <4>1. CASE b = ptr
        BY <2>1, <2>5, <4>1 DEF rest
      <4>2. CASE b = rest
        BY <1>3, <2>1, <2>2, <2>5, <4>2
      <4>3. CASE b # ptr /\ b # rest
        BY <2>1, <2>4, <4>3 DEF Safe, Tiling
      <4> QED
        BY <4>1, <4>2, <4>3
    <3>3. ASSUME NEW b \in DOMAIN size', NEW c \in DOMAIN size', b < c
          PROVE  b + size'[b] <= c
      <4> USE DEF Safe, TypeOK
      <4>1. CASE b = ptr /\ c # rest
        <5>1. ptr + size[ptr] <= c
          BY <1>1, <2>1, <3>3, <4>1 DEF Tiling
        <5>2. c \in Int
          BY <2>1, <4>1
        <5> QED
          BY <5>1, <5>2, <1>3, <2>2, <2>5, <4>1 DEF rest
      <4>2. CASE b = ptr /\ c = rest
        BY <1>2, <1>3, <2>5, <4>2 DEF rest
      <4>3. CASE b = rest /\ c # rest
        <5>1. c \in DOMAIN size /\ c \in Int
          BY <2>1, <4>3
        <5>2. ptr < c
          BY <1>3, <2>2, <3>3, <4>3, <5>1
        <5>3. ptr + size[ptr] <= c
          BY <1>1, <5>1, <5>2 DEF Tiling
        <5> QED
          BY <2>2, <2>5, <4>3, <5>3
      <4>4. CASE b # ptr /\ b # rest /\ c # rest
        BY <2>1, <2>4, <3>3, <4>4 DEF Tiling
      <4>5. CASE b # ptr /\ b # rest /\ c = rest
        <5>1. b \in DOMAIN size /\ b \in Int /\ size[b] \in Int
          BY <2>1, <4>5
        <5>2. b < ptr
          <6>1. b < ptr \/ ptr < b
            BY <1>3, <4>5, <5>1
          <6>2. ptr < b => ptr + size[ptr] <= b
            BY <1>1, <5>1 DEF Tiling
          <6> QED
            BY <1>3, <2>2, <3>3, <4>5, <5>1, <6>1, <6>2
        <5>3. b + size[b] <= ptr
          BY <1>1, <5>1, <5>2 DEF Tiling
        <5> QED
          BY <1>3, <2>2, <2>4, <4>5, <5>1, <5>3
      <4> QED
        BY <3>3, <4>1, <4>2, <4>3, <4>4, <4>5, <2>2
    <3> QED
      BY <3>1, <3>2, <3>3 DEF Tiling
  <2>8. \A a \in DOMAIN live :
           /\ a - HeaderSize \in DOMAIN size'
           /\ size'[a - HeaderSize] = size[a - HeaderSize]
           /\ live'[a] = live[a]
    BY <1>1, <1>4, <2>1, <2>4 DEF Safe, TypeOK, HeldIsTaken
  <2>9. size'[ptr] >= want + HeaderSize
    BY <1>2, <2>5
  <2> QED
    <3>1. addr - HeaderSize = ptr
      BY <1>3 DEF HeaderSize
    <3>2. HeldIsTaken'
      BY <1>1, <1>4, <2>8, <2>9, <3>1, <1>2, <1>3 DEF Safe, TypeOK, HeldIsTaken, HeaderSize
    <3> QED
      BY <1>1, <2>6, <2>7, <2>8, <3>2 DEF Safe, CursorOnHeader, Searching
<1>6. CASE ~(rem > HeaderSize)
  <2>1. size' = size
    BY <1>1, <1>6 DEF Split, Remaining, need
  <2>2. TypeOK'
    <3>1. live' \in [DOMAIN live' -> Nat] /\ DOMAIN live' \subseteq Nat
      BY <1>1, <1>2, <1>3 DEF Safe, TypeOK, HeaderSize
    <3> QED
      BY <1>1, <1>3, <2>1, <3>1 DEF Safe, TypeOK
  <2>3. Tiling'
    BY <2>1 DEF Safe, Tiling
  <2>4. HeldIsTaken'
    <3>1. addr - HeaderSize = ptr
      BY <1>3 DEF HeaderSize
    <3> QED
      BY <1>1, <1>2, <1>3, <1>4, <2>1, <3>1 DEF Safe, TypeOK, HeldIsTaken, HeaderSize
  <2>5. \A a \in DOMAIN live :
           /\ a - HeaderSize \in DOMAIN size'
           /\ size'[a - HeaderSize] = size[a - HeaderSize]
           /\ live'[a] = live[a]
    BY <1>1, <1>4, <2>1 DEF Safe, TypeOK, HeldIsTaken
  <2> QED
    BY <1>1, <2>2, <2>3, <2>4, <2>5 DEF Safe, CursorOnHeader, Searching
<1> QED
  BY <1>5, <1>6

(* The held blocks, as a step must leave them. *)
Kept ==
    \A a \in DOMAIN live \cap DOMAIN live' :
        /\ a - HeaderSize \in DOMAIN size'
        /\ size'[a - HeaderSize] = size[a - HeaderSize]
        /\ live'[a] = live[a]

(* The address a caller holds is that of a block, wherever it came from. *)
LEMMA HeldBlock ==
    ASSUME Safe, NEW a \in DOMAIN live
    PROVE  a \in Nat /\ a - HeaderSize \in taken /\ a - HeaderSize \in DOMAIN size
BY DEF Safe, TypeOK, HeldIsTaken

(* A step that changes neither headers nor what callers hold. *)
LEMMA WalkSafe ==
    ASSUME Safe, UNCHANGED <<size, taken, live>>,
           op' \in {"idle", "search", "coalesce", "hung"},
           ptr' \in DOMAIN size \cup {0, Total},
           want' \in Sizes \cup {0},
           op' = "search" => want' \in Sizes,
           foreign' \in BOOLEAN
    PROVE  Safe' /\ Kept
<1>1. 0 \in DOMAIN size /\ ptr' \in 0..Total
  BY HeapAssumption DEF Safe, TypeOK, Tiling
<1>2. TypeOK'
  BY <1>1 DEF Safe, TypeOK
<1>3. Tiling' /\ HeldIsTaken'
  BY DEF Safe, Tiling, HeldIsTaken
<1>4. CursorOnHeader' /\ Searching'
  BY <1>1 DEF CursorOnHeader, Searching
<1>5. Kept
  BY HeldBlock DEF Kept
<1> QED
  BY <1>2, <1>3, <1>4, <1>5 DEF Safe

(* kfree of a held address. *)
LEMMA FreeSafe ==
    ASSUME Safe, NEW a \in DOMAIN live, Kfree(a)
    PROVE  Safe' /\ Kept
<1>1. /\ taken' = taken \ {a - HeaderSize}
      /\ live' = [x \in DOMAIN live \ {a} |-> live[x]]
      /\ op' = "coalesce" /\ ptr' = 0
      /\ want' = want /\ size' = size /\ foreign' = foreign
  BY DEF Kfree
<1>2. 0 \in DOMAIN size /\ Total \in Nat
  BY HeapAssumption DEF Safe, Tiling
<1>3. TypeOK'
  <2>1. live' \in [DOMAIN live' -> Nat] /\ DOMAIN live' \subseteq Nat
    BY <1>1 DEF Safe, TypeOK
  <2> QED
    BY <1>1, <1>2, <2>1 DEF Safe, TypeOK
<1>4. Tiling'
  BY <1>1 DEF Safe, Tiling
<1>5. HeldIsTaken'
  <2>1. ASSUME NEW x \in DOMAIN live'
        PROVE  /\ x - HeaderSize \in taken'
               /\ live'[x] + HeaderSize <= size'[x - HeaderSize]
    <3>1. x \in DOMAIN live /\ x # a /\ live'[x] = live[x] /\ a \in Nat /\ x \in Nat
      BY <1>1, HeldBlock
    <3>2. x - HeaderSize # a - HeaderSize
      BY <3>1 DEF HeaderSize
    <3> QED
      BY <1>1, <3>1, <3>2 DEF Safe, HeldIsTaken
  <2>2. ASSUME NEW b \in taken' PROVE b + HeaderSize \in DOMAIN live'
    <3>1. b \in taken /\ b # a - HeaderSize /\ b \in Int /\ a \in Nat
      BY <1>1, HeldBlock DEF Safe, TypeOK
    <3>2. b + HeaderSize # a
      BY <3>1 DEF HeaderSize
    <3> QED
      BY <1>1, <3>1, <3>2 DEF Safe, HeldIsTaken
  <2> QED
    BY <2>1, <2>2 DEF HeldIsTaken
<1>6. Kept
  BY <1>1, HeldBlock DEF Kept
<1> QED
  BY <1>1, <1>2, <1>3, <1>4, <1>5, <1>6 DEF Safe, CursorOnHeader, Searching

(* coalesce joins two free neighbours. *)
LEMMA MergeSafe ==
    ASSUME Safe, CoalesceMerge
    PROVE  Safe' /\ Kept
<1> DEFINE next == ptr + size[ptr]
<1>1. /\ op = "coalesce" /\ ptr \in DOMAIN size /\ next < Total
      /\ ptr \notin taken /\ next \notin taken
      /\ size' = [b \in DOMAIN size \ {next} |->
                    IF b = ptr THEN size[ptr] + size[next] ELSE size[b]]
      /\ ptr' = next + size[next]
      /\ op' = op /\ want' = want /\ taken' = taken /\ live' = live
      /\ foreign' = foreign
  BY DEF CoalesceMerge, InLoop, Following
<1>2. /\ ptr \in 0..(Total - 1) /\ size[ptr] \in 1..Total /\ Total \in Nat
      /\ next \in DOMAIN size \cup {Total}
  BY <1>1, HeapAssumption DEF Safe, TypeOK, Tiling
<1>3. next \in DOMAIN size /\ next # ptr /\ next \in 0..(Total - 1)
  BY <1>1, <1>2 DEF Safe, TypeOK
<1>4. /\ size[next] \in 1..Total
      /\ next + size[next] \in DOMAIN size \cup {Total}
  BY <1>3 DEF Safe, TypeOK, Tiling
<1>5. next + size[next] <= Total
  BY <1>2, <1>4 DEF Safe, TypeOK
<1>6. /\ DOMAIN size' = DOMAIN size \ {next}
      /\ size'[ptr] = size[ptr] + size[next]
      /\ \A b \in DOMAIN size' : b # ptr => size'[b] = size[b]
  BY <1>1, <1>3
<1>7. size[ptr] + size[next] \in 1..Total
  BY <1>2, <1>3, <1>4, <1>5
<1>8. ptr + size'[ptr] = next + size[next] /\ next + size[next] # next
  BY <1>2, <1>3, <1>4, <1>6
<1>9. TypeOK'
  <2>1. size' \in [DOMAIN size' -> 1..Total]
    BY <1>1, <1>7 DEF Safe, TypeOK
  <2>2. taken' \subseteq DOMAIN size'
    BY <1>1, <1>6 DEF Safe, TypeOK
  <2>3. ptr' \in 0..Total
    BY <1>1, <1>3, <1>4, <1>5
  <2> QED
    BY <1>1, <1>6, <2>1, <2>2, <2>3 DEF Safe, TypeOK
<1> HIDE DEF next
<1>10. Tiling'
  <2>1. 0 \in DOMAIN size'
    BY <1>2, <1>3, <1>6 DEF Safe, Tiling, next
  <2>2. ASSUME NEW b \in DOMAIN size'
        PROVE  b + size'[b] \in DOMAIN size' \cup {Total}
    <3>1. CASE b = ptr
      BY <1>4, <1>6, <1>8, <3>1
    <3>2. CASE b # ptr
      <4>1. /\ b \in DOMAIN size /\ b # next /\ size'[b] = size[b]
            /\ b \in Int /\ size[b] \in 1..Total
        BY <1>6, <3>2 DEF Safe, TypeOK
      <4>2. b + size[b] # next
        <5>1. b < ptr => b + size[b] <= ptr
          BY <1>1, <4>1 DEF Safe, Tiling
        <5>2. ptr < b => next < b
          BY <1>1, <1>2, <1>3, <4>1 DEF Safe, Tiling, next
        <5> QED
          BY <1>2, <1>3, <3>2, <4>1, <5>1, <5>2 DEF next
      <4> QED
        BY <1>6, <4>1, <4>2 DEF Safe, Tiling
    <3> QED
      BY <3>1, <3>2
  <2>3. ASSUME NEW b \in DOMAIN size', NEW c \in DOMAIN size', b < c
        PROVE  b + size'[b] <= c
    <3>1. /\ b \in DOMAIN size /\ c \in DOMAIN size
          /\ c # next /\ c \in Int /\ b \in Int
      BY <1>6 DEF Safe, TypeOK
    <3>2. CASE b = ptr
      <4>1. next < c
        BY <1>1, <1>3, <2>3, <3>1, <3>2 DEF Safe, Tiling, next
      <4>2. next + size[next] <= c
        BY <1>3, <3>1, <4>1 DEF Safe, Tiling
      <4> QED
        BY <1>8, <3>2, <4>2
    <3>3. CASE b # ptr
      BY <1>6, <2>3, <3>1, <3>3 DEF Safe, Tiling
    <3> QED
      BY <3>2, <3>3
  <2> QED
    BY <2>1, <2>2, <2>3 DEF Tiling
<1>11. CursorOnHeader' /\ Searching'
  BY <1>1, <1>4, <1>6, <1>8 DEF CursorOnHeader, Searching
<1>12. \A a \in DOMAIN live :
          /\ a - HeaderSize \in DOMAIN size'
          /\ size'[a - HeaderSize] = size[a - HeaderSize]
  BY <1>1, <1>6, HeldBlock
<1>13. HeldIsTaken'
  BY <1>1, <1>12 DEF Safe, HeldIsTaken
<1>14. Kept
  BY <1>1, <1>12 DEF Kept
<1> QED
  BY <1>9, <1>10, <1>11, <1>13, <1>14 DEF Safe

(* Every step keeps the invariant and the blocks in use. *)
LEMMA NextSafe == Safe /\ [Next]_vars => Safe' /\ (Kept \/ UNCHANGED vars)
<1> SUFFICES ASSUME Safe, [Next]_vars PROVE Safe' /\ (Kept \/ UNCHANGED vars)
  OBVIOUS
<1> USE HeapAssumption
<1>1. ASSUME NEW sz \in Sizes, Kmalloc(sz) PROVE Safe' /\ Kept
  BY <1>1, WalkSafe DEF Kmalloc, Safe, TypeOK
<1>2. ASSUME NEW a \in DOMAIN live, Kfree(a) PROVE Safe' /\ Kept
  BY <1>2, FreeSafe
<1>3. CASE KfreeForeign
  BY <1>3, WalkSafe DEF KfreeForeign, Safe, TypeOK
<1>4. CASE SearchTake
  BY <1>4, TakeSafe DEF Kept
<1>5. CASE SearchSkip
  <2>1. ptr' \in DOMAIN size \cup {Total}
    BY <1>5 DEF SearchSkip, Safe, Tiling
  <2> QED
    BY <1>5, <2>1, WalkSafe DEF SearchSkip, Safe, TypeOK, Searching
<1>6. CASE SearchLeavesPool
  BY <1>6, WalkSafe DEF SearchLeavesPool, Return, Safe, TypeOK
<1>7. CASE CoalesceMerge
  BY <1>7, MergeSafe
<1>8. CASE CoalesceSkip
  <2>1. ptr' \in DOMAIN size \cup {Total}
    BY <1>8 DEF CoalesceSkip, InLoop, Following, Safe, Tiling
  <2> QED
    BY <1>8, <2>1, WalkSafe DEF CoalesceSkip, InLoop, Safe, TypeOK
<1>9. CASE CoalesceEnd
  BY <1>9, WalkSafe DEF CoalesceEnd, Return, Safe, TypeOK
<1>10. CASE UNCHANGED vars
  BY <1>10 DEF vars, Safe, TypeOK, Tiling, CursorOnHeader, Searching, HeldIsTaken
<1> QED
  BY <1>1, <1>2, <1>3, <1>4, <1>5, <1>6, <1>7, <1>8, <1>9, <1>10 DEF Next, Loop

-----------------------------------------------------------------------------
(* The allocator keeps its inductive invariant. *)
THEOREM AlwaysSafe == Spec => []Safe
<1>1. Safe /\ [Next]_vars => Safe'
  BY NextSafe
<1> QED
  BY <1>1, InitSafe, PTL DEF Spec

(* The headers tile the pool after every kmalloc, kfree and merge. *)
THEOREM HeapTiled == Spec => [](TypeOK /\ Tiling)
<1>1. Safe => TypeOK /\ Tiling
  BY DEF Safe
<1> QED
  BY <1>1, AlwaysSafe, PTL

(* No byte of the pool is ever given to two callers, nor to a caller and a *)
(* header: headers tile the pool.                                          *)
THEOREM HeapNoOverlap == Spec => []BlocksSeparate
<1>1. Safe => BlocksSeparate
  BY TilingSeparates DEF Safe, BlocksSeparate
<1> QED
  BY <1>1, AlwaysSafe, PTL

(* A block in use is left alone until it is freed. *)
THEOREM HeapKeepsHeld == Spec => HeldBlocksKept
<1>1. Safe /\ [Next]_vars => [Kept]_vars
  BY NextSafe
<1>2. [Kept]_vars => [\A a \in DOMAIN live \cap DOMAIN live' :
                        /\ a - HeaderSize \in DOMAIN size'
                        /\ size'[a - HeaderSize] = size[a - HeaderSize]
                        /\ live'[a] = live[a]]_vars
  BY DEF Kept
<1> QED
  BY <1>1, <1>2, AlwaysSafe, PTL DEF Spec, HeldBlocksKept

-----------------------------------------------------------------------------
(* What callers hold has the size that one of them asked for. *)
HeldSizes == \A a \in DOMAIN live : live[a] \in Sizes

LEMMA SizesHeld == Spec => []HeldSizes
<1>1. Init => HeldSizes
  BY DEF Init, HeldSizes
<1>2. Safe /\ HeldSizes /\ [Next]_vars => HeldSizes'
  <2> SUFFICES ASSUME Safe, HeldSizes, [Next]_vars PROVE HeldSizes'
    OBVIOUS
  <2>1. CASE SearchTake
    <3>1. want \in Sizes
      BY <2>1 DEF SearchTake, Safe, Searching
    <3> QED
      BY <2>1, <3>1 DEF SearchTake, HeldSizes
  <2>2. ASSUME NEW a \in DOMAIN live, Kfree(a) PROVE HeldSizes'
    BY <2>2 DEF Kfree, HeldSizes
  <2>3. CASE UNCHANGED live
    BY <2>3 DEF HeldSizes
  <2> QED
    BY <2>1, <2>2, <2>3 DEF Next, Loop, Kmalloc, KfreeForeign, SearchSkip,
       SearchLeavesPool, CoalesceMerge, CoalesceSkip, CoalesceEnd, vars
<1> QED
  BY <1>1, <1>2, AlwaysSafe, PTL DEF Spec

(* is_in_freed_memory never takes an address that a caller holds for freed *)
(* memory, in the middle of a walk either.                                 *)
THEOREM HeldNeverFreed == Spec => [](\A a \in DOMAIN live : ~IsInFreedMemory(a))
<1>1. ASSUME Safe, HeldSizes, NEW a \in DOMAIN live, NEW b \in DOMAIN size \ taken,
             b <= a, a < b + size[b]
      PROVE  FALSE
  <2> DEFINE x == a - HeaderSize
  <2>1. /\ a \in Nat /\ x \in taken /\ x \in DOMAIN size /\ x # b
        /\ b \in Int /\ x \in Int /\ size[b] \in Nat /\ size[x] \in Nat
        /\ live[a] \in Nat \ {0} /\ live[a] + HeaderSize <= size[x]
    BY <1>1, HeldBlock, HeapAssumption DEF Safe, TypeOK, HeldIsTaken, HeldSizes
  <2>2. /\ x < b => x + size[x] <= b
        /\ b < x => b + size[b] <= x
    BY <1>1, <2>1 DEF Safe, Tiling
  <2>3. a = x + HeaderSize /\ HeaderSize = 8
    BY <2>1 DEF HeaderSize
  <2> HIDE DEF x
  <2> QED
    BY <1>1, <2>1, <2>2, <2>3
<1>2. Safe /\ HeldSizes => \A a \in DOMAIN live : ~IsInFreedMemory(a)
  BY <1>1 DEF IsInFreedMemory
<1> QED
  BY <1>2, SizesHeld, AlwaysSafe, PTL

-----------------------------------------------------------------------------
(* Fragmentation.  A gap is a free block directly followed by a free block. *)
Gaps == {b \in DOMAIN size \ taken : b + size[b] \in DOMAIN size \ taken}
Behind == {b \in Gaps : b < ptr}
Ahead == Gaps \ Behind

(* A kfree adds two gaps to the one there may be, and coalesce starts with *)
(* all of them ahead.  A merge takes one from those ahead, or takes two    *)
(* and leaves one behind: a gap behind the cursor weighs two, and the      *)
(* weight of three that coalesce starts with never grows.                  *)
FewGaps ==
    IF op = "coalesce"
    THEN \/ Behind = {} /\ \E x, y, z : Ahead \subseteq {x, y, z}
         \/ \E x, y : Behind \subseteq {x} /\ Ahead \subseteq {y}
    ELSE \E x : Gaps \subseteq {x}

(* The block behind another, and the one before it, are unique. *)
LEMMA NextUnique ==
    ASSUME Safe, NEW b \in DOMAIN size, NEW c \in DOMAIN size,
           b + size[b] = c + size[c]
    PROVE  b = c
<1>1. /\ b \in Int /\ c \in Int /\ size[b] \in Int /\ size[b] > 0
      /\ size[c] \in Int /\ size[c] > 0
  BY DEF Safe, TypeOK
<1>2. /\ b < c => b + size[b] <= c
      /\ c < b => c + size[c] <= b
  BY DEF Safe, Tiling
<1> QED
  BY <1>1, <1>2

(* kfree makes a gap of the block it frees and of the block before it. *)
LEMMA FreeGaps ==
    ASSUME Safe, FewGaps, NEW a \in DOMAIN live, Kfree(a)
    PROVE  FewGaps'
<1> DEFINE h == a - HeaderSize
<1>1. /\ taken' = taken \ {h} /\ size' = size
      /\ op = "idle" /\ op' = "coalesce" /\ ptr' = 0
  BY DEF Kfree
<1> HIDE DEF h
<1>2. PICK x : Gaps \subseteq {x}
  BY <1>1 DEF FewGaps
<1>3. PICK y : \A b \in DOMAIN size : b + size[b] = h => b = y
  BY NextUnique
<1>4. Gaps' \subseteq {x, y, h}
  BY <1>1, <1>2, <1>3 DEF Gaps
<1>5. \A b \in DOMAIN size : ~(b < 0)
  BY DEF Safe, TypeOK
<1>6. Behind' = {} /\ Ahead' = Gaps'
  BY <1>1, <1>5 DEF Behind, Ahead, Gaps
<1> QED
  BY <1>1, <1>4, <1>6 DEF FewGaps

(* Cutting a block leaves its rest free, with what followed the block. *)
LEMMA TakeGaps ==
    ASSUME Safe, FewGaps, SearchTake
    PROVE  FewGaps'
<1>1. /\ op = "search" /\ op' = "idle"
      /\ ptr \in DOMAIN size /\ ptr \notin taken
      /\ size[ptr] >= Needed(want)
      /\ size' = Split
      /\ taken' = taken \cup {ptr}
  BY DEF SearchTake, Fits, Return
<1>2. PICK x : Gaps \subseteq {x}
  BY <1>1 DEF FewGaps
<1>3. CASE Remaining > HeaderSize
  <2>1. /\ DOMAIN size' = DOMAIN size \cup {Rest}
        /\ \A b \in DOMAIN size \cup {Rest} :
             size'[b] = IF b = ptr THEN Needed(want)
                        ELSE IF b = Rest THEN Remaining ELSE size[b]
    BY <1>1, <1>3 DEF Split
  <2>2. /\ ptr \in Nat /\ size[ptr] \in Nat /\ Needed(want) \in Nat
        /\ Needed(want) > HeaderSize
    BY <1>1, NeededCovers, HeapAssumption DEF Safe, TypeOK, Searching
  <2>3. /\ Rest \in Nat /\ Remaining \in Nat /\ ptr < Rest
        /\ Rest < ptr + size[ptr] /\ Rest + Remaining = ptr + size[ptr]
    BY <1>3, <2>2 DEF Rest, Remaining, HeaderSize
  <2>4. \A b \in DOMAIN size : b + size[b] # Rest \/ b = ptr
    <3> SUFFICES ASSUME NEW b \in DOMAIN size, b # ptr, b + size[b] = Rest
                 PROVE  FALSE
      OBVIOUS
    <3>1. /\ b \in Int /\ size[b] \in Int /\ size[b] > 0
          /\ b < ptr => b + size[b] <= ptr
          /\ ptr < b => ptr + size[ptr] <= b
      BY <1>1 DEF Safe, TypeOK, Tiling
    <3> QED
      BY <2>2, <2>3, <3>1
  <2>5. ASSUME NEW b \in Gaps' PROVE b \in Gaps \/ (b = Rest /\ ptr \in Gaps)
    <3>1. b \in DOMAIN size \cup {Rest} /\ b \notin taken /\ b # ptr
          /\ b + size'[b] \in DOMAIN size \cup {Rest}
          /\ b + size'[b] \notin taken /\ b + size'[b] # ptr
      BY <1>1, <2>1 DEF Gaps
    <3>2. CASE b = Rest
      <4>1. b + size'[b] = ptr + size[ptr] /\ ptr + size[ptr] # Rest
        BY <2>1, <2>2, <2>3, <3>1, <3>2
      <4> QED
        BY <1>1, <3>1, <3>2, <4>1 DEF Gaps
    <3>3. CASE b # Rest
      BY <2>1, <2>4, <3>1, <3>3 DEF Gaps
    <3> QED
      BY <3>2, <3>3
  <2>6. ptr \notin Gaps'
    BY <1>1 DEF Gaps
  <2>7. \E y : Gaps' \subseteq {y}
    <3>1. CASE ptr \in Gaps
      BY <1>2, <2>5, <2>6, <3>1
    <3>2. CASE ptr \notin Gaps
      BY <1>2, <2>5, <3>2
    <3> QED
      BY <3>1, <3>2
  <2> QED
    BY <1>1, <2>7 DEF FewGaps
<1>4. CASE ~(Remaining > HeaderSize)
  <2>1. size' = size
    BY <1>1, <1>4 DEF Split
  <2>2. Gaps' \subseteq Gaps
    BY <1>1, <2>1 DEF Gaps
  <2> QED
    BY <1>1, <1>2, <2>2 DEF FewGaps
<1> QED
  BY <1>3, <1>4

(* A merge takes the gap at the cursor; if the swallowed block was a gap   *)
(* too, the merged one is, behind the cursor.                              *)
LEMMA MergeGaps ==
    ASSUME Safe, FewGaps, CoalesceMerge
    PROVE  FewGaps'
<1> DEFINE next == ptr + size[ptr]
<1>1. /\ op = "coalesce" /\ op' = "coalesce" /\ ptr \in DOMAIN size /\ next < Total
      /\ ptr \notin taken /\ next \notin taken /\ taken' = taken
      /\ size' = [b \in DOMAIN size \ {next} |->
                    IF b = ptr THEN size[ptr] + size[next] ELSE size[b]]
      /\ ptr' = next + size[next]
  BY DEF CoalesceMerge, InLoop, Following
<1>2. /\ ptr \in 0..(Total - 1) /\ size[ptr] \in 1..Total /\ Total \in Nat
      /\ next \in DOMAIN size \cup {Total}
  BY <1>1, HeapAssumption DEF Safe, TypeOK, Tiling
<1>3. next \in DOMAIN size /\ next # ptr /\ ptr < next /\ next \in Int
      /\ size[next] \in Int /\ size[next] > 0
  BY <1>1, <1>2 DEF Safe, TypeOK
<1>4. /\ DOMAIN size' = DOMAIN size \ {next}
      /\ size'[ptr] = size[ptr] + size[next]
      /\ \A b \in DOMAIN size' : b # ptr => size'[b] = size[b]
  BY <1>1, <1>3
<1>5. ptr + size'[ptr] = next + size[next] /\ next < ptr' /\ ptr' \in Int
  BY <1>1, <1>2, <1>3, <1>4
<1>6. ptr \in Gaps
  BY <1>1, <1>3 DEF Gaps
<1> HIDE DEF next
<1>7. ASSUME NEW b \in Gaps'
      PROVE  \/ b = ptr /\ next \in Gaps
             \/ /\ b \in Gaps /\ b # ptr /\ b # next
                /\ b < ptr <=> b < ptr'
  <2>1. /\ b \in DOMAIN size /\ b # next /\ b \notin taken
        /\ b + size'[b] \in DOMAIN size /\ b + size'[b] \notin taken
    BY <1>1, <1>4 DEF Gaps
  <2>2. CASE b = ptr
    BY <1>1, <1>3, <1>5, <2>1, <2>2 DEF Gaps
  <2>3. CASE b # ptr
    <3>1. b \in Gaps
      BY <1>4, <2>1, <2>3 DEF Gaps
    <3>2. /\ b \in Int
          /\ ptr < b => next <= b
          /\ next < b => next + size[next] <= b
      BY <1>1, <1>3, <2>1 DEF Safe, TypeOK, Tiling, next
    <3>3. b < ptr <=> b < ptr'
      BY <1>1, <1>2, <1>3, <1>5, <2>1, <2>3, <3>2
    <3> QED
      BY <2>1, <2>3, <3>1, <3>3
  <2> QED
    BY <2>2, <2>3
<1>8. /\ ptr \in Ahead /\ (next \in Gaps => next \in Ahead)
  BY <1>2, <1>3, <1>6 DEF Ahead, Behind
<1>9. /\ \A b \in Behind' : b \in Behind \/ (b = ptr /\ next \in Gaps)
      /\ \A b \in Ahead' : b \in Ahead /\ b # ptr /\ b # next
  <2>1. ASSUME NEW b \in Behind' PROVE b \in Behind \/ (b = ptr /\ next \in Gaps)
    BY <1>7, <2>1 DEF Behind
  <2>2. ASSUME NEW b \in Ahead' PROVE b \in Ahead /\ b # ptr /\ b # next
    <3>1. b \in Gaps' /\ ~(b < ptr')
      BY <2>2 DEF Ahead, Behind
    <3>2. b # ptr
      BY <1>2, <1>3, <1>5, <3>1
    <3> QED
      BY <1>7, <3>1, <3>2 DEF Ahead, Behind
  <2> QED
    BY <2>1, <2>2
<1>10. CASE Behind = {} /\ \E x, y, z : Ahead \subseteq {x, y, z}
  <2>1. PICK x, y, z : Ahead \subseteq {x, y, z}
    BY <1>10
  <2>2. CASE next \in Gaps
    <3>1. Behind' \subseteq {ptr}
      BY <1>9, <1>10
    <3>2. ptr \in {x, y, z} /\ next \in {x, y, z} /\ ptr # next
      BY <1>3, <1>8, <2>1, <2>2
    <3>3. Ahead' \subseteq {x, y, z} \ {ptr, next}
      BY <1>9, <2>1
    <3>4. \E w : Ahead' \subseteq {w}
      BY <3>2, <3>3
    <3> QED
      BY <1>1, <3>1, <3>4 DEF FewGaps
  <2>3. CASE next \notin Gaps
    <3>1. Behind' = {} /\ Ahead' \subseteq {x, y, z}
      BY <1>9, <1>10, <2>1, <2>3
    <3> QED
      BY <1>1, <3>1 DEF FewGaps
  <2> QED
    BY <2>2, <2>3
<1>11. CASE \E x, y : Behind \subseteq {x} /\ Ahead \subseteq {y}
  <2>1. PICK x, y : Behind \subseteq {x} /\ Ahead \subseteq {y}
    BY <1>11
  <2>2. y = ptr /\ next \notin Gaps
    BY <1>3, <1>8, <2>1
  <2>3. Behind' \subseteq {x} /\ Ahead' \subseteq {y}
    BY <1>9, <2>1, <2>2
  <2> QED
    BY <1>1, <2>3 DEF FewGaps
<1> QED
  BY <1>1, <1>10, <1>11 DEF FewGaps

(* A walk past a block that is no gap. *)
LEMMA SkipGaps ==
    ASSUME Safe, FewGaps, CoalesceSkip
    PROVE  FewGaps'
<1> DEFINE next == ptr + size[ptr]
<1>1. /\ op = "coalesce" /\ op' = "coalesce" /\ ptr \in DOMAIN size
      /\ ptr \in taken \/ next \in taken
      /\ size' = size /\ taken' = taken /\ ptr' = next
  BY DEF CoalesceSkip, InLoop, Following
<1>2. /\ ptr \in Int /\ size[ptr] \in Int /\ size[ptr] > 0
  BY <1>1 DEF Safe, TypeOK
<1>3. Gaps' = Gaps /\ ptr \notin Gaps
  BY <1>1 DEF Gaps
<1>4. ASSUME NEW b \in Gaps PROVE b < ptr <=> b < ptr'
  <2>1. /\ b \in DOMAIN size /\ b \in Int /\ b # ptr
        /\ ptr < b => next <= b
    BY <1>1, <1>3 DEF Gaps, Safe, TypeOK, Tiling
  <2> QED
    BY <1>1, <1>2, <2>1
<1>5. Behind' = Behind /\ Ahead' = Ahead
  BY <1>3, <1>4 DEF Behind, Ahead
<1> QED
  BY <1>1, <1>5 DEF FewGaps

(* At the tail or on the last block no gap is ahead. *)
LEMMA EndGaps ==
    ASSUME Safe, FewGaps, CoalesceEnd
    PROVE  FewGaps'
<1>1. /\ op = "coalesce" /\ op' = "idle" /\ size' = size /\ taken' = taken
      /\ ~InLoop
  BY DEF CoalesceEnd, Return
<1>2. Gaps' = Gaps
  BY <1>1 DEF Gaps
<1>3. \A b \in DOMAIN size : b \in Int /\ size[b] \in Int /\ size[b] > 0 /\ b < Total
  BY HeapAssumption DEF Safe, TypeOK
<1>4. Ahead = {}
  <2> SUFFICES ASSUME NEW b \in Ahead PROVE FALSE
    OBVIOUS
  <2>1. /\ b \in DOMAIN size /\ b + size[b] \in DOMAIN size /\ ~(b < ptr)
    BY DEF Ahead, Behind, Gaps
  <2>2. ptr \in DOMAIN size
    BY <1>1, <1>3, <2>1, HeapAssumption DEF Safe, CursorOnHeader
  <2>3. ~(ptr + size[ptr] < Total)
    BY <1>1, <2>2 DEF InLoop, Following
  <2>4. ptr < b => ptr + size[ptr] <= b
    BY <2>1, <2>2 DEF Safe, Tiling
  <2> QED
    BY <1>3, <2>1, <2>2, <2>3, <2>4, HeapAssumption
<1>5. \E x : Behind \subseteq {x}
  BY <1>1 DEF FewGaps
<1>6. Gaps = Behind
  BY <1>4 DEF Ahead, Behind
<1> QED
  BY <1>1, <1>2, <1>5, <1>6 DEF FewGaps

(* kfree of an address from outside the pool starts a walk as well. *)
LEMMA ForeignGaps ==
    ASSUME Safe, FewGaps, KfreeForeign
    PROVE  FewGaps'
<1>1. op = "idle" /\ op' = "coalesce" /\ size' = size /\ taken' = taken /\ ptr' = 0
  BY DEF KfreeForeign
<1>2. PICK x : Gaps \subseteq {x}
  BY <1>1 DEF FewGaps
<1>3. Gaps' = Gaps
  BY <1>1 DEF Gaps
<1>4. Behind' \subseteq {x} /\ Ahead' \subseteq {x}
  BY <1>2, <1>3 DEF Behind, Ahead
<1> QED
  BY <1>1, <1>4 DEF FewGaps

(* A step outside coalesce that changes no header. *)
LEMMA OtherGaps ==
    ASSUME FewGaps, UNCHANGED <<size, taken>>, op # "coalesce", op' # "coalesce"
    PROVE  FewGaps'
<1>1. Gaps' = Gaps
  BY DEF Gaps
<1> QED
  BY <1>1 DEF FewGaps

(* One pass of coalesce for each kfree keeps the free memory together:     *)
(* between calls at most one free block is followed directly by another,   *)
(* whatever the pool, the sizes and the order of the calls (coalesce).     *)
THEOREM FragmentationBounded == Spec => []AtMostOneGap
<1>1. Init => FewGaps
  <2> SUFFICES ASSUME Init PROVE FewGaps
    OBVIOUS
  <2>1. Gaps \subseteq {0} /\ op # "coalesce"
    BY DEF Init, Gaps
  <2> QED
    BY <2>1 DEF FewGaps
<1>2. Safe /\ FewGaps /\ [Next]_vars => FewGaps'
  <2> SUFFICES ASSUME Safe, FewGaps, [Next]_vars PROVE FewGaps'
    OBVIOUS
  <2>1. ASSUME NEW sz \in Sizes, Kmalloc(sz) PROVE FewGaps'
    BY <2>1, OtherGaps DEF Kmalloc
  <2>2. ASSUME NEW a \in DOMAIN live, Kfree(a) PROVE FewGaps'
    BY <2>2, FreeGaps
  <2>3. CASE SearchSkip \/ SearchLeavesPool
    BY <2>3, OtherGaps DEF SearchSkip, SearchLeavesPool, Return
  <2>4. CASE UNCHANGED vars
    <3>1. Gaps' = Gaps /\ ptr' = ptr /\ op' = op
      BY <2>4 DEF vars, Gaps
    <3>2. Behind' = Behind
      BY <3>1 DEF Behind
    <3>3. Ahead' = Ahead
      BY <3>1, <3>2 DEF Ahead
    <3> QED
      BY <3>1, <3>2, <3>3 DEF FewGaps
  <2> QED
    BY <2>1, <2>2, <2>3, <2>4, ForeignGaps, TakeGaps, MergeGaps, SkipGaps, EndGaps
       DEF Next, Loop
<1>3. FewGaps => AtMostOneGap
  <2> SUFFICES ASSUME FewGaps, op = "idle", NEW b \in Gaps, NEW c \in Gaps
               PROVE  b = c
    BY DEF AtMostOneGap, Gaps
  <2> QED
    BY DEF FewGaps
<1> QED
  BY <1>1, <1>2, <1>3, AlwaysSafe, PTL DEF Spec


-----------------------------------------------------------------------------
(* The statistics.  A walk counts exactly the bytes of the blocks it adds. *)

(* A set of offsets that is not empty has a last one. *)
LEMMA LastOffset ==
    ASSUME NEW B, B \subseteq 0..Total, B # {}
    PROVE  \E b \in B : \A c \in B : c <= b
<1> DEFINE S == {Total - b : b \in B}
<1>1. S \subseteq Nat /\ S # {}
  <2>1. ASSUME NEW b \in B PROVE Total - b \in Nat
    <3>1. b \in 0..Total /\ Total \in Nat
      BY HeapAssumption
    <3> QED
      BY <3>1
  <2>2. PICK b : b \in B
    OBVIOUS
  <2>3. Total - b \in S
    BY <2>2
  <2> QED
    BY <2>1, <2>3
<1>2. PICK n \in S : \A m \in S : n <= m
  <2> HIDE DEF S
  <2> QED
    BY <1>1, LeastNumber
<1>3. PICK b \in B : n = Total - b
  BY <1>2
<1>4. ASSUME NEW c \in B PROVE c <= b
  <2>1. Total - c \in S
    OBVIOUS
  <2>2. Total - b <= Total - c
    BY <1>2, <1>3, <2>1
  <2> QED
    BY <2>2, HeapAssumption
<1> QED
  BY <1>4

(* The bytes of some blocks, from offset b on. *)
BytesFrom(blocks, b) ==
    {x \in b..(Total - 1) : \E w \in blocks : w <= x /\ x < w + size[w]}

(* What one round of the walk adds, and the equation its sums satisfy. *)
Counted(blocks, b) == IF b \in blocks THEN size[b] ELSE 0
Round(f, blocks, b) ==
    IF b \in DOMAIN size THEN Counted(blocks, b) + f[b + size[b]] ELSE 0
Walk(f, blocks) == f = [b \in 0..Total |-> Round(f, blocks, b)]

(* The bytes from a header on are those of its block and those behind it. *)
LEMMA BytesSplit ==
    ASSUME TypeOK, Tiling, NEW blocks \in SUBSET DOMAIN size, NEW b \in DOMAIN size
    PROVE  LET here == IF b \in blocks THEN b..(b + size[b] - 1) ELSE {}
               rest == BytesFrom(blocks, b + size[b])
           IN  BytesFrom(blocks, b) = here \cup rest /\ here \cap rest = {}
<1> DEFINE here == IF b \in blocks THEN b..(b + size[b] - 1) ELSE {}
           rest == BytesFrom(blocks, b + size[b])
<1>1. /\ b \in 0..(Total - 1) /\ size[b] \in 1..Total /\ Total \in Nat
      /\ b + size[b] \in DOMAIN size \cup {Total}
  BY HeapAssumption DEF TypeOK, Tiling
<1>2. b + size[b] <= Total
  BY <1>1 DEF TypeOK
<1>3. ASSUME NEW x \in BytesFrom(blocks, b) PROVE x \in here \cup rest
  <2>1. x \in b..(Total - 1)
    BY DEF BytesFrom
  <2>2. PICK w \in blocks : w <= x /\ x < w + size[w]
    BY DEF BytesFrom
  <2>3. w \in DOMAIN size /\ w \in 0..(Total - 1) /\ size[w] \in 1..Total
    BY DEF TypeOK
  <2>4. CASE x < b + size[b]
    <3>1. w = b
      <4>1. ~(w < b)
        <5>1. w < b => w + size[w] <= b
          BY <2>3 DEF Tiling
        <5> QED
          BY <1>1, <2>1, <2>2, <2>3, <5>1
      <4>2. ~(b < w)
        <5>1. b < w => b + size[b] <= w
          BY <2>3 DEF Tiling
        <5> QED
          BY <1>1, <2>1, <2>2, <2>3, <2>4, <5>1
      <4> QED
        BY <1>1, <2>3, <4>1, <4>2
    <3> QED
      BY <1>1, <2>1, <2>4, <3>1
  <2>5. CASE ~(x < b + size[b])
    <3>1. x \in (b + size[b])..(Total - 1)
      BY <1>1, <2>1, <2>5
    <3> QED
      BY <2>2, <3>1 DEF BytesFrom
  <2> QED
    BY <2>4, <2>5
<1>4. ASSUME NEW x \in here PROVE x \in BytesFrom(blocks, b)
  <2>1. b \in blocks /\ x \in b..(b + size[b] - 1)
    BY <1>4
  <2>2. x \in b..(Total - 1) /\ b <= x /\ x < b + size[b]
    BY <1>1, <1>2, <2>1
  <2> QED
    BY <2>1, <2>2 DEF BytesFrom
<1>5. ASSUME NEW x \in rest PROVE x \in BytesFrom(blocks, b) /\ x \notin here
  <2>1. x \in (b + size[b])..(Total - 1) /\ \E w \in blocks : w <= x /\ x < w + size[w]
    BY DEF BytesFrom
  <2>2. x \in b..(Total - 1) /\ x \notin b..(b + size[b] - 1)
    BY <1>1, <2>1
  <2> QED
    BY <2>1, <2>2 DEF BytesFrom
<1> QED
  BY <1>3, <1>4, <1>5

LEMMA BytesFinite ==
    ASSUME NEW blocks, NEW b \in 0..Total
    PROVE  IsFiniteSet(BytesFrom(blocks, b)) /\ Cardinality(BytesFrom(blocks, b)) \in Nat
<1>1. b \in Int /\ Total - 1 \in Int
  BY HeapAssumption
<1>2. IsFiniteSet(b..(Total - 1))
  BY <1>1, FS_Interval
<1>3. BytesFrom(blocks, b) \in SUBSET (b..(Total - 1))
  BY DEF BytesFrom
<1>4. IsFiniteSet(BytesFrom(blocks, b))
  BY <1>2, <1>3, FS_Subset
<1> QED
  BY <1>4, FS_CardinalityType

(* Counting the bytes from each header on satisfies the walk's equation. *)
BytesAt(blocks) ==
    [b \in 0..Total |-> IF b \in DOMAIN size THEN Cardinality(BytesFrom(blocks, b)) ELSE 0]

LEMMA CountRound ==
    ASSUME TypeOK, Tiling, NEW blocks \in SUBSET DOMAIN size, NEW b \in DOMAIN size
    PROVE  Cardinality(BytesFrom(blocks, b))
             = Counted(blocks, b) + BytesAt(blocks)[b + size[b]]
<1> DEFINE here == IF b \in blocks THEN b..(b + size[b] - 1) ELSE {}
           next == b + size[b]
           rest == BytesFrom(blocks, next)
<1>1. /\ b \in 0..(Total - 1) /\ size[b] \in 1..Total /\ Total \in Nat
      /\ next \in DOMAIN size \cup {Total}
  BY HeapAssumption DEF TypeOK, Tiling
<1>2. next \in 0..Total
  BY <1>1 DEF TypeOK
<1>3. BytesFrom(blocks, b) = here \cup rest /\ here \cap rest = {}
  BY BytesSplit
<1>4. IsFiniteSet(here) /\ Cardinality(here) = Counted(blocks, b)
  <2>1. CASE b \in blocks
    <3>1. b \in Int /\ b + size[b] - 1 \in Int /\ ~(b > b + size[b] - 1)
          /\ (b + size[b] - 1) - b + 1 = size[b]
      BY <1>1
    <3>2. IsFiniteSet(b..(b + size[b] - 1)) /\ Cardinality(b..(b + size[b] - 1)) = size[b]
      BY <3>1, FS_Interval
    <3> QED
      BY <2>1, <3>2 DEF Counted
  <2>2. CASE b \notin blocks
    BY <2>2, FS_EmptySet DEF Counted
  <2> QED
    BY <2>1, <2>2
<1> HIDE DEF here, next
<1>5. IsFiniteSet(rest) /\ Cardinality(rest) \in Nat
  BY <1>2, BytesFinite
<1>6. BytesAt(blocks)[next] = Cardinality(rest)
  <2>1. CASE next \in DOMAIN size
    BY <1>2, <2>1 DEF BytesAt
  <2>2. CASE next \notin DOMAIN size
    <3>1. next = Total
      BY <1>1, <2>2
    <3>2. rest = {}
      BY <1>1, <3>1 DEF BytesFrom
    <3> QED
      BY <1>2, <2>2, <3>2, FS_EmptySet DEF BytesAt
  <2> QED
    BY <2>1, <2>2
<1> HIDE DEF rest
<1>7. Counted(blocks, b) \in Nat
  BY <1>1 DEF Counted
<1>8. Cardinality(here \cup rest) = Cardinality(here) + Cardinality(rest) - Cardinality(here \cap rest)
  BY <1>4, <1>5, FS_Union
<1>9. Cardinality(here \cap rest) = 0
  BY <1>3, FS_EmptySet
<1>10. Cardinality(BytesFrom(blocks, b)) = Counted(blocks, b) + BytesAt(blocks)[next]
  BY <1>3, <1>4, <1>5, <1>6, <1>7, <1>8, <1>9
<1> QED
  BY <1>10 DEF next

LEMMA CountWalks ==
    ASSUME TypeOK, Tiling, NEW blocks \in SUBSET DOMAIN size
    PROVE  Walk(BytesAt(blocks), blocks)
<1> DEFINE f == BytesAt(blocks)
<1>1. ASSUME NEW b \in 0..Total PROVE f[b] = Round(f, blocks, b)
  <2>1. CASE b \in DOMAIN size
    <3>1. f[b] = Cardinality(BytesFrom(blocks, b))
      BY <2>1 DEF BytesAt
    <3> HIDE DEF f
    <3> QED
      BY <2>1, <3>1, CountRound DEF Round, f
  <2>2. CASE b \notin DOMAIN size
    BY <2>2 DEF BytesAt, Round
  <2> QED
    BY <2>1, <2>2
<1>2. f = [b \in 0..Total |-> f[b]]
  BY DEF BytesAt
<1> HIDE DEF f
<1>3. f = [b \in 0..Total |-> Round(f, blocks, b)]
  BY <1>1, <1>2
<1> QED
  BY <1>3 DEF f, Walk

(* The walk's equation has one solution: from the tail back, each sum is   *)
(* fixed by the one behind it.                                             *)
LEMMA WalkUnique ==
    ASSUME TypeOK, Tiling, NEW blocks \in SUBSET DOMAIN size,
           NEW f, Walk(f, blocks), NEW g, Walk(g, blocks)
    PROVE  \A b \in 0..Total : f[b] = g[b]
<1> DEFINE Bad == {b \in 0..Total : f[b] # g[b]}
<1> SUFFICES ASSUME Bad # {} PROVE FALSE
  OBVIOUS
<1>1. PICK b \in Bad : \A c \in Bad : c <= b
  <2>1. Bad \subseteq 0..Total
    OBVIOUS
  <2> HIDE DEF Bad
  <2> QED
    BY <2>1, LastOffset
<1>2. b \in 0..Total /\ f[b] # g[b]
  BY <1>1
<1>3. f[b] = Round(f, blocks, b) /\ g[b] = Round(g, blocks, b)
  <2>1. \A h : Walk(h, blocks) => h[b] = Round(h, blocks, b)
    BY <1>2 DEF Walk
  <2> QED
    BY <2>1
<1>4. b \in DOMAIN size
  BY <1>2, <1>3 DEF Round
<1>5. f[b + size[b]] # g[b + size[b]]
  BY <1>2, <1>3, <1>4 DEF Round
<1>6. b + size[b] \in 0..Total /\ b + size[b] > b
  BY <1>4, HeapAssumption DEF TypeOK, Tiling
<1>7. b + size[b] \in Bad
  BY <1>5, <1>6
<1>8. b + size[b] <= b
  BY <1>1, <1>7
<1> QED
  BY <1>2, <1>6, <1>8

(* So the walk of get_statistics returns the number of bytes. *)
LEMMA WalkCounts ==
    ASSUME TypeOK, Tiling, NEW blocks \in SUBSET DOMAIN size
    PROVE  WalkSum(blocks) = Cardinality(BytesFrom(blocks, 0))
<1> DEFINE f == CHOOSE g : Walk(g, blocks)
<1>1. Walk(f, blocks)
  BY CountWalks
<1>2. WalkSum(blocks) = f[0]
  BY DEF WalkSum, Walk, Round, Counted
<1>3. 0 \in 0..Total /\ 0 \in DOMAIN size
  BY HeapAssumption DEF Tiling
<1> HIDE DEF f
<1>4. f[0] = BytesAt(blocks)[0]
  BY <1>1, <1>3, CountWalks, WalkUnique
<1> QED
  BY <1>2, <1>3, <1>4 DEF BytesAt

(* Every byte of the pool is in a block. *)
LEMMA EveryByteInBlock ==
    ASSUME TypeOK, Tiling, NEW x \in 0..(Total - 1)
    PROVE  \E b \in DOMAIN size : b <= x /\ x < b + size[b]
<1> DEFINE B == {b \in DOMAIN size : b <= x}
<1>1. B \subseteq 0..Total /\ 0 \in B
  BY HeapAssumption DEF TypeOK, Tiling
<1>2. PICK b \in B : \A c \in B : c <= b
  <2> HIDE DEF B
  <2> QED
    BY <1>1, LastOffset
<1>3. /\ b \in DOMAIN size /\ b <= x /\ b \in 0..(Total - 1) /\ size[b] \in 1..Total
      /\ b + size[b] \in DOMAIN size \cup {Total}
  BY <1>2 DEF TypeOK, Tiling
<1>4. x < b + size[b]
  <2> SUFFICES ASSUME b + size[b] <= x PROVE FALSE
    BY <1>3
  <2>1. b + size[b] \in B
    BY <1>3, HeapAssumption
  <2>2. b + size[b] <= b
    BY <1>2, <2>1
  <2> QED
    BY <1>3, <2>2
<1> QED
  BY <1>3, <1>4

(* Free and used bytes are the pool, and no byte is both. *)
LEMMA BytesAccounted ==
    ASSUME TypeOK, Tiling
    PROVE  Cardinality(BytesFrom(DOMAIN size \ taken, 0)) + Cardinality(BytesFrom(taken, 0)) = Total
<1> DEFINE F == BytesFrom(DOMAIN size \ taken, 0)
           U == BytesFrom(taken, 0)
<1>1. F \cup U = 0..(Total - 1)
  <2>1. ASSUME NEW x \in 0..(Total - 1) PROVE x \in F \cup U
    BY EveryByteInBlock DEF BytesFrom
  <2> QED
    BY <2>1 DEF BytesFrom
<1>2. F \cap U = {}
  <2> SUFFICES ASSUME NEW x \in F, x \in U PROVE FALSE
    OBVIOUS
  <2>1. PICK b \in DOMAIN size \ taken : b <= x /\ x < b + size[b]
    BY DEF BytesFrom
  <2>2. PICK c \in taken : c <= x /\ x < c + size[c]
    BY DEF BytesFrom
  <2>3. /\ b \in 0..(Total - 1) /\ c \in 0..(Total - 1) /\ size[b] \in 1..Total /\ size[c] \in 1..Total
        /\ x \in 0..(Total - 1) /\ b # c /\ c \in DOMAIN size
    BY <2>1, <2>2 DEF TypeOK, BytesFrom
  <2>4. (b < c => b + size[b] <= c) /\ (c < b => c + size[c] <= b)
    BY <2>1, <2>3 DEF Tiling
  <2> QED
    BY <2>1, <2>2, <2>3, <2>4
<1>3. /\ IsFiniteSet(F) /\ IsFiniteSet(U) /\ Cardinality(F) \in Nat /\ Cardinality(U) \in Nat
  <2>1. 0 \in 0..Total
    BY HeapAssumption
  <2> QED
    BY <2>1, BytesFinite
<1> HIDE DEF F, U
<1>4. Cardinality(F \cup U) = Cardinality(F) + Cardinality(U) - Cardinality(F \cap U)
  BY <1>3, FS_Union
<1>5. Cardinality(F \cap U) = 0
  BY <1>2, FS_EmptySet
<1>6. Cardinality(0..(Total - 1)) = Total
  <2>1. 0 \in Int /\ Total - 1 \in Int /\ ~(0 > Total - 1) /\ (Total - 1) - 0 + 1 = Total
    BY HeapAssumption DEF HeaderSize
  <2> QED
    BY <2>1, FS_Interval
<1>7. Cardinality(F) + Cardinality(U) = Total
  <2>1. Cardinality(F \cup U) = Total
    BY <1>1, <1>6, Zenon
  <2> QED
    BY <1>3, <1>4, <1>5, <2>1, HeapAssumption
<1> QED
  BY <1>7 DEF F, U

(* A block handed out has room for the header and the rounded size. *)
HeldRoom == \A a \in DOMAIN live : Needed(live[a]) <= size[a - HeaderSize]

LEMMA TakeRoom ==
    ASSUME Safe, HeldRoom, SearchTake
    PROVE  HeldRoom'
<1> SUFFICES ASSUME NEW a \in DOMAIN live' PROVE Needed(live'[a]) <= size'[a - HeaderSize]
  BY DEF HeldRoom, Needed, Align8
<1>1. /\ ptr \in DOMAIN size /\ ptr \notin taken /\ size[ptr] >= Needed(want) /\ size' = Split
      /\ DOMAIN live' = DOMAIN live \cup {ptr + HeaderSize}
      /\ live'[ptr + HeaderSize] = want
      /\ \A x \in DOMAIN live : x # ptr + HeaderSize => live'[x] = live[x]
  BY DEF SearchTake, Fits
<1>2. ptr \in Int /\ ptr + HeaderSize - HeaderSize = ptr /\ HeaderSize \in Int
  BY DEF Safe, TypeOK, HeaderSize
<1>3. CASE a = ptr + HeaderSize
  <2>1. want \in Nat \ {0}
    BY HeapAssumption DEF Safe, Searching, SearchTake
  <2>2. Needed(want) \in Nat
    BY <2>1, NeededCovers
  <2>3. size'[ptr] = Needed(want) \/ size'[ptr] = size[ptr]
    BY <1>1 DEF Split
  <2> QED
    BY <1>1, <1>2, <1>3, <2>2, <2>3
<1>4. CASE a # ptr + HeaderSize
  <2>1. a \in DOMAIN live /\ live'[a] = live[a]
    BY <1>1, <1>4
  <2>2. size'[a - HeaderSize] = size[a - HeaderSize]
    BY <2>1, TakeSafe
  <2> QED
    BY <2>1, <2>2 DEF HeldRoom
<1> QED
  BY <1>3, <1>4

LEMMA RoomHeld == Spec => []HeldRoom
<1>1. Init => HeldRoom
  BY DEF Init, HeldRoom
<1>2. Safe /\ HeldRoom /\ [Next]_vars => HeldRoom'
  <2> SUFFICES ASSUME Safe, HeldRoom, [Next]_vars PROVE HeldRoom'
    OBVIOUS
  <2>1. CASE SearchTake
    BY <2>1, TakeRoom
  <2>2. CASE DOMAIN live' \subseteq DOMAIN live
    <3>1. Kept \/ UNCHANGED vars
      BY NextSafe
    <3>2. CASE UNCHANGED vars
      BY <3>2 DEF vars, HeldRoom, Needed, Align8
    <3>3. CASE Kept
      <4> SUFFICES ASSUME NEW a \in DOMAIN live'
                   PROVE  Needed(live'[a]) <= size'[a - HeaderSize]
        BY DEF HeldRoom, Needed, Align8
      <4>1. a \in DOMAIN live /\ live'[a] = live[a] /\ size'[a - HeaderSize] = size[a - HeaderSize]
        BY <2>2, <3>3 DEF Kept
      <4> QED
        BY <4>1 DEF HeldRoom
    <3> QED
      BY <3>1, <3>2, <3>3
  <2>3. ASSUME NEW a \in DOMAIN live, Kfree(a) PROVE DOMAIN live' \subseteq DOMAIN live
    BY <2>3 DEF Kfree
  <2>4. CASE UNCHANGED live
    BY <2>2, <2>4
  <2> QED
    BY <2>1, <2>2, <2>3, <2>4 DEF Next, Loop, Kmalloc, KfreeForeign, SearchSkip,
       SearchLeavesPool, CoalesceMerge, CoalesceSkip, CoalesceEnd, vars
<1> QED
  BY <1>1, <1>2, AlwaysSafe, PTL DEF Spec

(* get_statistics accounts for every byte of the pool and counts at least  *)
(* what callers were given as used; no address they hold looks freed.      *)
THEOREM StatisticsExact == Spec => []StatisticsRight
<1>1. ASSUME Safe, HeldRoom PROVE Reserved \subseteq BytesFrom(taken, 0)
  <2> SUFFICES ASSUME NEW x \in Reserved PROVE x \in BytesFrom(taken, 0)
    OBVIOUS
  <2>1. PICK a \in DOMAIN live : x \in (a - HeaderSize)..(a - HeaderSize + Needed(live[a]) - 1)
    BY DEF Reserved
  <2> DEFINE b == a - HeaderSize
  <2>2. b \in taken /\ b \in DOMAIN size /\ a \in Nat
    BY <1>1, HeldBlock
  <2>3. Needed(live[a]) <= size[b]
    BY <1>1 DEF HeldRoom
  <2>4. Needed(live[a]) \in Int
    <3>1. live[a] \in Nat
      BY <1>1 DEF Safe, TypeOK
    <3> QED
      BY <3>1 DEF Needed, Align8, HeaderSize
  <2>5. b \in 0..(Total - 1) /\ size[b] \in 1..Total /\ b + size[b] \in DOMAIN size \cup {Total}
    BY <1>1, <2>2 DEF Safe, TypeOK, Tiling
  <2>6. b + size[b] <= Total
    BY <1>1, <2>5, HeapAssumption DEF Safe, TypeOK
  <2>7. x \in b..(b + Needed(live[a]) - 1)
    BY <2>1
  <2> HIDE DEF b
  <2>8. x \in 0..(Total - 1) /\ b <= x /\ x < b + size[b]
    BY <2>3, <2>4, <2>5, <2>6, <2>7, HeapAssumption
  <2> QED
    BY <2>2, <2>8 DEF BytesFrom
<1>2. ASSUME Safe, HeldRoom, \A a \in DOMAIN live : ~IsInFreedMemory(a)
      PROVE  StatisticsRight
  <2>1. TypeOK /\ Tiling /\ taken \subseteq DOMAIN size
    BY <1>2 DEF Safe, TypeOK
  <2>2. /\ Statistics.free = Cardinality(BytesFrom(DOMAIN size \ taken, 0))
        /\ Statistics.used = Cardinality(BytesFrom(taken, 0))
    BY <2>1, WalkCounts DEF Statistics
  <2>3. Statistics.free + Statistics.used = Total
    BY <2>1, <2>2, BytesAccounted
  <2>4. Cardinality(Reserved) <= Cardinality(BytesFrom(taken, 0))
        /\ Cardinality(BytesFrom(taken, 0)) \in Nat /\ Cardinality(Reserved) \in Nat
    <3>1. 0 \in 0..Total
      BY HeapAssumption
    <3>2. Reserved \in SUBSET BytesFrom(taken, 0)
      BY <1>1, <1>2
    <3>3. IsFiniteSet(BytesFrom(taken, 0)) /\ Cardinality(BytesFrom(taken, 0)) \in Nat
      BY <3>1, BytesFinite
    <3> QED
      BY <3>2, <3>3, FS_Subset, FS_CardinalityType
  <2>5. Statistics.used >= Cardinality(Reserved)
    BY <2>2, <2>4
  <2> QED
    BY <1>2, <2>3, <2>5 DEF StatisticsRight
<1> QED
  BY <1>2, AlwaysSafe, RoomHeld, HeldNeverFreed, PTL
=============================================================================
