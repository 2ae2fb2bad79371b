---------------------------- MODULE PageAllocator ----------------------------
(***************************************************************************)
(* MemoryManager's page allocator: one status byte per page, first fit.    *)
(*                                                                         *)
(* The table has NumPages bytes.  alloc's inner loop reads the status of   *)
(* the pages after its candidate without comparing with the table's end,   *)
(* so the bytes behind the table are part of the model: init() does not    *)
(* clear them and they may hold anything.                                  *)
(***************************************************************************)
EXTENDS Integers

CONSTANTS
    NumPages,   \* m_number_of_pages
    MaxRun      \* the largest number of pages a caller asks for

ASSUME PageAssumption ==
    /\ NumPages \in Nat \ {0}
    /\ MaxRun \in Nat \ {0}

(* Bytes of the table, and the bytes an allocation can reach. *)
Table == 0..(NumPages - 1)
Reach == 0..(NumPages + MaxRun - 1)
Status == {"Free", "Taken", "Last"}

VARIABLES
    page,    \* m_first_page[i].m_status
    held     \* history: what callers hold, as first page |-> number of pages

pageVars == <<page, held>>

(* The pages of the block that starts at i and has n pages. *)
Run(i, n) == i..(i + n - 1)

(* init(): page 0 is the MemoryManager's own and is never given back. *)
PagesInit ==
    /\ page \in [Reach -> Status]
    /\ page[0] = "Last"
    /\ \A i \in Table \ {0} : page[i] = "Free"
    /\ held = [i \in {0} |-> 1]

(* Mutated form: only the candidate itself is tested. *)
FreeRunFirst(i, n) == page[i] = "Free"

(* alloc's test on candidate i, and the candidate it takes. *)
FreeRun(i, n) == \A j \in Run(i, n) : page[j] = "Free"
FirstFit(i, n) ==
    /\ FreeRun(i, n)
    /\ \A k \in Table : k < i => ~FreeRun(k, n)

(* The status bytes after alloc has marked its run. *)
Mark(i, n) ==
    [j \in Reach |-> IF j = i + n - 1 THEN "Last"
                     ELSE IF j \in Run(i, n) THEN "Taken" ELSE page[j]]

(* alloc(n) and zalloc(n) with a run found (n > 0). *)
Alloc(n) ==
    \E i \in Table :
        /\ FirstFit(i, n)
        /\ page' = Mark(i, n)
        /\ held' = [x \in DOMAIN held \cup {i} |-> IF x = i THEN n ELSE held[x]]

(* alloc(n) returns nullptr: nothing changes. *)
AllocFails(n) ==
    /\ \A i \in Table : ~FreeRun(i, n)
    /\ UNCHANGED pageVars

(* Mutated form: the walk stops at the end of the table. *)
ClearedTable(i) == {j \in Table : j >= i /\ \A k \in i..(j - 1) : page[k] = "Taken"}

(* dealloc's walk from page i: the Taken pages, and the page it stops on. *)
Cleared(i) == {j \in Reach : j >= i /\ \A k \in i..(j - 1) : page[k] = "Taken"}

(* dealloc of a block somebody holds (dealloc(nullptr) does nothing). *)
Dealloc(i) ==
    /\ i \in DOMAIN held \ {0}
    /\ page' = [j \in Reach |-> IF j \in Cleared(i) THEN "Free" ELSE page[j]]
    /\ held' = [x \in DOMAIN held \ {i} |-> held[x]]

PagesNext ==
    \/ \E n \in 1..MaxRun : Alloc(n) \/ AllocFails(n)
    \/ \E i \in DOMAIN held : Dealloc(i)

PagesSpec == PagesInit /\ [][PagesNext]_pageVars

-----------------------------------------------------------------------------
(* Properties. *)

(* Types: a status per byte, block lengths that callers can ask for. *)
PageTypes ==
    /\ page \in [Reach -> Status]
    /\ DOMAIN held \subseteq Table
    /\ held \in [DOMAIN held -> 1..MaxRun]

(* The marks describe the blocks: Taken up to the Last page of each, so    *)
(* that dealloc, which is told no length, finds the end of its block.      *)
MarksMatchBlocks ==
    \A i \in DOMAIN held :
        /\ page[i + held[i] - 1] = "Last"
        /\ \A j \in Run(i, held[i] - 1) : page[j] = "Taken"

(* No page belongs to two blocks. *)
BlocksDisjoint ==
    \A i, k \in DOMAIN held : i < k => i + held[i] <= k

(* Nothing is lost: a page of the table that no block covers is free. *)
UnheldIsFree ==
    \A j \in Table : page[j] = "Free" \/ \E i \in DOMAIN held : j \in Run(i, held[i])

(* Every page of the table is free or in exactly one block, and the marks  *)
(* say where that block ends.                                              *)
PagesAccounted == BlocksDisjoint /\ MarksMatchBlocks /\ UnheldIsFree

(* dealloc clears the pages of its block and no other page. *)
DeallocExact ==
    [][\A i \in DOMAIN held \ DOMAIN held' :
         \A j \in Reach : page'[j] # page[j] <=> j \in Run(i, held[i])]_pageVars

=============================================================================
