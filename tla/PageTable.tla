------------------------------ MODULE PageTable ------------------------------
(***************************************************************************)
(* Page tables: MemoryManager's map, map_range and identity_map_range,     *)
(* PageTable::translate, and the callers that build address spaces - boot, *)
(* the loading of devices and the creation of processes.                   *)
(*                                                                         *)
(* Tables live in pages of the page allocator and are reached by their     *)
(* physical address, which the kernel's own table maps to itself once      *)
(* paging is on.  Building a table therefore depends on a table being      *)
(* right, and a page that is in use twice destroys a table.                *)
(*                                                                         *)
(* Virtual and physical pages are numbers; an address is a number of       *)
(* bytes.  An entry keeps its valid bit, its page number and its R, W, X   *)
(* and U bits.                                                             *)
(***************************************************************************)
EXTENDS Integers, Sequences, FiniteSets

CONSTANTS
    Entries,       \* entries of a table (512)
    PageSize,      \* bytes of a page (4096)
    Frames,        \* pages the page allocator can hand out
    KernelRoot,    \* the page init_memory() takes for the kernel's table
    Defaults,      \* ranges of map_system_defaults, in order
    Devices,       \* ranges mapped for the device tree and for MMIO devices
    Image,         \* ranges of the kernel image mapped into every process
    FrameAddress,  \* THREAD_FRAME_ADDRESS
    StackAddress,  \* STACK_ADDRESS
    StackPages,    \* STACK_PAGES
    MaxRoots,      \* bound: address spaces
    MaxData        \* bound: pages the kernel takes for itself

Rights == {"R", "W", "X", "U"}
KernelRange == [start : Nat, end : Nat, bits : SUBSET Rights]

ASSUME TableAssumption ==
    /\ Entries \in Nat \ {0} /\ PageSize \in Nat \ {0}
    /\ Frames \subseteq Nat \ {0}
    /\ KernelRoot \in Frames
    /\ Defaults \in Seq(KernelRange) /\ Image \in Seq(KernelRange)
    /\ Devices \subseteq KernelRange
    /\ FrameAddress \in Nat /\ StackAddress \in Nat /\ StackPages \in Nat \ {0}
    /\ StackAddress >= PageSize * StackPages

Idx == 0..(Entries - 1)
VirtualPages == [vpn2 : Idx, vpn1 : Idx, vpn0 : Idx]
Entry == [valid : BOOLEAN, ppn : Nat, rights : SUBSET Rights]
NoEntry == [valid |-> FALSE, ppn |-> 0, rights |-> {}]
ZeroPage == [x \in Idx |-> NoEntry]

(* What a page is used for: a table of address space root, above the       *)
(* virtual pages that start with the indices i and j, or something else.   *)
Use(kind, root, i, j) == [kind |-> kind, root |-> root, i |-> i, j |-> j]
Kinds == {"free", "root", "mid", "low", "frame", "stack", "data"}
FreePage == Use("free", 0, 0, 0)
Uses == [kind : Kinds, root : Frames \cup {0}, i : Idx, j : Idx]

(* A range that map_range is asked for: bytes start to end of root. *)
Range(root, start, end, phys, bits) ==
    [root |-> root, start |-> start, end |-> end, phys |-> phys, bits |-> bits]
Ranges == [root : Frames, start : Nat, end : Nat, phys : Nat, bits : SUBSET Rights]

(* The loop of map_range with the loop of map inside it: the next virtual  *)
(* page and its physical page, how many pages are left, and the table (at, *)
(* of level 2, 1 or 0) in which map() looks next.                          *)
NoJob == [left |-> 0]
Jobs == [range : Ranges, vp : Nat, pp : Nat, left : Nat \ {0}, level : 0..2, at : Frames]

VARIABLES
    tab,      \* contents of the pages, read as tables
    use,      \* history: what each page was allocated for
    paging,   \* satp holds the kernel's table
    stage,    \* what the kernel is building, or "fault"
    cur,      \* root of the process being created
    todo,     \* ranges still to be mapped
    job,      \* the range being mapped
    done      \* history: ranges that have been mapped

vars == <<tab, use, paging, stage, cur, todo, job, done>>

Kind(f) == use[f].kind
Roots == {f \in Frames : Kind(f) = "root"}

-----------------------------------------------------------------------------
(* Translation. *)

(* The fields of a VirtualAddress. *)
Vpn(v) == [vpn2 |-> ((v \div Entries) \div Entries) % Entries,
           vpn1 |-> (v \div Entries) % Entries,
           vpn0 |-> v % Entries]

(* is_leaf() *)
Leaf(e) == e.rights \cap {"R", "W", "X"} # {}

(* translate() below entry e: an invalid entry or a leaf ends the walk.    *)
(* A table outside the allocator's pages is not read (it is page 0, which  *)
(* a failed allocation leaves in an entry).                                *)
Below(t, e, x) ==
    IF ~e.valid \/ Leaf(e) THEN e
    ELSE IF e.ppn \in Frames THEN t[e.ppn][x] ELSE NoEntry

(* PageTable::translate: the entry it ends on; an error if not valid. *)
Walk(t, root, p) == Below(t, Below(t, t[root][p.vpn2], p.vpn1), p.vpn0)
Translate(root, v) == Walk(tab, root, Vpn(v))

(* The kernel can read and write page f through its own table. *)
Accessible(f) ==
    paging => LET e == Translate(KernelRoot, f)
              IN  e.valid /\ e.ppn = f /\ "W" \in e.rights

-----------------------------------------------------------------------------
(* zalloc(1) and zalloc(n), by first fit. *)

Free(f) == Kind(f) = "free"

FirstFree(f) == f \in Frames /\ Free(f) /\ \A g \in Frames : Free(g) => f <= g
NoneFree == \A f \in Frames : ~Free(f)

Run(f) == f..(f + StackPages - 1)
FreeRun(f) == \A g \in Run(f) : g \in Frames /\ Free(g)
FirstRun(f) == FreeRun(f) /\ \A g \in Frames : FreeRun(g) => f <= g

(* Mutated form: alloc does not mark the page. *)
TakeUnmarked(f, u) == UNCHANGED use

(* Page f is taken for u. *)
Take(f, u) == use' = [use EXCEPT ![f] = u]

(* Mutated form: alloc where the code has zalloc. *)
ZeroedNot(t, f) == t

Zeroed(t, f) == [t EXCEPT ![f] = ZeroPage]

-----------------------------------------------------------------------------
(* map() and the ranges. *)

(* Mutated form: the end of the range is rounded down. *)
PagesOfFloor(r) == (r.end \div PageSize) - (r.start \div PageSize)

(* number_of_pages: from the start rounded down to the end rounded up. *)
PagesOf(r) == ((r.end + PageSize - 1) \div PageSize) - (r.start \div PageSize)

Quiet == job = NoJob /\ todo = <<>> /\ stage # "fault"
Walking == job # NoJob /\ stage # "fault"

(* map_range is entered. *)
StartRange ==
    /\ job = NoJob /\ todo # <<>> /\ stage # "fault"
    /\ LET r == Head(todo)
       IN  job' = IF PagesOf(r) > 0
                  THEN [range |-> r, vp |-> r.start \div PageSize,
                        pp |-> r.phys \div PageSize, left |-> PagesOf(r),
                        level |-> 2, at |-> r.root]
                  ELSE NoJob
    /\ todo' = Tail(todo)
    /\ UNCHANGED <<tab, use, paging, stage, cur, done>>

(* The index of map()'s entry v in the table at job.at, and the use of the *)
(* table below it.                                                         *)
Slot == LET p == Vpn(job.vp)
        IN  IF job.level = 2 THEN p.vpn2
            ELSE IF job.level = 1 THEN p.vpn1 ELSE p.vpn0
TableUse == LET p == Vpn(job.vp)
            IN  IF job.level = 2 THEN Use("mid", job.range.root, p.vpn2, 0)
                ELSE Use("low", job.range.root, p.vpn2, p.vpn1)
Down(f) == [job EXCEPT !.at = f, !.level = @ - 1]
Pointer(ppn) == [valid |-> TRUE, ppn |-> ppn, rights |-> {}]

(* One turn of map()'s loop: down into an existing table. *)
MapDescend ==
    /\ Walking /\ job.level > 0 /\ Accessible(job.at)
    /\ LET e == tab[job.at][Slot]
       IN  /\ e.valid
           /\ e.ppn \in Frames
           /\ job' = Down(e.ppn)
    /\ UNCHANGED <<tab, use, paging, stage, cur, todo, done>>

(* One turn of map()'s loop: a table is allocated and entered. *)
MapNewTable ==
    /\ Walking /\ job.level > 0 /\ Accessible(job.at)
    /\ ~tab[job.at][Slot].valid
    /\ \E f \in Frames :
         /\ FirstFree(f) /\ Accessible(f)
         /\ Take(f, TableUse)
         /\ tab' = [Zeroed(tab, f) EXCEPT ![job.at][Slot] = Pointer(f)]
         /\ job' = Down(f)
    /\ UNCHANGED <<paging, stage, cur, todo, done>>

(* One turn of map()'s loop: zalloc's nullptr is entered as a table, and   *)
(* the access to it faults.                                                *)
MapNoMemory ==
    /\ Walking /\ job.level > 0 /\ Accessible(job.at)
    /\ ~tab[job.at][Slot].valid
    /\ NoneFree
    /\ tab' = [tab EXCEPT ![job.at][Slot] = Pointer(0)]
    /\ stage' = "fault"
    /\ UNCHANGED <<use, paging, cur, todo, job, done>>

(* A table, or the page taken for a new one, that the kernel cannot reach. *)
MapUnreachable ==
    /\ Walking
    /\ \/ ~Accessible(job.at) /\ UNCHANGED use
       \/ /\ Accessible(job.at) /\ job.level > 0 /\ ~tab[job.at][Slot].valid
          /\ \E f \in Frames : FirstFree(f) /\ ~Accessible(f) /\ Take(f, Use("data", 0, 0, 0))
    /\ stage' = "fault"
    /\ UNCHANGED <<tab, paging, cur, todo, job, done>>

(* The next turn of map_range's loop, if there is one. *)
NextPage ==
    IF job.left > 1
    THEN [job EXCEPT !.vp = @ + 1, !.pp = @ + 1, !.left = @ - 1, !.level = 2,
                     !.at = job.range.root]
    ELSE NoJob

(* The end of map(): the leaf is written; set_bits only adds rights. *)
MapLeaf ==
    /\ Walking /\ job.level = 0 /\ Accessible(job.at)
    /\ tab' = [tab EXCEPT ![job.at][Slot] =
                 [valid |-> TRUE, ppn |-> job.pp, rights |-> @.rights \cup job.range.bits]]
    /\ job' = NextPage
    /\ done' = IF job' = NoJob THEN done \cup {job.range} ELSE done
    /\ UNCHANGED <<use, paging, stage, cur, todo>>

-----------------------------------------------------------------------------
(* Who builds address spaces. *)

Identity(root, rs) ==
    [n \in 1..Len(rs) |-> Range(root, rs[n].start, rs[n].end, rs[n].start, rs[n].bits)]

(* Mutated form: the rights of the stack. *)
FrameBitsUser == {"R", "W", "U"}

(* The rights of the trap frame's page. *)
FrameBits == {"R", "W"}

(* The ranges of a trap frame in page f, and of a stack from page on. *)
FrameAt(root, f) ==
    Range(root, FrameAddress, FrameAddress + PageSize, f * PageSize, FrameBits)
StackAt(root, page) ==
    Range(root, StackAddress - PageSize * StackPages, StackAddress, page * PageSize,
          {"R", "W", "U"})

(* The virtual pages of a range, and those that the callers below map. *)
PageNumbers(r) == {(r.start \div PageSize) + k : k \in 0..(PagesOf(r) - 1)}
KernelRanges == {Defaults[n] : n \in 1..Len(Defaults)} \cup Devices
ImageRanges == {Image[n] : n \in 1..Len(Image)}
KernelPages == UNION {PageNumbers(r) : r \in KernelRanges}
ImagePages == UNION {PageNumbers(r) : r \in ImageRanges}
FramePages == PageNumbers(FrameAt(KernelRoot, 0))
UserStackPages == PageNumbers(StackAt(KernelRoot, 0))

(* Addresses have three indices, and the two fixed addresses are those of  *)
(* pages.                                                                  *)
ASSUME AddressAssumption ==
    /\ \A v \in KernelPages \cup ImagePages \cup FramePages \cup UserStackPages :
         v < Entries * Entries * Entries
    /\ FrameAddress % PageSize = 0 /\ StackAddress % PageSize = 0

(* The kernel maps nothing for user mode into its own table.  In a process *)
(* the image, the trap frame and the stack lie apart, and the image as     *)
(* well as the pages from page 0 on are not among the allocator's.         *)
ASSUME LayoutAssumption ==
    /\ \A r \in KernelRanges : "U" \notin r.bits
    /\ ImagePages \cap FramePages = {}
    /\ UserStackPages \cap (ImagePages \cup FramePages) = {}
    /\ ImagePages \cap Frames = {}
    /\ \A g \in 0..(StackPages - 1) : g \notin Frames

(* The allocator's pages lie side by side from the heap's start on, and    *)
(* the kernel's table is in the first of them.                             *)
ASSUME HeapAssumption ==
    /\ \A f, g \in Frames : f..g \subseteq Frames
    /\ \A f \in Frames : KernelRoot <= f
    /\ Defaults # <<>> /\ "W" \in Defaults[1].bits
    /\ \A f \in Frames : Defaults[1].start <= f * PageSize

(* map_system_defaults *)
SystemDefaults == Identity(KernelRoot, Defaults)

(* init_memory() after alloc(1), which does not zero the kernel's table:   *)
(* the RAM it lies in is assumed to be zero at reset.  Other pages may     *)
(* hold anything that was there before.                                    *)
Init ==
    /\ \E stale \in {NoEntry, [valid |-> TRUE, ppn |-> KernelRoot, rights |-> {}]} :
         tab = [f \in Frames |-> [x \in Idx |-> IF f = KernelRoot THEN NoEntry ELSE stale]]
    /\ use = [f \in Frames |-> IF f = KernelRoot THEN Use("root", f, 0, 0) ELSE FreePage]
    /\ paging = FALSE
    /\ stage = "defaults"
    /\ cur = KernelRoot
    /\ todo = SystemDefaults
    /\ job = NoJob
    /\ done = {}

(* Mutated form: satp is written before the default ranges are mapped. *)
EnablePagingEarly ==
    /\ job = NoJob /\ stage = "defaults"
    /\ \E f \in Frames : FirstFree(f) /\ Take(f, Use("data", 0, 0, 0))
    /\ paging' = TRUE
    /\ stage' = "ready"
    /\ UNCHANGED <<tab, cur, todo, job, done>>

(* The rest of init_memory(): a page for the kernel heap (its others are   *)
(* among KernelPage's), then satp.                                         *)
EnablePaging ==
    /\ Quiet /\ stage = "defaults"
    /\ \E f \in Frames : FirstFree(f) /\ Take(f, Use("data", 0, 0, 0))
    /\ paging' = TRUE
    /\ stage' = "ready"
    /\ UNCHANGED <<tab, cur, todo, job, done>>

(* The device tree and MMIO devices are mapped into the kernel's table,    *)
(* before the processes are created.                                       *)
MapDevice(d) ==
    /\ Quiet /\ stage = "ready" /\ Roots = {KernelRoot}
    /\ todo' = Identity(KernelRoot, <<d>>)
    /\ UNCHANGED <<tab, use, paging, stage, cur, job, done>>

(* A page for a queue or a hart's stack, before there are processes. *)
KernelPage ==
    /\ Quiet /\ stage = "ready" /\ Roots = {KernelRoot}
    /\ Cardinality({f \in Frames : Kind(f) = "data"}) < MaxData
    /\ \E f \in Frames : FirstFree(f) /\ Accessible(f) /\ Take(f, Use("data", 0, 0, 0))
    /\ UNCHANGED <<tab, paging, stage, cur, todo, job, done>>

(* create_dummy_process: a root table and the kernel image. *)
CreateProcess ==
    /\ Quiet /\ stage = "ready" /\ Cardinality(Roots) < MaxRoots
    /\ \E f \in Frames :
         /\ FirstFree(f) /\ Accessible(f)
         /\ Take(f, Use("root", f, 0, 0))
         /\ tab' = Zeroed(tab, f)
         /\ cur' = f
         /\ todo' = Identity(f, Image)
    /\ stage' = "image"
    /\ UNCHANGED <<paging, job, done>>

(* initialize_thread: a page for the trap frame, at its fixed address. *)
MapTrapFrame ==
    /\ Quiet /\ stage = "image"
    /\ \E f \in Frames :
         /\ FirstFree(f) /\ Accessible(f)
         /\ Take(f, Use("frame", cur, 0, 0))
         /\ todo' = <<FrameAt(cur, f)>>
    /\ stage' = "frame"
    /\ UNCHANGED <<tab, paging, cur, job, done>>

(* The stack: its pages, or page 0 and those behind it if there are none. *)
MapStackAt(page) ==
    /\ todo' = <<StackAt(cur, page)>>
    /\ stage' = "stack"
    /\ UNCHANGED <<tab, paging, cur, job, done>>
MapStack ==
    /\ Quiet /\ stage = "frame"
    /\ \/ \E f \in Frames :
            /\ FirstRun(f) /\ \A g \in Run(f) : Accessible(g)
            /\ use' = [g \in Frames |-> IF g \in Run(f) THEN Use("stack", cur, 0, 0)
                                        ELSE use[g]]
            /\ MapStackAt(f)
       \/ /\ \A f \in Frames : ~FreeRun(f)
          /\ MapStackAt(0)
          /\ UNCHANGED use

(* The process is listed and can run. *)
FinishProcess ==
    /\ Quiet /\ stage = "stack"
    /\ stage' = "ready"
    /\ UNCHANGED <<tab, use, paging, cur, todo, job, done>>

(* zalloc(1) of a root table, a trap frame or the kernel heap returns      *)
(* nullptr, which is used, or a page the kernel cannot zero; likewise for  *)
(* the pages of a stack.                                                   *)
AllocFaults ==
    /\ Quiet
    /\ \/ /\ stage \in {"defaults", "ready", "image"}
          /\ NoneFree
          /\ UNCHANGED use
       \/ /\ stage \in {"ready", "image"}
          /\ \E f \in Frames : FirstFree(f) /\ ~Accessible(f) /\ Take(f, Use("data", 0, 0, 0))
       \/ /\ stage = "frame"
          /\ \E f \in Frames :
               /\ FirstRun(f) /\ \E g \in Run(f) : ~Accessible(g)
               /\ use' = [g \in Frames |-> IF g \in Run(f) THEN Use("data", 0, 0, 0)
                                           ELSE use[g]]
    /\ stage' = "fault"
    /\ UNCHANGED <<tab, paging, cur, todo, job, done>>

Next ==
    \/ StartRange \/ MapDescend \/ MapNewTable \/ MapNoMemory \/ MapUnreachable \/ MapLeaf
    \/ EnablePaging \/ KernelPage \/ CreateProcess \/ MapTrapFrame \/ MapStack
    \/ FinishProcess \/ AllocFaults
    \/ \E d \in Devices : MapDevice(d)

Spec == Init /\ [][Next]_vars

-----------------------------------------------------------------------------
(* Properties. *)

(* Types of the tables and of the mapping loop's state. *)
TypeOK ==
    /\ tab \in [Frames -> [Idx -> Entry]]
    /\ use \in [Frames -> Uses]
    /\ paging \in BOOLEAN
    /\ stage \in {"defaults", "ready", "image", "frame", "stack", "fault"}
    /\ cur \in Frames
    /\ todo \in Seq(Ranges)
    /\ job \in Jobs \cup {NoJob}
    /\ done \subseteq Ranges

(* The address spaces the tables stand for. *)
Space == [r \in Roots |-> [p \in VirtualPages |-> Walk(tab, r, p)]]
Spaces == INSTANCE AddressSpaces
            WITH Names <- Frames, First <- KernelRoot, Pages <- VirtualPages, space <- Space

(* The tables implement flat address spaces: a step of map() changes the   *)
(* translation of one page of one space at most, whatever tables it        *)
(* allocates, and a process starts with no translation at all.             *)
ImplementsSpaces == Spaces!Spec

(* The tables are trees: every table hangs from exactly one entry, that of *)
(* its address space and its indices, and every entry above the leaves     *)
(* leads to such a table (or, after a failed allocation, to page 0).       *)
TablesAreTrees ==
    \A f \in Frames :
        /\ Kind(f) = "mid" => tab[use[f].root][use[f].i] = Pointer(f)
        /\ Kind(f) = "low" =>
             LET e == tab[use[f].root][use[f].i]
             IN  e.valid /\ e.ppn \in Frames /\ tab[e.ppn][use[f].j] = Pointer(f)
        /\ Kind(f) \in {"root", "mid"} => \A x \in Idx :
             LET e == tab[f][x]
                 u == IF Kind(f) = "root" THEN Use("mid", f, x, 0)
                      ELSE Use("low", use[f].root, use[f].i, x)
             IN  \/ e = NoEntry
                 \/ e.ppn \in Frames /\ e = Pointer(e.ppn) /\ use[e.ppn] = u
                 \/ e = Pointer(0) /\ stage = "fault"

(* Of the allocator's pages, user mode reaches the stack of its own        *)
(* process only: no table, no trap frame, no page of another process.      *)
UserPagesPrivate ==
    \A r \in Roots, p \in VirtualPages :
        LET e == Walk(tab, r, p)
        IN  e.valid /\ "U" \in e.rights /\ e.ppn \in Frames =>
              use[e.ppn] = Use("stack", r, 0, 0)

(* A range stays mapped: each of its bytes goes to the byte it was mapped  *)
(* to, with the rights asked for, whatever is mapped later.                *)
RangesStayMapped ==
    \A d \in done : \A b \in d.start..(d.end - 1) :
        LET e == Translate(d.root, b \div PageSize)
        IN  /\ e.valid
            /\ (e.ppn * PageSize) + (b % PageSize) = d.phys + (b - d.start)
            /\ d.bits \subseteq e.rights

(* The kernel faults in building address spaces only when memory has run   *)
(* out: every page of the heap (the first of the default ranges) is in     *)
(* use.                                                                    *)
FaultsOnlyWhenFull ==
    stage = "fault" =>
        \A f \in Frames :
            /\ Defaults[1].start <= f * PageSize
            /\ (f + 1) * PageSize <= Defaults[1].end
            => ~Free(f)

=============================================================================
