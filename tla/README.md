# Formal models of the MatteOS kernel

MatteOS is a small RISC-V (Sv39, supervisor mode) operating system kernel in
C++.  This directory holds TLA+ modules for the parts of it that keep state and
can go wrong in ways a test hardly reaches, TLC configurations that check them
on small instances, and TLAPS proofs for every value of the constants.  Paths
below are relative to `src/src/`.

## 1. The system

One hart runs everything.  `kmain` (`Kernel/Init.cpp`) sets up memory, devices,
drivers, the root file system and two processes, arms the timer and enters user
mode.  From then on kernel code runs only inside traps, with `sstatus.SIE = 0`
from trap entry to `sret`: trap handlers never nest and never interleave with
each other.  What runs beside them is hardware (UART, VirtIO block device,
timer) and, between traps, one user thread at a time.

| Component | State | Operations | Interacts with |
|---|---|---|---|
| Scheduler (`Process/Scheduler.cpp`, `Utils/Arrays/Queue.h`) | run queue, current pid and tid | `schedule`, `start_scheduling`, `prepare_for_switch` | called by the timer handler and by a blocking call |
| Process manager (`Process/ProcessManager.cpp`) | processes, thread states, trap frames | create, `block`, `unblock`, current thread | console device unblocks, `handle_read` blocks |
| Trap and system call layer (`Arch/riscv64/Interrupts`, `Syscalls`) | trap frames | timer, external interrupt, system call | everything |
| Console device and UART driver (`Devices/Console`, `Drivers/Console`) | characters of the open line, complete lines, contexts of waiting readers | `handle_interrupt`, `read_async` | UART FIFO, process manager |
| VirtIO queue (`Devices/Device.cpp`) | descriptors, available and used rings, indices | `add_to_queue`, `add_to_available`, `get_next_used_descriptor` | shared memory with the device |
| Block driver and device (`Drivers/Storage/VirtIO`, `Devices/Storage`) | requests, ignored requests, callbacks | `read_poll`, `write_poll`, `read_async`, `write_async`, `notify` | FAT file system above, VirtIO queue below |
| Kernel heap (`Memory/KernelMemoryAllocator.cpp`) | one pool of blocks with headers | `kmalloc`, `kfree`, `coalesce` | every `new` and `delete` |
| Page allocator (`Memory/MemoryManager.cpp`) | one status byte per page | `alloc`, `zalloc`, `dealloc` | page tables, stacks, heap, queues |
| Page tables (`Memory/MemoryManager.cpp`, `PageTable.cpp`) | three-level tables | `map`, `map_range`, `translate` | page allocator, `Userspace` |
| Context switch (`Arch/riscv64/trap.S`) | satp, sscratch, saved registers | trap entry and exit | trap frames |
| Files (`FileSystem/*`) | mounts, open file table with opener counts, descriptor tables | `open`, `read`, `close`, path walk | RAMFS, FAT |
| FAT and block cache (`FileSystem/FATFS`, `BlockBackedFileSystem.h`) | cached blocks, cluster chains, directories | mount, `read_block_poll`, `read`, `get_child`, `list_dir` | block device |
| Device tree (`Firmware/`) | nodes with properties | `parse`, `find_node`, `find_nodes`, `find_property` | read by every driver at boot |
| Device and driver registry, VirtIO start-up, PLIC (`Devices`, `Drivers`, `System`) | devices, drivers, registers, enable bits | `kmain` in order, the VirtIO handshake, delegation of interrupts | device tree, block and console devices |
| Logger and formatter (`Logger.cpp`, `Utils/Strings/Formatter.cpp`) | output, console, circular buffer | `log`, `format`, `print_logfile` | console, `dmesg` |
| Library (`Utils/`) | reference counts, raw storage, linked cells, shared characters | `RefPtr`, `ArrayList`, `Array`, `Optional`, `ErrorOr`, `LinkedQueue`, `LinkedList`, `String`, `StringView` | everything |
| ELF loader, module interface | | not called | |

What is hard: a blocking call that is retried rather than resumed; wake-ups
that race with reads of other threads; a scheduler loop that only another
thread can end; rings shared with a device that answers in any order; request
memory reused while the device may still write to it; indices that wrap at
different moduli; allocators whose every later step trusts one header or one
mark; a trap path whose pointers work under one page table only, exchanged
half-way; a device tree of which the end is not read, and devices that refuse
in the middle of a handshake; references counted by hand in raw storage.  `PROJECT.json` lists these hazards at their lines with the properties
that would catch them.

## 2. Modules

### KernelCore, ConsoleStream, MCKernelCore, KernelCoreProofs

`KernelCore` composes scheduler, process manager, trap layer, console device,
UART driver and the two user programs.  Every trap handler is one action,
because the kernel is not interrupted:

| Action | Code |
|---|---|
| `StartScheduling` | `Scheduler::start_scheduling`, the last call of `kmain` |
| `TimerInterrupt` | `handle_timer_interrupt`: `schedule`, `set_timer` |
| `ExternalInterrupt` | claim, `ConsoleDevice::handle_interrupt` (driver first, then wake the waiters and reset the list), complete |
| `SysReadLine`, `SysReadBlock` | `handle_read` through `File::read`, `DevInode::read`, `read_async`: with a line, and without one |
| `SysOpen`, `SysPlain` | the calls that return at once |
| `UserBranch` | a program looks at its result |
| `KeyPress` | the UART receives a character (hardware) |

A thread is named by its pid.  `pc` is the saved `sepc` as a point of the
program; a blocked read leaves it on the ecall, so the call is made again.
`Schedule` is `schedule()` as one step: the number of `rotate_left` calls is
the first k whose head is Running; if there is none, the loop never ends and
the mode becomes `"spin"`, in which nothing is enabled but the keyboard.
`requests` holds the pid of each context in `m_requests`.  `delivered` is a
history variable.

`ConsoleStream` is what a terminal promises: one stream of characters, each
read takes the text up to the next carriage return, cut to the buffer's size.
`ImplementsTerminal` says that `KernelCore` implements it: the stream is the
concatenation of `m_lines`, `m_buffer` and the UART FIFO.

### BlockIO, MCBlockIO, DeviceProofs

The driver's and the device's side of one VirtIO queue, the requests in kernel
memory and the callbacks above.  The kernel is one sequential process whose
place is `op`; the device's three steps (take a chain, write the status,
publish the used element) interleave with each of its steps, in particular
with the busy wait of a poll and with `notify()`'s loop.  A request is its
address; addresses are reused after `delete`.  The ring's slots, the
acknowledgement and the two u16 indices keep their moduli.  Device memory is
assumed sequentially consistent: the build is `-O0`, and the busy wait re-reads
the status byte.

The properties hold up to the first poll that fails (`NoPollFailed`).  A poll
method that sees a failure deletes its request without entering it in
`m_ignored_requests` (`BlockIODriver.cpp:127`, `:149`); the device still
publishes the request's used element, and what `notify()` then reads and
deletes depends on who has reused that memory.

Two guards are assumptions on the callers, not code: at most `MaxRequests`
operations, and an operation starts at most `Window` ahead of the oldest one
that notify() has not acknowledged.  The driver has no such check: with a third
of the ring or more outstanding it overwrites descriptors in use, and after
`RingSize` completions the acknowledgement is wrong for ever (run `block_wrap`).
Within them (`3 * Window <= RingSize`, `MaxRequests < RingSize`) the passing
run and the proofs show the protocol right.

### KernelHeap, MCMemory, MemoryProofs

`kmalloc`'s first-fit walk, `kfree` and `coalesce`, one header per step.
Offsets are bytes, sizes include the 8-byte header.  When no block fits, the
loop's bound (`KernelMemoryAllocator.cpp:44`) lies eight pool lengths away, and
the walk goes on through whatever follows the pool; `SearchLeavesPool` has
every outcome of that: `nullptr`, memory outside the pool, or a walk that
stands still on a zero word (`"hung"`).  `Statistics` is `get_statistics`, whose
walk has the right bound, and `IsInFreedMemory` the test of the same name;
`StatisticsRight` compares both with what the callers hold (`Reserved`).  `coalesce` merges
each free block with at most one neighbour per pass; `AtMostOneGap` says how
much fragmentation that leaves.

### PageAllocator, MCMemory, MemoryProofs

The status table with first fit.  The table is modelled with the bytes behind
it that `alloc`'s inner loop can read and mark; they hold anything at the
start.  `held` is what callers hold.  `MCMemory` runs the heap or the pages in a behaviour.

### OpenFiles, MCOpenFiles, OpenFilesProofs

| Code | Model |
|---|---|
| `FileSystem::m_open_files` of all file systems | `table`: node to descriptor number and `m_number_of_openers` |
| `OpenFileDescriptor` objects made | `made` |
| `Process::m_fd_table`, `File::m_offset` | `fds` |
| directory clusters in the block cache | `cached` |
| `VirtualFileSystem::m_root_inode` | `rooted` |
| null dereference, which ends in `kernel_panic` | `mode = "fault"` |

A path is the sequence of its parts, a node a file system and a relative path.
`Resolve` is the mount lookup of `VirtualFileSystem::open`.  The walk of
`FileSystem::open` is given by the number `k` of turns it makes: `Walked(n, k)`
is the open file table after them, with the opening of each component and the
closing of every component below the first (`FileSystem.cpp:60`).  A walk ends
at the last part (`OpenWalk`), at a part that is missing or no directory
(`OpenMissing`), at a directory the device cannot read (`OpenUnreadable`; a
cluster once read is cached and cannot fail) or in a fault (`OpenFaults`).

`HashMap` is modelled by what its two inverted loops do: `set` on an occupied
bucket faults (`HashMap.h:78`), `remove` leaves the map as it is
(`HashMap.h:93`).  The second is what lets a path of two parts be opened: its
descriptor has no opener left when the walk looks it up.  `handle_close` empties
the slot and does not tell the descriptor, so counts only grow; `OpenersCoverFiles`
states how far they can be trusted.  The volume is sound: what `list_dir` lists,
`get_child` finds, and cluster chains are as long as the file.  Nodes form
trees: what lies above a node is a directory (`TreeAssumption`), and the mount
lookup cuts a path into parts, of which the empty one is a root directory
(`RootAssumption`).

### PageTable, AddressSpaces, MCPageTable, PageTableProofs

| Code | Model |
|---|---|
| pages of the allocator, read as tables | `tab`: page to index to entry |
| status bytes of the page allocator | `use`, with a history of what each page was taken for |
| satp | `paging` |
| the loop of `map_range` with the loop of `map` in it | `job`: one turn of `map`'s loop is a step |
| calls of `identity_map_range` still to be made | `todo` |
| null or unmapped pointer used, which ends in a panic | `stage = "fault"` |

`map` goes down into a table (`MapDescend`), takes and zeroes a page for one
(`MapNewTable`), enters page 0 when there is none (`MapNoMemory`) or writes the
leaf (`MapLeaf`; `set_bits` only adds rights).  Once paging is on, a table can
be read and written only if the kernel's own table maps its page to itself
(`Accessible`, which is what the hart does); otherwise the kernel faults
(`MapUnreachable`).  The callers are boot (`EnablePaging`), the device tree and
MMIO devices (`MapDevice`), pages for queues and hart stacks (`KernelPage`) and
`create_dummy_process` from root table to stack.  Nothing is ever unmapped.

The kernel's root table is taken with `alloc`, not `zalloc`: that its page is
zero at reset is an assumption of `Init`.  Other pages may hold valid-looking
entries at the start.  The TLB is the subject of `TrapContext`.

Three assumptions on the constants say where things lie.  `AddressAssumption`:
every page that is mapped has three indices (Sv39), and the two fixed addresses
are those of pages (`THREAD_FRAME_ADDRESS` 0x1000, `STACK_ADDRESS` 0xf0000000,
`ProcessManager.h:17`).  `LayoutAssumption`: `map_system_defaults` and the
devices ask for no user rights; in a process the image, linked at 0x80000000,
the trap frame and the two stack pages lie apart; the allocator's pages begin
behind the image, so that neither the image nor page 0, where a stack that
could not be allocated is mapped, is among them.  `HeapAssumption`: the
allocator's pages lie side by side from the heap's start on, `init_memory()`
takes the first of them for the kernel's table, and the heap is the first range
of `map_system_defaults`, writable.

`AddressSpaces` is what the memory manager promises: a flat function from
virtual pages to translations per space, of which a step changes one page.

### TrapContext, ThreadContexts, MCTrapContext, TrapContextProofs

`m_trap_vector` block by block, from `csrrw t6, sscratch` to `sret`, with
`switch_to_user` and the creation of threads before it.  A block reaches a trap
frame through a base pointer, and `Touches` says which frames that can be: the
alias 0x1000 works under a process's table, the frame's kernel address under
the kernel's, and a translation of the alias that the TLB still holds (all
processes share ASID 1) gives another thread's frame.  `frame[t].satp` is the
dual slot that block 3 and block 9 exchange with satp.

| Action | Code |
|---|---|
| `SaveContext`, `EnterKernel`, `LoadKernel` | blocks 1-2, 3-4, 5-7 of `trap.S` |
| `HandleSame`, `HandleSwitch`, `HandleCall` | `handle_interrupt` by cause: same frame; another thread picked; a result in `a0` and `sepc` moved |
| `RestoreCsrs`, `LeaveKernel`, `RestoreContext` | blocks 8, 9-10, 11 |
| `CreateProcess`, `SwitchToUser` | `initialize_thread`; `start_scheduling` and the end of `trap.S` |
| `UserStep`, `Trap` | the program, the hardware |

Which thread `schedule()` picks is `KernelCore`'s subject; here it is any.
`exit` is a call like the others, as in the code: it marks the process Dead,
which nothing reads, and its thread goes on.  `ThreadContexts` is the promise:
each thread owns its registers and pc, which only it and the results of its own
calls change.  `asking` there is the thread whose call is being served: no other
thread gets a result (`Answer`), none goes on before the call is answered, and a
call that blocks leaves its thread at the call (`PutOff`), to make it again.

### FatVolume, MCFatVolume, FatVolumeProofs

Mounting, `read_block_poll` with the cache, `get_fat_entry`, `FATInode::read`
(one action per block access, for each can hit, miss or fail), `get_child` and
`list_dir`.  The volume is never written, so a block is known by the sector it
was read from and a byte by its disk address: the geometry is real (more than
65525 clusters), and no content is enumerated.  `asked` is a history of what
`read_block_poll` asked of the device, and whether it was served: `CacheCoherent`
says that the cache holds exactly the blocks that were served, each as the disk
has it at its number, and that a block once served is not asked for again
(`BlocksReadOnce`).  Both rest on `evict_block` doing nothing (the limit of 16
blocks is not enforced, `BlockBackedFileSystem.h:54`); the run stays below the
limit, the theorem is for any number of accesses.  Directory entries keep the
bits the code looks at; `is_long_name` tests the read-only bit because of
the precedence of `==` (`FAT.h:122`), and the end of a long name is any entry
with bit 6.  The `SoundDisks` have file areas that begin on a block: the
constructor's integer division loses the rest otherwise (`FATFileSystem.h:46`).

### FdtParser, DeviceBringUp, MCDeviceBringUp

`FdtParser` is `parse_node` as a state machine over the words of the structure
block with an explicit stack of calls, and the lookups.  The loop's limit is
the code's (`FDTParser.cpp:60`: an offset from the header compared with the
size of the block), so the end of a tree is missed; `ParsedTreeExact` says
precisely how much.  Words are in the hart's byte order, and names of
properties stand for their offsets into the strings block.

`DeviceBringUp` extends it to `kmain`: the VirtIO slots and the eight steps of
`VirtIODevice::init` (the device may take back FEATURES_OK or have a queue too
small), the console, matching and loading of drivers with the writes that set
the UART up, the root file system, PLIC and delegation, console lookup, timer,
scheduler.  A singleton used before its `init()` is a fault, because the
assertion of `the()` goes on.  `stage = "fault"` is also reached where the code
follows a pointer it does not have: the PLIC's base without `/soc/plic`, the
time base, the name of a node that was cut off, the queue of a disk that
refused.  `BootCompletes` lists these and no others.

### Ownership, LinkedChains, ElementSequences, KernelLog, Strings, MCLibrary, MCLinkedChains

The library, one module per idea; `MCLibrary` runs one of them in a behaviour,
`MCLinkedChains` the linked containers.

`Ownership`: memory is a function from slots to what they hold, and every
operation of `ArrayList`, `Array`, `Optional` and `ErrorOr` is the sequence of
`RefPtr` constructions, assignments and destructions its code makes.
`RefPtr::operator=` releases the old object before it reads the new one
(`RefPtr.h:47`); the code's walkers (`entry = entry->next`) hold the old object
by another reference, which `HeldElsewhere` asks for.  A moved-from list is not
added to (its `grow()` would stay at size 0).

`LinkedChains`: the cells of `LinkedQueue` and `LinkedList`, pointer by
pointer, implementing the plain sequences of `ElementSequences` (proved in
`KernelCoreProofs`).  `ImplementsSequences` asks for more than steps of the
abstract specification: by `CallAsNamed` each call is the operation of its own
name, with its own arguments.  `LinkedList::remove` never reaches its index and
leaves the list as it is; the abstract specification has no such operation, and
by name it is a step that changes nothing.

`KernelLog`: `format()` with its escapes and flags, `itoa`, the logger's
outputs and the circular buffer, against what the message means.  Messages are
shorter than the buffer (`KernelLogAssumption`): `write()` does not test it.

`Strings`: which `String`s and `StringView`s share a `StringValue`, which `+=`
changes in place, and `split`, comparison and `atoi` against reference
definitions.  `split` drops what follows the last separator when that ends the
string, so `ReadRight` speaks of paths that do not end in one.

## 3. Runs

| Run | Instance | Shows |
|---|---|---|
| `kernel` | 3 threads (2 readers), 2 characters and the carriage return, 3 key presses, FIFO of 2, buffers of 2 bytes | `WakeupsKept`, `DispatchesRunnable`, `ResultMatchesBuffer`, refinement `ImplementsTerminal`, liveness `EveryLineRead`, `NoStarvation` |
| `traps` | 2 threads, 2 versions of every register, 2 program counters | `OwnFrameReached`, `HandlerEnvironment`, refinement `ContextsKept` |
| `block` | ring of 8, 2 addresses, 4 requests, 2 ids, window 2, polls may fail | `RequestMemoryOwned`, `AnswersReported`, `NothingLeaks`, liveness `EveryRequestEnds` |
| `memory` | pool of 13 words, blocks of 2, 3 and 5 words; 7 pages, runs of up to 3 | `BlocksSeparate`, `AtMostOneGap`, `StatisticsRight`, `HeldBlocksKept`, liveness `LoopsEnd`; `PagesAccounted`, `DeallocExact` |
| `tables` | tables of 4 entries, 64 virtual pages of 2 bytes, 40 pages of which the last two lie behind the heap, kernel and 2 processes | `UserPagesPrivate`, `RangesStayMapped`, `TablesAreTrees`, `FaultsOnlyWhenFull`, refinement `ImplementsSpaces` |
| `files` | 2 processes with 2 slots, `/etc/passwd` of 2 bytes, `/dev/tty0`, 6 paths of which 2 do not exist, reads of 0, 1 and 3 bytes, 2 openers | `SharedDescriptor`, `OpenersCoverFiles`, `ExistingPathOpens`, `FdKeepsItsFile` |
| `fat` | 5 disks of 2 or 8 sectors per cluster, chains of up to 4 clusters, 12 reads, 5 block accesses | `ReadReturnsFile`, `CacheCoherent`, `LookupAndListAgree` |
| `boot` | one tree cut at each of its words, 4 boards with other devices, 5 other trees | `ParsedTreeExact`, `HandshakeKept`, `InterruptsReachDevice`, liveness `BootCompletes` |
| `library` | 2 objects, 2 variables, 2 containers of up to 2 elements; a log of 18 characters; 2 strings of up to 3 characters | `ReferencesOwned`, `LogFaithful`, `StringsAreValues` |
| `chains` | 2 queues or 2 lists of 2 elements in 4 cells | refinement `ImplementsSequences` |
| `block_wrap` | ring of 4, 4 polls | violates `UsedElementsOnce`: finding 1 |
| `files_collide` | the paths `/` and `/etc` | violates `OpenAddsToTable`: finding 2 |

Bounds.  Two readers and one worker are the smallest instance in which one line
wakes two waiters of which one gets it while a third thread holds the hart;
buffers of two bytes are cut by a line of two characters, and a FIFO of two
holds a carriage return and the beginning of the next line.  Two threads are
enough for a frame of another thread to be reached, and two register versions
for a wrong one to be seen.  A ring of 8 with three slots per request is gone
round by four requests; two addresses are enough for reuse while another
request is open.  13 words hold up to six blocks, with all three relations of a
rest to the header size (none, one header, more).  Seven pages hold three
blocks and a run that crosses the end of the table.  Two slots are enough for a
full table and for a slot that is reused while another is open; paths of zero
to three parts meet every way a walk can end, and the buckets are those of
djb2.  Tables of four entries make every process need several tables of each
level, bytes of two per page let sections end inside a page that the next one
shares, and 40 pages are enough for one process or for two, depending on how
many the kernel takes for itself, so that memory runs out at every point of the
second.  The disks have chains inside one block of the FAT, across its sectors
and blocks, backwards, and too short for the size in the directory; offsets
and buffers meet the boundaries of both cluster sizes; five block accesses are
a read of two clusters and the begin of another over the cache it left.  The
device tree has names and values of every length modulo 4 and values that look
like tokens, and the cut falls on each word of it.  Lists start with one
element of room, so that two grow; four cells let one queue be copied over
another; 18 characters hold two messages of some kinds and one of others.

Deadlock is checked in `kernel`, `traps` and `chains`.  The block and FAT runs
end after their bounded number of requests or accesses, the heap has the
real state `"hung"`, in the file runs a fault stops the kernel, the table runs
end when the processes are built, a boot may end in a fault or on a board
without interrupts, and the library's bounds end its runs.

Fairness.  `KernelCore`: weak fairness of boot and of the two interrupts (a
pending enabled interrupt is taken when user mode is entered), strong fairness
per thread (a dispatched thread owns the hart for 100 ms, so one that is
dispatched again and again executes).  No fairness on the keyboard.
`BlockIO`: the hart goes on with what it has begun, and the device serves its
queue.  `KernelHeap`: the hart executes the loop it is in.  `DeviceBringUp`:
`kmain` goes on (weak fairness of its steps); device interrupts are not obliged
to come.  The other specifications state no fairness and have no liveness
property.

## 4. Proofs

`KernelCoreProofs`, the core.  `AlwaysSafe` proves `[]Safe`; `TypeCorrect`,
`NoLostWakeup`, `SchedulerReturns` and `ReadResult` follow from it.  `Safe` is
the conjunction of the type invariant, of the invariants the runs check and of
`OwnProgram` (a worker never reaches a reader's program point, so it is never
Blocked) with the fact that every thread is in the run queue.  The latter two
are what makes `NeverSpins` (in `DispatchesRunnable`) inductive: some worker exists (`SomeWorker`), it is
Running and the rotation reaches it (lemmas `Rotation`, `WorkerRuns`,
`Scheduling`).  There is one lemma per action that disturbs something.
`TerminalImplemented` is the refinement of `ConsoleStream`: a key press appends
to the stream, a trap moves characters between the FIFO, the open line and the
lines without changing their concatenation, and a read takes the first line.
The lines are concatenated by the community modules' `FlattenSeq`, whose
equations are lemmas of `SequenceFacts`.

`KernelCoreProofs`, the containers.  `Sound` says that the cells in use are those
of the two containers, each in one of them and once, that the links of a
container run through its cells from head to tail (`Linked`), back as well for a
list, and that its ends are the first and the last of them.  The abstraction walks
from the head; `ChainIs` shows that it finds just these cells, by induction on the
way still to go.  What an operation does to the links is first stated cell by cell
(`Appended`, `Prepended`, `Popped`, `Turned`), then shown to give the cells of the
longer, shorter or turned sequence, with the other container untouched
(`PairUpdate`).  A copy is an induction over the cells copied so far (`CopiedTo`),
each step of which is an append into room that is left.  `ChainsImplemented` maps
every call to the operation of `ElementSequences` it is named for, and states so:
`NamedStep` is `CallAsNamed` for each step.

`MemoryProofs`, the heap.  The inductive invariant adds to `Tiling` that every live
address lies behind a taken header whose size covers the request, and that a
cursor stands on a header or at the end of the pool.  `HeapTiled`,
`HeapNoOverlap`, `HeldNeverFreed` and the action property `HeapKeepsHeld`
follow.  `FragmentationBounded` (`AtMostOneGap`) needs more, since `AtMostOneGap`
is lost inside every call and kfree adds up to two adjacent pairs of free
blocks: `FewGaps` weighs the pairs that are left by where the cursor of
`coalesce` stands, and is inductive.  For `StatisticsExact` the walk of `get_statistics` is
a sum along the tiling (`WalkSum`): it ends at the end of the pool and not
before, every header counts once, and the used ones have room for what their
callers hold (`HeldRoom`).

`MemoryProofs`, the pages.  The three parts of `PagesAccounted` are inductive
together with the types: a run that alloc finds free meets no block because a
block's pages are marked, and dealloc clears exactly what its block covered.
`PagesDisjoint` and the action property `DeallocFreesBlock` follow.

`OpenFilesProofs`.  The inductive invariant is `TypeOK`, `SharedDescriptor` and
`OffsetsInFile`.  `WalkedTable` and `WalkToGrows` show for any number of turns
that the open file table only grows and that a listed node keeps its descriptor
(here it is used that `remove` removes nothing); `InstallSlot` that a slot in use
is not touched; `OpenStep` puts the ways of `handle_open` together.
`DescriptorsAreShared`, `OffsetsStayInFile` and the action property
`FdsKeepTheirFiles` follow, for every tree, every assignment of buckets and any
number of processes and slots.  `OpenersCover` counts: the slots that hold a node
(`Holders`) are compared with the node's opener count as finite sets, one step of
the walk at a time; a node below the root of its file system has taken back one
opener for good.  The action property `ExistingPathsOpen` shows that a walk to a
node of the tree passes every directory above it, whatever the table holds.

`PageTableProofs`.  The inductive invariant `IInv` adds to `TablesAreTrees` that
a table belongs to the space of an existing root (`UsesFit`), that the loop of
`map()` stands in the table above the page it maps (`JobFits`) and that ranges
wait for existing spaces only (`TodoFits`).  With it, `TablesStayTrees` holds in
every state.  `WalkLow` then turns a walk of three levels into a look at the one
table of leaves of that space and those indices, or at none; from it
`WalkKept` says when a page keeps its translation, `NewTableSpaces` and
`NoMemorySpaces` that entering a table changes no translation, `LeafMaps` that a
leaf changes one, and `CreateSpaces` that a zeroed root translates nothing.
`TablesImplementSpaces` puts them together into the refinement, for every size
of tables and pages, every set of pages and every list of ranges.

On top of it `WorkFits` says what may be mapped when: a range of the kernel's
space is one of the defaults or a device, a range of a process is the image, its
trap frame or its own stack, in that order of stages; and any two ranges of a
space `Agree`, that is, send a page they share to the same place (identity
mappings do, and the others lie apart).  `Progress` adds that every page of a
range that is done, and every page the loop of `map_range` has passed, is mapped;
a later leaf overwrites a translation only with the same one, by `Agree`, and
with more rights.  `RangesRemainMapped` turns pages into bytes.  `UserFits`
says that a translation with the user bit was asked for by a range with it
(`KnownKept`: no range is forgotten), and the ranges with it lead to the image or
to the process's own stack: `UserPagesStayPrivate`.  For `FaultsNeedFullHeap` the
free pages are the last ones (`FreeLast`: first fit, nothing is released) and the
heap's range is mapped when satp is written (`HeapFits`): a page that cannot be
reached lies behind the heap, and when it is taken everything before it is.

`TrapContextProofs`.  `TrapInv` says for every block of `m_trap_vector` which
table is active, what the TLB may still hold, which pointer each block relies on
and what the dual slot of every frame holds; `OwnFrameReached` alone is not
inductive, because it does not say what the exchanges of block 3 and 9 will find.
`OwnFrameAlwaysReached` and `HandlersInKernel` follow, for any number of threads.
`TrapPathKeepsContexts` maps a thread's context to its registers while it runs,
to its frame while it does not, and in between to the part that is already
saved or restored; a block of the vector changes no thread's context, and a
switch of threads during a call is `PutOff`.

`FatVolumeProofs`.  `FatInv` says of a read in progress where in the chain it
stands (`Skipping`, `Copying`, `Advancing`) and that what was copied is the
file's; cluster numbers are turned into blocks and back with lemmas on division.
`CacheStaysCoherent` and `ReadsReturnFile` follow for every disk of the shape
`DiskAssumption` names: file areas that begin on a block, and chains whose
clusters lie in the volume and in the FAT.  For the history of
requests `AskedInv` says that the numbers served are the numbers cached; a request
is made on a miss only (`AskedLater`), so the cache is exact and no
block is read twice.  `DirectoryAnswersRight` is about the
directories the code handles (`Supported`: one cluster, long names of at most
one entry, nothing read-only), of any number of files and any size of cluster:
the slots of a directory are the concatenation of its files' entries (`Layout`),
both loops go over them file by file, and at the end of a file's entries they
have found, or listed, what the files so far hold.

`DeviceProofs`, the queue.  The theorems have the hypothesis `CallersKeepWindow`, what the
driver leaves to its callers (section 2).  `QueueInv` gives every ring slot and
index as a function of the operations so far (`Place`), for any ring size;
`MemoryInv`, `IgnoredInv` and `ReportInv`, which hold until a poll fails, relate
requests, descriptors and reports to operations.  The window is what keeps the
descriptors of two open operations apart, and fewer operations than elements
what keeps the acknowledgement in step with the device's index
(`UsedElementsHandedOnce`).  `RequestsStayOwned`, `AnswersAreReported` and
`RequestsAreFreed` follow, all of them within the window and until a poll fails:
they do not speak of a driver whose callers overrun the ring.

`DeviceProofs`, the boot.  `HandshakeRight` holds for any number of slots and
whatever the devices answer.  Its invariant `Handshake` says that a slot is
probed once (`Unprobed`, `Placed`; the tree lists an address once where
`SlotsListedOnce` holds, and otherwise the property promises nothing), that
devices have addresses and queues of their own (`Apart`, `OwnQueues`), what the
registers of a live device hold (`LiveReady`), and how far the handshake of the
device under way has come (`InProgress`): registers are written only for the
device that was made last.  For `InterruptsRight`, `Reach` says that what is
registered lies at a node of the tree (`Homes`), that every line enabled at the
PLIC is the line of a registered device (`Lines`), and how console, log and
`/dev/tty0` get to the same device (`OneConsole`, `ConsoleSetUp`, `Logged`).

`SequenceFacts` holds the lemmas on sequences that these proofs share: what
`FlattenSeq` gives for an empty sequence, an appended element and a tail, sums
of strides, and induction over the natural numbers for a set (`Induction`, from
the least element of what is left).  The library's induction theorems take an
operator, which the provers cannot instantiate; with a set in its place they
need not.

The assumptions are those the modules name (`CoreAssumption`, `SomeWorker`,
`HeapAssumption` of both modules, `PageAssumption`, `FileAssumption`,
`RootAssumption`, `TreeAssumption`, `TableAssumption`, `AddressAssumption`,
`LayoutAssumption`, `ChainsAssumption`, `ContextAssumption`, `DiskAssumption`, `BlockAssumption`,
`BoardsAssumption`), which TLC evaluates for the instances.

Only model-checked: the liveness properties (`EveryLineRead`, `NoStarvation`,
`EveryRequestEnds`, `LoopsEnd`, `BootCompletes`), which this prover does not
reach; `ParsedTreeExact`, where a parser of words is compared with a reference
tree; and of the library `ReferencesOwned` (deleting an object releases its
member, so one release is a recursion over the objects), `LogFaithful`
(`format()` and `itoa` are recursive) and `StringsAreValues` (`split` and `atoi`
against reference definitions).

## 5. Findings

1. The acknowledgement index is kept below the ring size while the device's
   used index runs to 65535: after 128 completions `get_next_used_descriptor`
   never again reports that nothing is available, and `notify()` does not return
   (`Device.cpp:116`, `:124`; run `block_wrap`).
2. `HashMap::set` follows a null pointer when the bucket of a new key is taken,
   so opening `/etc` while `/` is listed panics the kernel (`HashMap.h:78`; run
   `files_collide`).

Other places where the model had to take in what the code does rather than what
it is called: a failed poll deletes a request the device still reports
(`BlockIODriver.cpp:149`); the assertion at the end of
`OpenFileDescriptorTable::close` demands one reference where there are at least
three (`OpenFileDescriptor.cpp:53`, definition `CloseAssertion`); the device
tree's end is missed (`FDTParser.cpp:60`); a disk that refused the handshake is
polled without a queue (`Init.cpp`, `VirtIODevice::init`); read-only files and
names of more than one entry are misread in FAT directories (`FAT.h:122`); the
block cache keeps duplicates and evicts nothing (`BlockBackedFileSystem.h:54`).

## 6. Not modelled

- The ELF loader and the module interface: unfinished and not called (`load()`
  stops after validation, `get_section_header` has no definition).
- `Memory/VirtualMemory`: declarations without a caller.
- Traps from kernel mode.  Interrupts are off in the kernel; a fault there
  enters `m_trap_vector` with a user's `t6` in sscratch and does not come to
  `kernel_panic` (the FIXME at `Init.cpp:70`).
- SBI calls, CSR access, output to the UART, the early debug console, command
  texts.
- What has no caller: `kzmalloc`, `close_all`, `ErrorOr::operator=` (its test
  is inverted, `ErrorOr.h:146`), `LinkedList` move assignment, `Shared`,
  `Unique`, `Variant`, `StringBuilder`, UTF-16 conversion, and what the code
  answers with "Not implemented" (writing and creating files, unmounting).
- The array cookie of `new T[n]`, which `Array` does not hand to `kfree`
  (`Array.h:28`, `:48`): its blocks leak.
- `itoa` of 64 binary digits, which needs 65 characters of its 64
  (`Formatter.cpp:35`); the kernel prints no such number in base 2.

## 7. Plan

1. Proofs about the rest of the library: who owns a reference, and the strings.
2. Proofs about the device tree parser, up to where the end of the tree is
   missed.
3. The life cycle of processes, once the code has one.
