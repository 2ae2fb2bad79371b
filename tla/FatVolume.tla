----------------------------- MODULE FatVolume -----------------------------
(***************************************************************************)
(* A FAT32 volume as MatteOS reads it: mounting (FATFileSystem), the block *)
(* cache (BlockBackedFileSystem), reading a file along its cluster chain   *)
(* and looking up and listing a directory (FATInode).                      *)
(*                                                                         *)
(* The volume is never written (every write is "Not implemented"), so a    *)
(* block of data is known by the disk sector it was read from, and the     *)
(* bytes a read copies by their disk addresses: geometry and offsets are   *)
(* the real ones, and no content is enumerated.  Each block access is one  *)
(* step, for each can find the block in the cache, fetch it or fail.       *)
(***************************************************************************)
EXTENDS Integers, Sequences, SequencesExt

CONSTANTS
    Disks,      \* the disks: boot sector, a file's chain and size, root directory
    Names,      \* names that are looked up
    Offsets,    \* file offsets of the reads
    Sizes,      \* buffer sizes of the reads
    MaxBlocks   \* bound on the block accesses of a behaviour

SectorBytes == 512          \* bytes_per_sector
EntryBytes == 4             \* sizeof(FAT::FATEntry)
DirEntryBytes == 32         \* sizeof(FAT::DirectoryEntry)
FirstEndMark == 268435448   \* 0x0FFFFFF8
EndMark == 268435455        \* 0x0FFFFFFF

(* The numbers of a boot sector the reads use.  The data area begins on a  *)
(* block: the constructor's division drops the rest otherwise.             *)
SoundBoot(b) ==
    /\ b.sectors_per_cluster \in Nat \ {0}
    /\ b.reserved_sectors \in Nat /\ b.fat_count \in Nat
    /\ b.sectors_per_fat32 \in Nat /\ b.root_cluster \in Nat
    /\ (b.fat_count * b.sectors_per_fat32) % b.sectors_per_cluster = 0

(* A cluster chain: data clusters below the end marks, no cluster twice,   *)
(* each with its entry in the FAT.                                         *)
SoundChain(b, c) ==
    /\ c \in Seq(2..(FirstEndMark - 1)) /\ c # <<>>
    /\ \A i, j \in DOMAIN c : c[i] = c[j] => i = j
    /\ \A i \in DOMAIN c : c[i] * EntryBytes < b.sectors_per_fat32 * SectorBytes

(* A directory: files in an order, each with the parts of its long name. *)
SoundDirectory(d) ==
    /\ d \in Seq(Range(d))
    /\ \A i \in DOMAIN d : /\ d[i].parts \in Seq(Range(d[i].parts))
                           /\ d[i].deleted \in BOOLEAN /\ d[i].read_only \in BOOLEAN

ASSUME DiskAssumption ==
    /\ Offsets \subseteq Nat /\ Sizes \subseteq Nat /\ MaxBlocks \in Nat
    /\ \A d \in Disks : /\ SoundBoot(d.boot) /\ SoundChain(d.boot, d.chain)
                        /\ d.size \in Nat /\ SoundDirectory(d.dir)

VARIABLES
    boot,     \* the volume's boot sector
    chain,    \* the clusters the FAT links for the file, a sequence
    size,     \* FullDirectoryEntry::size of the file
    dir,      \* the root directory's files, a sequence; see Layout
    fs,       \* "none", "rejected" or "mounted"
    cache,    \* BlockBackedFileSystem::m_cache, newest first
    op,       \* the operation in progress
    result,   \* what the last operation returned
    asked,    \* the blocks asked of the device, in order, and whether it served them
    accesses  \* block accesses so far

volume == <<boot, chain, size, dir>>
vars == <<boot, chain, size, dir, fs, cache, op, result, asked, accesses>>

-----------------------------------------------------------------------------
(* try_create: the FAT type follows from the number of clusters.           *)

RootDirSectors(b) == (b.root_entries * 32 + (SectorBytes - 1)) \div SectorBytes
SectorsPerFat(b) == IF b.sectors_per_fat # 0 THEN b.sectors_per_fat ELSE b.sectors_per_fat32
TotalSectors(b) == IF b.total_sectors # 0 THEN b.total_sectors ELSE b.total_sectors_large
DataSectors(b) ==
    TotalSectors(b) - (b.reserved_sectors + b.fat_count * SectorsPerFat(b) + RootDirSectors(b))

(* A negative count wraps to at least 2^31 in the code's u32. *)
Clusters(b) == DataSectors(b) \div b.sectors_per_cluster
FatType(b) ==
    CASE DataSectors(b) < 0   -> "FAT32"
      [] Clusters(b) < 4085   -> "FAT12"
      [] Clusters(b) < 65525  -> "FAT16"
      [] OTHER                -> "FAT32"

(* The constructor's fields. *)
ClusterBytes == boot.sectors_per_cluster * SectorBytes
FatStart == boot.reserved_sectors
FatSectors == boot.fat_count * boot.sectors_per_fat32

NumberOfFatBlocks == FatSectors \div boot.sectors_per_cluster

-----------------------------------------------------------------------------
(* FATEntry::is_end_of_chain: 0x0FFFFFF8 and above. *)
IsEndOfChain(v) == v >= FirstEndMark

-----------------------------------------------------------------------------
(* Where things are: the disk as the FAT32 layout defines it.              *)

(* The first sector of cluster c. *)
SectorOfCluster(c) == FatStart + FatSectors + (c - 2) * boot.sectors_per_cluster

(* The value of the FAT entry at disk address a, in whichever copy: the    *)
(* next cluster, the end of the chain, or a free entry.                    *)
Linked(c) ==
    IF \E i \in DOMAIN chain : chain[i] = c
    THEN LET i == CHOOSE i \in DOMAIN chain : chain[i] = c
         IN  IF i = Len(chain) THEN EndMark ELSE chain[i + 1]
    ELSE 0
FatEntryAt(a) ==
    Linked(((a - FatStart * SectorBytes) % (boot.sectors_per_fat32 * SectorBytes)) \div EntryBytes)

-----------------------------------------------------------------------------
(* The block cache.                                                        *)

(* Mutated form: the search stops at the first block of the list. *)
CachedInFront(number) == {i \in DOMAIN cache : i = 1 /\ cache[i].number = number}

(* get_block_from_cache: the newest cached block of that number. *)
CachedAt(number) == {i \in DOMAIN cache : cache[i].number = number}
Hit(number) == CachedAt(number) # {}
FromCache(number) ==
    cache[CHOOSE i \in CachedAt(number) : \A j \in CachedAt(number) : i <= j]

(* The block as read from the device. *)
FromDevice(number) ==
    [number |-> number, sector |-> FatStart + number * boot.sectors_per_cluster]

(* read_block_poll: the cached block, or the device's. *)
Block(number) == IF Hit(number) THEN FromCache(number) ELSE FromDevice(number)

(* The device's read_poll is called only for a block that is not cached. *)
Ask(number, served) ==
    asked' = IF Hit(number) THEN asked
             ELSE Append(asked, [number |-> number, served |-> served])

(* Mutated form: the block is cached under the next one's number. *)
FetchShifted(number) ==
    /\ accesses < MaxBlocks
    /\ cache' = <<[Block(number) EXCEPT !.number = number + 1]>> \o cache
    /\ Ask(number, TRUE)
    /\ accesses' = accesses + 1

(* read_block_poll succeeds.  cache() prepends the block, found or read,   *)
(* whatever the size of the list: evict_block does nothing.                *)
Fetch(number) ==
    /\ accesses < MaxBlocks
    /\ cache' = <<Block(number)>> \o cache
    /\ Ask(number, TRUE)
    /\ accesses' = accesses + 1

(* read_block_poll fails: only a block that is not cached is asked of the  *)
(* device.  TRY hands the error to the caller.                             *)
FetchFails(number) ==
    /\ accesses < MaxBlocks
    /\ ~Hit(number)
    /\ op' = [kind |-> "idle"]
    /\ result' = [kind |-> "error"]
    /\ Ask(number, FALSE)
    /\ accesses' = accesses + 1
    /\ UNCHANGED <<volume, fs, cache>>

(* read_cluster_poll: the block number of a cluster. *)
BlockOfCluster(c) == NumberOfFatBlocks + c - 2

(* get_fat_entry: the block of the FAT that holds entry c, and its value. *)
BlockOfEntry(c) == (c * EntryBytes) \div ClusterBytes
FatEntry(c) ==
    FatEntryAt(Block(BlockOfEntry(c)).sector * SectorBytes + ((c * EntryBytes) % ClusterBytes))

-----------------------------------------------------------------------------
Init ==
    /\ \E d \in Disks :
         boot = d.boot /\ chain = d.chain /\ size = d.size /\ dir = d.dir
    /\ fs = "none"
    /\ cache = <<>>
    /\ op = [kind |-> "idle"]
    /\ result = [kind |-> "none"]
    /\ asked = <<>>
    /\ accesses = 0

(* try_create: only a FAT32 volume is accepted; the constructor then reads *)
(* the root directory, and goes on when that fails.                        *)
Mount ==
    /\ fs = "none"
    /\ FatType(boot) = "FAT32"
    /\ fs' = "mounted"
    /\ \/ Fetch(BlockOfCluster(boot.root_cluster))
       \/ Ask(BlockOfCluster(boot.root_cluster), FALSE) /\ UNCHANGED <<cache, accesses>>
    /\ UNCHANGED <<volume, op, result>>

(* The device cannot read the boot sector, or it is not FAT32. *)
Reject ==
    /\ fs = "none"
    /\ \E sector_read \in BOOLEAN : sector_read => FatType(boot) # "FAT32"
    /\ fs' = "rejected"
    /\ UNCHANGED <<volume, cache, op, result, asked, accesses>>

-----------------------------------------------------------------------------
(* FATInode::read.                                                         *)

Capped(off, n) == IF off + n > size THEN size - off ELSE n

Finish(r) == op' = [kind |-> "idle"] /\ result' = r
Proceed(o) == op' = o /\ UNCHANGED result
ReadResult(o) ==
    [kind |-> "read", off |-> o.off, n |-> o.n, copied |-> o.copied, bytes |-> o.bytes]

(* The loops of read: skip while clusters are left to skip, then copy      *)
(* while bytes are left to read.                                           *)
Continue(o) ==
    CASE o.skip > 0         -> Proceed([o EXCEPT !.kind = "skip"])
      [] o.skip = 0 /\ o.bytes < o.size -> Proceed([o EXCEPT !.kind = "copy"])
      [] OTHER              -> Finish(ReadResult(o))

(* The call: nothing to do at the end of the file; otherwise the size is   *)
(* capped and the clusters before the offset are to be skipped.            *)
StartRead(off, n) ==
    /\ fs = "mounted" /\ op.kind = "idle"
    /\ LET call == [kind |-> "call", off |-> off, n |-> n, size |-> Capped(off, n),
                    cluster |-> Head(chain), skip |-> off \div ClusterBytes,
                    bytes |-> 0, copied |-> <<>>]
       IN  IF off >= size THEN Finish(ReadResult(call)) ELSE Continue(call)
    /\ UNCHANGED <<volume, fs, cache, asked, accesses>>

(* One cluster is skipped; a chain that ends here is an error. *)
SkipCluster ==
    /\ op.kind = "skip"
    /\ LET next == FatEntry(op.cluster)
       IN  IF IsEndOfChain(next)
           THEN Finish([kind |-> "corrupt", off |-> op.off])
           ELSE Continue([op EXCEPT !.cluster = next, !.skip = @ - 1])
    /\ Fetch(BlockOfEntry(op.cluster))
    /\ UNCHANGED <<volume, fs>>

(* Mutated form: every cluster is copied from the initial offset. *)
InClusterAlways == op.off % ClusterBytes

(* The offset in the cluster at hand: the initial one until something was  *)
(* copied.                                                                 *)
InCluster == IF op.bytes = 0 THEN op.off % ClusterBytes ELSE 0

BytesToRead ==
    IF op.size - op.bytes < ClusterBytes - InCluster
    THEN op.size - op.bytes ELSE ClusterBytes - InCluster

(* The cluster's bytes go to the buffer, known by their disk address. *)
CopyCluster ==
    /\ op.kind = "copy"
    /\ LET piece == [to |-> op.bytes, len |-> BytesToRead,
                     from |-> Block(BlockOfCluster(op.cluster)).sector * SectorBytes + InCluster]
           after == [op EXCEPT !.copied = Append(@, piece), !.bytes = @ + BytesToRead]
       IN  IF after.bytes < op.size THEN Proceed([after EXCEPT !.kind = "next"])
           ELSE Finish(ReadResult(after))
    /\ Fetch(BlockOfCluster(op.cluster))
    /\ UNCHANGED <<volume, fs>>

(* The next cluster; at the end of the chain the read ends short. *)
NextCluster ==
    /\ op.kind = "next"
    /\ LET next == FatEntry(op.cluster)
       IN  IF IsEndOfChain(next) THEN Finish(ReadResult(op))
           ELSE Continue([op EXCEPT !.cluster = next])
    /\ Fetch(BlockOfEntry(op.cluster))
    /\ UNCHANGED <<volume, fs>>

(* A block access of the read fails. *)
ReadFails ==
    \/ op.kind = "copy" /\ FetchFails(BlockOfCluster(op.cluster))
    \/ op.kind \in {"skip", "next"} /\ FetchFails(BlockOfEntry(op.cluster))

-----------------------------------------------------------------------------
(* Directories.  A file is stored as its long-name entries, the last part  *)
(* first and marked final, and then its standard entry; a name is a        *)
(* sequence of parts.  Of a standard entry the code looks at the read-only *)
(* bit and, when it takes the entry for a long name, at bit 6 of the first *)
(* character (set in letters, clear in digits).                            *)

LongEntry(f, k) ==
    [free |-> f.deleted, bit0 |-> TRUE, bit6 |-> f.deleted \/ k = Len(f.parts), text |-> <<f.parts[k]>>,
     cluster |-> 0, size |-> 0]
StandardEntry(f) ==
    [free |-> f.deleted, bit0 |-> f.read_only, bit6 |-> f.deleted \/ f.letter, text |-> <<f.short>>,
     cluster |-> f.cluster, size |-> f.size]
LayoutOf(f) ==
    [k \in 1..Len(f.parts) |-> LongEntry(f, Len(f.parts) + 1 - k)] \o <<StandardEntry(f)>>
Layout(d) == FlattenSeq([i \in 1..Len(d) |-> LayoutOf(d[i])])

(* The name under which a file is to be found. *)
NameOf(f) == IF f.parts = <<>> THEN <<f.short>> ELSE f.parts

(* is_long_name: the comparison binds stronger than the mask, and what is  *)
(* tested is bit 0 of the attributes, the read-only bit.                   *)
IsLongName(e) == e.bit0

(* Behind the entries the block is zero: free entries, and no long name. *)
EntryAt(es, i) ==
    IF i <= Len(es) THEN es[i]
    ELSE [free |-> TRUE, bit0 |-> FALSE, bit6 |-> FALSE, text |-> <<"zero">>, cluster |-> 0, size |-> 0]

(* The entry at which the loop over long-name entries from entry i stops:  *)
(* the first one marked final.  Without one it runs off the block (0).     *)
LastLong(es, i) ==
    LET Final == {j \in i..Len(es) : es[j].bit6}
    IN  IF Final = {} THEN 0 ELSE CHOOSE j \in Final : \A k \in Final : j <= k
(* The name it has put together by then, each part in front of the last. *)
LongName(es, i, j) == FlattenSeq([k \in 1..(j - i + 1) |-> es[j + 1 - k].text])

(* Mutated form: the standard entry is looked at again. *)
AfterLongAgain(j) == j + 1

(* Where the walk goes on: behind the standard entry of the long name. *)
AfterLong(j) == j + 2

(* get_child: the standard entry of that name, or why there is none. *)
GetChild(es, name) ==
    LET from[i \in 1..(Len(es) + 2)] ==
          IF i > Len(es) THEN [kind |-> "missing"]
          ELSE IF es[i].free THEN from[i + 1]
          ELSE IF ~IsLongName(es[i])
               THEN IF es[i].text = name THEN [kind |-> "found", entry |-> es[i]]
                    ELSE from[i + 1]
          ELSE LET j == LastLong(es, i)
               IN  IF j = 0 THEN [kind |-> "overrun"]
                   ELSE IF IsLongName(EntryAt(es, j + 1)) THEN [kind |-> "corrupt"]
                   ELSE IF LongName(es, i, j) = name
                        THEN [kind |-> "found", entry |-> EntryAt(es, j + 1)]
                   ELSE from[AfterLong(j)]
    IN  from[1]

(* list_dir: the names, in the directory's order. *)
ListDir(es) ==
    LET from[i \in 1..(Len(es) + 2)] ==
          IF i > Len(es) THEN <<>>
          ELSE IF es[i].free THEN from[i + 1]
          ELSE IF ~IsLongName(es[i]) THEN <<es[i].text>> \o from[i + 1]
          ELSE LET j == LastLong(es, i)
               IN  IF j = 0 THEN <<"overrun">>
                   ELSE <<LongName(es, i, j)>> \o from[AfterLong(j)]
    IN  from[1]

(* get_child and list_dir on the root directory: one cluster is read. *)
DirBlock == BlockOfCluster(boot.root_cluster)

Lookup(name) ==
    /\ fs = "mounted" /\ op.kind = "idle"
    /\ result' = [kind |-> "lookup", name |-> name, answer |-> GetChild(Layout(dir), name),
                  sector |-> Block(DirBlock).sector]
    /\ Fetch(DirBlock)
    /\ UNCHANGED <<volume, fs, op>>

List ==
    /\ fs = "mounted" /\ op.kind = "idle"
    /\ result' = [kind |-> "list", names |-> ListDir(Layout(dir)), sector |-> Block(DirBlock).sector]
    /\ Fetch(DirBlock)
    /\ UNCHANGED <<volume, fs, op>>

DirectoryFails == fs = "mounted" /\ op.kind = "idle" /\ FetchFails(DirBlock)

ReadStep == SkipCluster \/ CopyCluster \/ NextCluster \/ ReadFails

Next ==
    \/ Mount \/ Reject
    \/ \E off \in Offsets, n \in Sizes : StartRead(off, n)
    \/ ReadStep
    \/ \E name \in Names : Lookup(name)
    \/ List
    \/ DirectoryFails

Spec == Init /\ [][Next]_vars

-----------------------------------------------------------------------------
(* Properties. *)

(* Type correctness of the mounted volume's state. *)
TypeOK ==
    /\ fs \in {"none", "rejected", "mounted"}
    /\ cache \in Seq([number : Int, sector : Int])
    /\ op.kind \in {"idle", "skip", "copy", "next"}
    /\ accesses \in 0..MaxBlocks

(* Byte p of the file is byte p of its chain: its disk address. *)
AddressOf(p) ==
    SectorOfCluster(chain[p \div ClusterBytes + 1]) * SectorBytes + (p % ClusterBytes)

(* The bytes the chain holds, up to the size stated in the directory. *)
Readable == IF Len(chain) * ClusterBytes < size THEN Len(chain) * ClusterBytes ELSE size

(* The pieces are the file's bytes from the offset on, in order, without a *)
(* gap, taken from the disk addresses of its chain.                        *)
CopiedRight(off, copied, bytes) ==
    /\ \A i \in DOMAIN copied :
         /\ copied[i].to = IF i = 1 THEN 0 ELSE copied[i - 1].to + copied[i - 1].len
         /\ copied[i].from = AddressOf(off + copied[i].to)
         /\ ((off + copied[i].to) % ClusterBytes) + copied[i].len <= ClusterBytes
    /\ bytes = IF copied = <<>> THEN 0 ELSE Last(copied).to + Last(copied).len

(* What has been copied so far, and what a finished read returned, are the *)
(* file's bytes, as many as were asked for and the chain holds, whatever   *)
(* the cache held; and a read that gives up with "Corrupt FAT chain" met a *)
(* chain shorter than its offset.                                          *)
ReadReturnsFile ==
    /\ op.kind # "idle" => CopiedRight(op.off, op.copied, op.bytes)
    /\ result.kind = "read" =>
         /\ CopiedRight(result.off, result.copied, result.bytes)
         /\ result.bytes =
              IF result.off >= Readable THEN 0
              ELSE IF result.off + result.n > Readable THEN Readable - result.off
              ELSE result.n
    /\ result.kind = "corrupt" => Len(chain) * ClusterBytes <= result.off

(* The blocks the device has served so far. *)
Served == {asked[i].number : i \in {j \in DOMAIN asked : asked[j].served}}

(* A block the device has served is never asked of it again. *)
BlocksReadOnce ==
    \A i, j \in DOMAIN asked : i < j /\ asked[i].served => asked[j].number # asked[i].number

(* The cache holds exactly the blocks the device has served, each under    *)
(* its own number and as the disk has it at that place: none is lost, and  *)
(* a failed access leaves none behind (read_block_poll, cache).  And what  *)
(* it holds is found: whatever is accessed later, by reads, lookups and    *)
(* retries of failed ones, the device is not asked for a block twice.  (An *)
(* evict_block that evicts would end this.)                                *)
CacheCoherent ==
    /\ Range(cache) = {FromDevice(n) : n \in Served}
    /\ BlocksReadOnce

(* Directories the lookup handles: they fit one cluster, every long name   *)
(* fits one entry, and no file is read-only.                               *)
Supported(d) ==
    /\ Len(Layout(d)) * DirEntryBytes <= ClusterBytes
    /\ \A i \in DOMAIN d : Len(d[i].parts) <= 1 /\ ~d[i].read_only

FilesNamed(d, name) == {i \in DOMAIN d : NameOf(d[i]) = name /\ ~d[i].deleted}
LookupAnswers(d, name, answer) ==
    IF FilesNamed(d, name) = {} THEN answer.kind = "missing"
    ELSE /\ answer.kind = "found"
         /\ \E i \in FilesNamed(d, name) : answer.entry = StandardEntry(d[i])
NamesListed(d) ==
    FlattenSeq([i \in 1..Len(d) |-> IF d[i].deleted THEN <<>> ELSE <<NameOf(d[i])>>])

(* Looking a name up finds the entry of the file of that name, and listing *)
(* gives exactly the names of the files, from the directory's own cluster, *)
(* in a directory whose names the code supports.                           *)
LookupAndListAgree ==
    Supported(dir) =>
        /\ result.kind = "lookup" => /\ LookupAnswers(dir, result.name, result.answer)
                                     /\ result.sector = SectorOfCluster(boot.root_cluster)
        /\ result.kind = "list" => /\ result.names = NamesListed(dir)
                                   /\ result.sector = SectorOfCluster(boot.root_cluster)

=============================================================================
