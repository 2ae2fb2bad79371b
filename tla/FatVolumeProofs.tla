--------------------------- MODULE FatVolumeProofs ---------------------------
(***************************************************************************)
(* Proofs about FatVolume for every disk of sound geometry, every file,    *)
(* every offset and buffer size, and any number of block accesses.         *)
(***************************************************************************)
EXTENDS FatVolume, SequenceFacts

-----------------------------------------------------------------------------
(* Arithmetic. *)

LEMMA DivMod ==
  ASSUME NEW a \in Nat, NEW b \in Nat \ {0}
  PROVE  /\ a = (a \div b) * b + (a % b)
         /\ a \div b \in Nat /\ a % b \in Nat /\ a % b < b
  OBVIOUS

LEMMA DivModUnique ==
  ASSUME NEW q \in Nat, NEW b \in Nat \ {0}, NEW r \in Nat, r < b
  PROVE  (q * b + r) \div b = q /\ (q * b + r) % b = r
  OBVIOUS

LEMMA DivModZero ==
  ASSUME NEW q \in Nat, NEW b \in Nat \ {0}
  PROVE  (q * b) \div b = q /\ (q * b) % b = 0
  OBVIOUS

\* A copy that goes to the end of its cluster ends where the next one begins.
LEMMA NextBoundary ==
  ASSUME NEW p \in Nat, NEW b \in Nat \ {0}
  PROVE  LET q == p + (b - (p % b))
         IN  q \in Nat /\ q > p /\ q % b = 0 /\ q \div b = p \div b + 1
  <1>1. p = (p \div b) * b + (p % b) /\ p \div b \in Nat /\ p % b \in Nat /\ p % b < b
    BY DivMod
  <1> DEFINE d == p \div b
             m == p % b
             e == d + 1
  <1> HIDE DEF d, m
  <1>2. p + (b - m) = e * b
    BY <1>1 DEF d, m
  <1>3. e \in Nat /\ p + (b - m) \in Nat /\ p + (b - m) > p
    BY <1>1 DEF d, m
  <1> HIDE DEF e
  <1>4. (e * b) \div b = e /\ (e * b) % b = 0
    BY <1>3, DivModZero
  <1> QED BY <1>2, <1>3, <1>4 DEF d, m, e

\* A position in cluster number d of l clusters: its cluster ends within them.
LEMMA WithinClusters ==
  ASSUME NEW p \in Nat, NEW b \in Nat \ {0}, NEW l \in Nat, p \div b + 1 <= l
  PROVE  p + (b - (p % b)) <= l * b
  <1>1. p = (p \div b) * b + (p % b) /\ p \div b \in Nat /\ p % b \in Nat /\ p % b < b
    BY DivMod
  <1> DEFINE d == p \div b
             m == p % b
  <1>2. p = d * b + m /\ d \in Nat /\ m \in Nat /\ m < b /\ d + 1 <= l
    BY <1>1
  <1> HIDE DEF d, m
  <1>3. PICK e \in Nat : l = d + 1 + e
    BY <1>2
  <1>4. l * b = (d + 1) * b + e * b /\ e * b \in Nat
    BY <1>2, <1>3
  <1>5. p + (b - m) = (d + 1) * b
    BY <1>2
  <1> QED BY <1>2, <1>4, <1>5 DEF d, m

\* A position behind l clusters.
LEMMA BehindClusters ==
  ASSUME NEW p \in Nat, NEW b \in Nat \ {0}, NEW l \in Nat, p \div b >= l
  PROVE  l * b <= p
  <1> DEFINE d == p \div b
             m == p % b
  <1>1. p = d * b + m /\ d \in Nat /\ m \in Nat /\ d >= l
    BY DivMod
  <1> HIDE DEF d, m
  <1>2. PICK e \in Nat : d = l + e
    BY <1>1
  <1>3. d * b = l * b + e * b /\ e * b \in Nat
    BY <1>1, <1>2
  <1> QED BY <1>1, <1>3

-----------------------------------------------------------------------------
(* The block cache. *)

\* The mounted disk is one of the disks, and never changes.
VolumeInv == SoundBoot(boot) /\ SoundChain(boot, chain) /\ size \in Nat

\* The cache is a list of blocks, each what the disk has at its number.
CacheInv ==
  /\ cache \in Seq([number : Int, sector : Int])
  /\ \A i \in DOMAIN cache : cache[i] = FromDevice(cache[i].number)

LEMMA DeviceBlock ==
  ASSUME VolumeInv, NEW n \in Int
  PROVE  FromDevice(n) \in [number : Int, sector : Int] /\ FromDevice(n).number = n
  BY DEF VolumeInv, SoundBoot, FromDevice, FatStart

\* Whether the block was found or read, it is what the disk has there.
LEMMA BlockIsDevice ==
  ASSUME VolumeInv, CacheInv, NEW n \in Int
  PROVE  Block(n) = FromDevice(n)
  <1>1. CASE Hit(n)
    <2>1. CachedAt(n) # {} /\ CachedAt(n) \subseteq Nat
      BY <1>1 DEF Hit, CachedAt, CacheInv
    <2>2. \E i \in CachedAt(n) : \A j \in CachedAt(n) : i <= j
      BY <2>1, LeastNumber
    <2>3. PICK i \in CachedAt(n) : FromCache(n) = cache[i]
      BY <2>2 DEF FromCache
    <2>4. cache[i] = FromDevice(n)
      BY DEF CachedAt, CacheInv
    <2> QED BY <1>1, <2>3, <2>4 DEF Block
  <1>2. CASE ~Hit(n)
    BY <1>2 DEF Block
  <1> QED BY <1>1, <1>2

\* cache() puts a block in front and leaves the others.
LEMMA FetchKeeps ==
  ASSUME VolumeInv, CacheInv, NEW n \in Int, Fetch(n), UNCHANGED volume
  PROVE  CacheInv'
  <1>1. cache' = <<FromDevice(n)>> \o cache
    BY BlockIsDevice DEF Fetch
  <1>2. \A m : FromDevice(m)' = FromDevice(m)
    BY DEF FromDevice, FatStart, volume
  <1>3. cache' \in Seq([number : Int, sector : Int])
    BY <1>1, DeviceBlock DEF CacheInv
  <1>4. ASSUME NEW i \in DOMAIN cache' PROVE cache'[i] = FromDevice(cache'[i].number)
    <2>1. CASE i = 1
      <3>1. cache'[i] = FromDevice(n)
        BY <1>1, <2>1 DEF CacheInv
      <3> QED BY <3>1, DeviceBlock
    <2>2. CASE i # 1
      <3>1. i - 1 \in DOMAIN cache /\ cache'[i] = cache[i - 1]
        BY <1>1, <2>2 DEF CacheInv
      <3> QED BY <3>1 DEF CacheInv
    <2> QED BY <2>1, <2>2
  <1> QED BY <1>2, <1>3, <1>4 DEF CacheInv

-----------------------------------------------------------------------------
(* Where the clusters and the FAT entries are. *)

LEMMA BootNumbers ==
  ASSUME VolumeInv
  PROVE  /\ ClusterBytes \in Nat \ {0}
         /\ boot.sectors_per_cluster \in Nat \ {0}
         /\ FatStart \in Nat /\ FatSectors \in Nat
         /\ NumberOfFatBlocks \in Nat
         /\ NumberOfFatBlocks * boot.sectors_per_cluster = FatSectors
         /\ boot.root_cluster \in Nat
         /\ boot.sectors_per_fat32 \in Nat
  <1>1. /\ boot.sectors_per_cluster \in Nat \ {0} /\ FatSectors \in Nat
        /\ FatStart \in Nat /\ boot.root_cluster \in Nat /\ boot.sectors_per_fat32 \in Nat
        /\ FatSectors % boot.sectors_per_cluster = 0
    BY DEF VolumeInv, SoundBoot, FatSectors, FatStart
  <1>2. FatSectors = NumberOfFatBlocks * boot.sectors_per_cluster
          + (FatSectors % boot.sectors_per_cluster)
        /\ NumberOfFatBlocks \in Nat
    BY <1>1, DivMod DEF NumberOfFatBlocks
  <1>3. ClusterBytes \in Nat \ {0}
    BY <1>1 DEF ClusterBytes, SectorBytes
  <1> QED BY <1>1, <1>2, <1>3

LEMMA ChainNumbers ==
  ASSUME VolumeInv
  PROVE  /\ Len(chain) \in Nat \ {0} /\ DOMAIN chain = 1..Len(chain)
         /\ \A i \in DOMAIN chain :
              /\ chain[i] \in Nat /\ chain[i] >= 2 /\ chain[i] < FirstEndMark
              /\ chain[i] * EntryBytes < boot.sectors_per_fat32 * SectorBytes
  <1>1. chain \in Seq(2..(FirstEndMark - 1)) /\ chain # <<>>
    BY DEF VolumeInv, SoundChain
  <1>2. Len(chain) \in Nat \ {0} /\ DOMAIN chain = 1..Len(chain)
    BY <1>1
  <1>3. \A i \in DOMAIN chain : chain[i] \in 2..(FirstEndMark - 1)
    <2> DEFINE S == 2..(FirstEndMark - 1)
    <2>1. chain \in Seq(S)
      BY <1>1
    <2> HIDE DEF S
    <2>2. \A i \in DOMAIN chain : chain[i] \in S
      BY <2>1
    <2> QED BY <2>2 DEF S
  <1>4. FirstEndMark \in Nat
    BY SMT DEF FirstEndMark
  <1>5. \A i \in DOMAIN chain : chain[i] * EntryBytes < boot.sectors_per_fat32 * SectorBytes
    BY DEF VolumeInv, SoundChain
  <1> QED BY <1>2, <1>3, <1>4, <1>5

\* read_cluster_poll gets the cluster's own sectors.
LEMMA ClusterRead ==
  ASSUME VolumeInv, CacheInv, NEW c \in Nat
  PROVE  /\ BlockOfCluster(c) \in Int
         /\ Block(BlockOfCluster(c)).sector = SectorOfCluster(c)
         /\ SectorOfCluster(c) \in Int
  <1>1. BlockOfCluster(c) \in Int
    BY BootNumbers DEF BlockOfCluster
  <1>2. Block(BlockOfCluster(c)).sector
          = FatStart + (NumberOfFatBlocks + c - 2) * boot.sectors_per_cluster
    BY <1>1, BlockIsDevice DEF FromDevice, BlockOfCluster
  <1>3. (NumberOfFatBlocks + c - 2) * boot.sectors_per_cluster
          = NumberOfFatBlocks * boot.sectors_per_cluster + (c - 2) * boot.sectors_per_cluster
    BY BootNumbers
  <1>4. (c - 2) * boot.sectors_per_cluster \in Int
    BY BootNumbers
  <1> QED BY <1>1, <1>2, <1>3, <1>4, BootNumbers DEF SectorOfCluster

\* The entry of the chain's i-th cluster links the next one, or ends it.
LEMMA LinkedNext ==
  ASSUME VolumeInv, NEW i \in DOMAIN chain
  PROVE  Linked(chain[i]) = IF i = Len(chain) THEN EndMark ELSE chain[i + 1]
  <1>1. \A j \in DOMAIN chain : chain[j] = chain[i] => j = i
    BY DEF VolumeInv, SoundChain
  <1>2. (CHOOSE j \in DOMAIN chain : chain[j] = chain[i]) = i
    BY <1>1
  <1> QED BY <1>2 DEF Linked

\* get_fat_entry reads the entry it is asked for, in the first copy of the FAT.
LEMMA EntryRead ==
  ASSUME VolumeInv, CacheInv, NEW i \in DOMAIN chain
  PROVE  /\ BlockOfEntry(chain[i]) \in Int
         /\ FatEntry(chain[i]) = IF i = Len(chain) THEN EndMark ELSE chain[i + 1]
  <1> DEFINE a == chain[i] * EntryBytes
             f == boot.sectors_per_fat32 * SectorBytes
  <1>1. chain[i] \in Nat /\ a \in Nat /\ f \in Nat /\ a < f
    <2>1. chain[i] \in Nat /\ a < f
      BY ChainNumbers
    <2>2. boot.sectors_per_fat32 \in Nat
      BY BootNumbers
    <2> QED BY <2>1, <2>2 DEF EntryBytes, SectorBytes
  <1>2. /\ a = (a \div ClusterBytes) * ClusterBytes + (a % ClusterBytes)
        /\ a \div ClusterBytes \in Nat /\ a % ClusterBytes \in Nat
    BY <1>1, BootNumbers, DivMod
  <1>3. BlockOfEntry(chain[i]) = a \div ClusterBytes
    BY DEF BlockOfEntry
  <1>4. Block(BlockOfEntry(chain[i])).sector
          = FatStart + (a \div ClusterBytes) * boot.sectors_per_cluster
    BY <1>2, <1>3, BlockIsDevice DEF FromDevice
  <1> DEFINE d == a \div ClusterBytes
             m == a % ClusterBytes
             at == (FatStart + d * boot.sectors_per_cluster) * SectorBytes + m
  <1>5. FatEntry(chain[i]) = FatEntryAt(at)
    BY <1>4 DEF FatEntry
  <1>6. d \in Nat /\ m \in Nat /\ a = d * ClusterBytes + m
    BY <1>2
  <1> HIDE DEF d, m
  <1>7. at - FatStart * SectorBytes = a
    <2>1. d * ClusterBytes = d * boot.sectors_per_cluster * SectorBytes
      BY <1>6, BootNumbers DEF ClusterBytes, SectorBytes
    <2>2. (FatStart + d * boot.sectors_per_cluster) * SectorBytes
            = FatStart * SectorBytes + d * boot.sectors_per_cluster * SectorBytes
      BY <1>6, BootNumbers DEF SectorBytes
    <2>3. FatStart * SectorBytes \in Nat /\ d * boot.sectors_per_cluster * SectorBytes \in Nat
      BY <1>6, BootNumbers DEF SectorBytes
    <2> HIDE DEF a
    <2> QED BY <1>6, <2>1, <2>2, <2>3
  <1>8. a % f = a
    <2>1. f \in Nat \ {0}
      BY <1>1
    <2> HIDE DEF a, f
    <2>2. (0 * f + a) % f = a
      BY <1>1, <2>1, DivModUnique
    <2> QED BY <1>1, <2>1, <2>2
  <1>9. a \div EntryBytes = chain[i]
    BY <1>1 DEF EntryBytes
  <1>10. FatEntryAt(at) = Linked(chain[i])
    BY <1>7, <1>8, <1>9 DEF FatEntryAt
  <1> QED BY <1>2, <1>3, <1>5, <1>10, LinkedNext

-----------------------------------------------------------------------------
(* A read in progress. *)

Pieces == [to : Nat, len : Nat, from : Int]
ReadOps ==
  [kind : {"call", "skip", "copy", "next"}, off : Nat, n : Nat, size : Nat,
   cluster : Nat, skip : Nat, bytes : Nat, copied : Seq(Pieces)]

\* The read at hand: its size is capped, and what it copied is the file's.
ReadSound(o) ==
  /\ o \in ReadOps
  /\ o.off < size /\ o.size = Capped(o.off, o.n) /\ o.bytes <= o.size
  /\ CopiedRight(o.off, o.copied, o.bytes)

\* The cluster at hand is number i of the chain.
AtCluster(o, i) == i \in DOMAIN chain /\ o.cluster = chain[i]

\* As many clusters are left to skip as lie between the one at hand and the
\* one of the offset.
Skipping(o) ==
  /\ o.bytes = 0
  /\ o.skip <= o.off \div ClusterBytes
  /\ AtCluster(o, o.off \div ClusterBytes - o.skip + 1)

\* The cluster at hand holds the next byte; only the first copy may begin
\* inside a cluster.
Copying(o) ==
  /\ o.skip = 0
  /\ o.bytes = 0 \/ (o.off + o.bytes) % ClusterBytes = 0
  /\ AtCluster(o, (o.off + o.bytes) \div ClusterBytes + 1)

\* The cluster at hand is copied to its end, and more is to be read.
Advancing(o) ==
  /\ o.skip = 0 /\ o.bytes < o.size
  /\ (o.off + o.bytes) % ClusterBytes = 0
  /\ AtCluster(o, (o.off + o.bytes) \div ClusterBytes)

OpSound(o) ==
  \/ o = [kind |-> "idle"]
  \/ /\ ReadSound(o)
     /\ \/ o.kind = "skip" /\ o.skip > 0 /\ Skipping(o)
        \/ o.kind = "copy" /\ o.bytes < o.size /\ Copying(o)
        \/ o.kind = "next" /\ Advancing(o)

\* What a finished read returned.
ReadRight(r) ==
  /\ CopiedRight(r.off, r.copied, r.bytes)
  /\ r.bytes = IF r.off >= Readable THEN 0
               ELSE IF r.off + r.n > Readable THEN Readable - r.off
               ELSE r.n
ResultSound(r) ==
  /\ r.kind = "read" => ReadRight(r)
  /\ r.kind = "corrupt" => Len(chain) * ClusterBytes <= r.off

(* The inductive invariant. *)
FatInv ==
  /\ VolumeInv
  /\ CacheInv
  /\ fs \in {"none", "rejected", "mounted"}
  /\ accesses \in 0..MaxBlocks
  /\ OpSound(op)
  /\ ResultSound(result)

\* The volume being constant, a sound operation and result stay sound.
LEMMA SoundLater ==
  ASSUME UNCHANGED volume, NEW o, NEW r, op' = o, result' = r,
         OpSound(o), ResultSound(r)
  PROVE  OpSound(op)' /\ ResultSound(result)'
  <1> USE DEF volume
  <1>1. ClusterBytes' = ClusterBytes /\ Readable' = Readable
    BY DEF ClusterBytes, Readable
  <1>2. \A x, y, z : CopiedRight(x, y, z) => CopiedRight(x, y, z)'
    BY <1>1 DEF CopiedRight, AddressOf, SectorOfCluster, FatStart, FatSectors
  <1>3. ResultSound(result)'
    BY <1>1, <1>2 DEF ResultSound, ReadRight
  <1>4. OpSound(op)'
    BY <1>1, <1>2 DEF OpSound, ReadSound, Capped, Skipping, Copying, Advancing, AtCluster
  <1> QED BY <1>3, <1>4

\* A read that got all it wanted, within the clusters of the chain.
LEMMA FullRead ==
  ASSUME VolumeInv, NEW o, ReadSound(o), o.bytes = o.size,
         o.off + o.bytes <= Len(chain) * ClusterBytes
  PROVE  ResultSound(ReadResult(o))
  <1>1. /\ o.off \in Nat /\ o.n \in Nat /\ o.size \in Nat /\ size \in Nat
        /\ o.off < size /\ o.size = Capped(o.off, o.n)
    BY DEF ReadSound, ReadOps, VolumeInv
  <1>2. Len(chain) * ClusterBytes \in Nat
    BY ChainNumbers, BootNumbers
  <1>3. /\ ReadResult(o).kind = "read" /\ ReadResult(o).off = o.off
        /\ ReadResult(o).n = o.n /\ ReadResult(o).copied = o.copied
        /\ ReadResult(o).bytes = o.bytes
    BY DEF ReadResult
  <1> DEFINE l == Len(chain) * ClusterBytes
  <1>4. Readable = IF l < size THEN l ELSE size
    BY DEF Readable
  <1> HIDE DEF l
  <1>5. o.bytes = IF o.off >= Readable THEN 0
                  ELSE IF o.off + o.n > Readable THEN Readable - o.off ELSE o.n
    <2>1. l \in Nat /\ o.off + o.size <= l
      BY <1>2 DEF l
    <2> QED BY <1>1, <1>4, <2>1 DEF Capped
  <1> QED BY <1>3, <1>5 DEF ResultSound, ReadRight, ReadSound

\* A read that ended at the end of the chain.
LEMMA ShortRead ==
  ASSUME VolumeInv, NEW o, ReadSound(o), o.bytes < o.size,
         o.off + o.bytes = Len(chain) * ClusterBytes
  PROVE  ResultSound(ReadResult(o))
  <1>1. /\ o.off \in Nat /\ o.n \in Nat /\ o.size \in Nat /\ size \in Nat /\ o.bytes \in Nat
        /\ o.off < size /\ o.size = Capped(o.off, o.n)
    BY DEF ReadSound, ReadOps, VolumeInv
  <1>2. Len(chain) * ClusterBytes \in Nat
    BY ChainNumbers, BootNumbers
  <1>3. /\ ReadResult(o).kind = "read" /\ ReadResult(o).off = o.off
        /\ ReadResult(o).n = o.n /\ ReadResult(o).copied = o.copied
        /\ ReadResult(o).bytes = o.bytes
    BY DEF ReadResult
  <1> DEFINE l == Len(chain) * ClusterBytes
  <1>4. Readable = IF l < size THEN l ELSE size
    BY DEF Readable
  <1>5. l = o.off + o.bytes
    OBVIOUS
  <1> HIDE DEF l
  <1>6. o.bytes = IF o.off >= Readable THEN 0
                  ELSE IF o.off + o.n > Readable THEN Readable - o.off ELSE o.n
    BY <1>1, <1>4, <1>5 DEF Capped
  <1> QED BY <1>3, <1>6 DEF ResultSound, ReadRight, ReadSound

\* The loops of read go on soundly from a sound position.
LEMMA ContinueSound ==
  ASSUME FatInv, NEW o, ReadSound(o), Continue(o), UNCHANGED volume,
         o.skip > 0 => Skipping(o), o.skip = 0 => Copying(o)
  PROVE  OpSound(op)' /\ ResultSound(result)'
  <1>1. o \in ReadOps /\ o.skip \in Nat /\ o.bytes \in Nat /\ o.size \in Nat /\ o.off \in Nat
    BY DEF ReadSound, ReadOps
  <1>2. CASE o.skip > 0
    <2> DEFINE p == [o EXCEPT !.kind = "skip"]
    <2>1. op' = p /\ result' = result
      BY <1>2 DEF Continue, Proceed
    <2>2. p \in ReadOps /\ p.kind = "skip" /\ p.off = o.off /\ p.n = o.n /\ p.size = o.size
          /\ p.cluster = o.cluster /\ p.skip = o.skip /\ p.bytes = o.bytes
          /\ p.copied = o.copied
      BY <1>1 DEF ReadOps
    <2> HIDE DEF p
    <2>3. ReadSound(p) /\ Skipping(p)
      BY <1>2, <2>2 DEF ReadSound, Skipping, AtCluster
    <2>4. OpSound(p)
      BY <1>2, <2>2, <2>3 DEF OpSound
    <2> QED BY <2>1, <2>4, SoundLater DEF FatInv
  <1>3. CASE o.skip = 0 /\ o.bytes < o.size
    <2> DEFINE p == [o EXCEPT !.kind = "copy"]
    <2>1. op' = p /\ result' = result
      BY <1>1, <1>3 DEF Continue, Proceed
    <2>2. p \in ReadOps /\ p.kind = "copy" /\ p.off = o.off /\ p.n = o.n /\ p.size = o.size
          /\ p.cluster = o.cluster /\ p.skip = o.skip /\ p.bytes = o.bytes
          /\ p.copied = o.copied
      BY <1>1 DEF ReadOps
    <2> HIDE DEF p
    <2>3. ReadSound(p) /\ Copying(p)
      BY <1>3, <2>2 DEF ReadSound, Copying, AtCluster
    <2>4. OpSound(p)
      BY <1>3, <2>2, <2>3 DEF OpSound
    <2> QED BY <2>1, <2>4, SoundLater DEF FatInv
  <1>4. CASE o.skip = 0 /\ ~(o.bytes < o.size)
    <2>1. op' = [kind |-> "idle"] /\ result' = ReadResult(o)
      BY <1>1, <1>4 DEF Continue, Finish
    <2>2. o.bytes = o.size
      BY <1>1, <1>4 DEF ReadSound
    <2>3. (o.off + o.bytes) \div ClusterBytes + 1 <= Len(chain)
      <3>1. (o.off + o.bytes) \div ClusterBytes + 1 \in DOMAIN chain
        BY <1>4 DEF Copying, AtCluster
      <3>2. DOMAIN chain = 1..Len(chain) /\ Len(chain) \in Nat
        BY ChainNumbers DEF FatInv
      <3> QED BY <3>1, <3>2
    <2>4. o.off + o.bytes <= Len(chain) * ClusterBytes
      <3> DEFINE q == o.off + o.bytes
      <3>1. q \in Nat /\ ClusterBytes \in Nat \ {0} /\ Len(chain) \in Nat
        <4>1. q \in Nat
          BY <1>1
        <4>2. ClusterBytes \in Nat \ {0} /\ Len(chain) \in Nat
          BY BootNumbers, ChainNumbers DEF FatInv
        <4> QED BY <4>1, <4>2
      <3>2. q \div ClusterBytes + 1 <= Len(chain)
        BY <2>3
      <3> HIDE DEF q
      <3>3. q + (ClusterBytes - (q % ClusterBytes)) <= Len(chain) * ClusterBytes
        BY <3>1, <3>2, WithinClusters
      <3>4. q % ClusterBytes \in Nat /\ q % ClusterBytes < ClusterBytes
        BY <3>1, DivMod
      <3>5. Len(chain) * ClusterBytes \in Nat
        BY <3>1
      <3>6. q <= Len(chain) * ClusterBytes
        BY <3>1, <3>3, <3>4, <3>5
      <3> QED BY <3>6 DEF q
    <2>5. ResultSound(ReadResult(o))
      BY <2>2, <2>4, FullRead DEF FatInv
    <2> QED BY <2>1, <2>5, SoundLater DEF OpSound
  <1> QED BY <1>1, <1>2, <1>3, <1>4

-----------------------------------------------------------------------------
(* The operations. *)

LEMMA FatInit ==
  ASSUME Init
  PROVE  FatInv
  <1>1. VolumeInv
    BY DiskAssumption DEF Init, VolumeInv
  <1>2. CacheInv
    BY DEF Init, CacheInv
  <1>3. OpSound(op) /\ ResultSound(result)
    BY DEF Init, OpSound, ResultSound
  <1> QED BY <1>1, <1>2, <1>3, DiskAssumption DEF Init, FatInv

LEMMA VolumeKept ==
  ASSUME VolumeInv, UNCHANGED volume
  PROVE  VolumeInv'
  BY DEF volume, VolumeInv

LEMMA CacheKept ==
  ASSUME CacheInv, UNCHANGED volume, cache' = cache
  PROVE  CacheInv'
  BY DEF volume, CacheInv, FromDevice, FatStart

\* A block access leaves the cache coherent and stays within the bound.
LEMMA FetchBound ==
  ASSUME FatInv, NEW n, Fetch(n)
  PROVE  accesses' \in 0..MaxBlocks
  BY DiskAssumption DEF FatInv, Fetch

LEMMA FailKeeps ==
  ASSUME FatInv, NEW n, FetchFails(n)
  PROVE  FatInv'
  <1>1. op' = [kind |-> "idle"] /\ result' = [kind |-> "error"] /\ UNCHANGED volume
        /\ fs' = fs /\ cache' = cache
    BY DEF FetchFails
  <1>2. OpSound([kind |-> "idle"]) /\ ResultSound([kind |-> "error"])
    BY DEF OpSound, ResultSound
  <1>3. OpSound(op)' /\ ResultSound(result)'
    BY <1>1, <1>2, SoundLater
  <1>4. accesses' \in 0..MaxBlocks
    BY DiskAssumption DEF FatInv, FetchFails
  <1> QED BY <1>1, <1>3, <1>4, VolumeKept, CacheKept DEF FatInv

LEMMA RootBlock ==
  ASSUME FatInv
  PROVE  BlockOfCluster(boot.root_cluster) \in Int
  BY ClusterRead, BootNumbers DEF FatInv

LEMMA MountKeeps ==
  ASSUME FatInv, Mount
  PROVE  FatInv'
  <1>1. fs' = "mounted" /\ UNCHANGED <<volume, op, result>>
    BY DEF Mount
  <1>2. CacheInv' /\ accesses' \in 0..MaxBlocks
    <2>1. CASE Fetch(BlockOfCluster(boot.root_cluster))
      BY <1>1, <2>1, RootBlock, FetchKeeps, FetchBound DEF FatInv
    <2>2. CASE UNCHANGED <<cache, accesses>>
      BY <1>1, <2>2, CacheKept DEF FatInv
    <2> QED BY <2>1, <2>2 DEF Mount
  <1>3. OpSound(op)' /\ ResultSound(result)'
    BY <1>1, SoundLater DEF FatInv
  <1> QED BY <1>1, <1>2, <1>3, VolumeKept DEF FatInv

LEMMA RejectKeeps ==
  ASSUME FatInv, Reject
  PROVE  FatInv'
  <1>1. fs' = "rejected" /\ UNCHANGED <<volume, cache, op, result, accesses>>
    BY DEF Reject
  <1>2. OpSound(op)' /\ ResultSound(result)'
    BY <1>1, SoundLater DEF FatInv
  <1> QED BY <1>1, <1>2, VolumeKept, CacheKept DEF FatInv

LEMMA DirectoryKeeps ==
  ASSUME FatInv, UNCHANGED <<volume, fs, op>>, Fetch(DirBlock),
         result'.kind \in {"lookup", "list"}
  PROVE  FatInv'
  <1>1. CacheInv' /\ accesses' \in 0..MaxBlocks
    BY RootBlock, FetchKeeps, FetchBound DEF DirBlock, FatInv
  <1>2. ResultSound(result')
    BY DEF ResultSound
  <1>3. OpSound(op)' /\ ResultSound(result)'
    BY <1>2, SoundLater DEF FatInv
  <1> QED BY <1>1, <1>3, VolumeKept DEF FatInv

LEMMA StartKeeps ==
  ASSUME FatInv, NEW off \in Offsets, NEW n \in Sizes, StartRead(off, n)
  PROVE  FatInv'
  <1> DEFINE call == [kind |-> "call", off |-> off, n |-> n, size |-> Capped(off, n),
                      cluster |-> Head(chain), skip |-> off \div ClusterBytes,
                      bytes |-> 0, copied |-> <<>>]
  <1>1. UNCHANGED <<volume, fs, cache, asked, accesses>>
        /\ IF off >= size THEN Finish(ReadResult(call)) ELSE Continue(call)
    BY DEF StartRead
  <1>2. off \in Nat /\ n \in Nat /\ size \in Nat
    BY DiskAssumption DEF FatInv, VolumeInv
  <1>3. CopiedRight(off, <<>>, 0)
    BY DEF CopiedRight
  <1>4. OpSound(op)' /\ ResultSound(result)'
    <2>1. CASE off >= size
      <3>1. op' = [kind |-> "idle"] /\ result' = ReadResult(call)
        BY <1>1, <2>1 DEF Finish
      <3>2. ReadResult(call) = [kind |-> "read", off |-> off, n |-> n, copied |-> <<>>,
                                bytes |-> 0]
        BY DEF ReadResult
      <3>3. Len(chain) * ClusterBytes \in Nat
        BY ChainNumbers, BootNumbers DEF FatInv
      <3>4. off >= Readable
        BY <1>2, <2>1, <3>3 DEF Readable
      <3>5. ResultSound(ReadResult(call))
        BY <1>3, <3>2, <3>4 DEF ResultSound, ReadRight
      <3>6. OpSound([kind |-> "idle"])
        BY DEF OpSound
      <3> QED BY <1>1, <3>1, <3>5, <3>6, SoundLater
    <2>2. CASE off < size
      <3>1. off \div ClusterBytes \in Nat
        BY <1>2, BootNumbers, DivMod DEF FatInv
      <3>2. Capped(off, n) \in Nat
        BY <1>2, <2>2 DEF Capped
      <3>3. Head(chain) = chain[1] /\ 1 \in DOMAIN chain /\ chain[1] \in Nat
        BY ChainNumbers DEF FatInv, VolumeInv, SoundChain
      <3>4. call \in ReadOps /\ call.off = off /\ call.n = n /\ call.size = Capped(off, n)
            /\ call.cluster = chain[1] /\ call.skip = off \div ClusterBytes
            /\ call.bytes = 0 /\ call.copied = <<>>
        BY <1>2, <3>1, <3>2, <3>3 DEF ReadOps
      <3>5. Continue(call)
        BY <1>1, <1>2, <2>2
      <3> HIDE DEF call
      <3>6. ReadSound(call)
        BY <1>3, <2>2, <3>2, <3>4 DEF ReadSound
      <3>7. Skipping(call)
        BY <3>1, <3>3, <3>4 DEF Skipping, AtCluster
      <3>8. ASSUME call.skip = 0 PROVE Copying(call)
        <4>1. call.off + call.bytes = off
          BY <1>2, <3>4
        <4> QED BY <3>1, <3>3, <3>4, <3>8, <4>1 DEF Copying, AtCluster
      <3> QED BY <1>1, <3>5, <3>6, <3>7, <3>8, ContinueSound
    <2> QED BY <1>2, <2>1, <2>2
  <1> QED BY <1>1, <1>4, VolumeKept, CacheKept DEF FatInv

LEMMA EndsChain ==
  ASSUME FatInv, NEW i \in DOMAIN chain
  PROVE  IsEndOfChain(FatEntry(chain[i])) <=> i = Len(chain)
  <1>1. EndMark >= FirstEndMark
    BY SMT DEF EndMark, FirstEndMark
  <1>2. CASE i = Len(chain)
    BY <1>1, <1>2, EntryRead DEF FatInv, IsEndOfChain
  <1>3. CASE i # Len(chain)
    <2>1. i + 1 \in DOMAIN chain
      BY <1>3, ChainNumbers DEF FatInv
    <2>2. FatEntry(chain[i]) = chain[i + 1]
      BY <1>3, EntryRead DEF FatInv
    <2>3. chain[i + 1] \in Nat /\ chain[i + 1] < FirstEndMark
      BY <2>1, ChainNumbers DEF FatInv
    <2>4. FirstEndMark \in Nat
      BY SMT DEF FirstEndMark
    <2> QED BY <1>3, <2>2, <2>3, <2>4 DEF IsEndOfChain
  <1> QED BY <1>2, <1>3

LEMMA SkipKeeps ==
  ASSUME FatInv, SkipCluster
  PROVE  FatInv'
  <1>1. op.kind = "skip" /\ Fetch(BlockOfEntry(op.cluster)) /\ UNCHANGED <<volume, fs>>
    BY DEF SkipCluster
  <1>2. ReadSound(op) /\ op.skip > 0 /\ Skipping(op)
    BY <1>1 DEF FatInv, OpSound
  <1>3. /\ op \in ReadOps /\ op.off \in Nat /\ op.skip \in Nat /\ op.skip > 0
        /\ op.bytes = 0
    BY <1>2 DEF ReadSound, ReadOps, Skipping
  <1> DEFINE d == op.off \div ClusterBytes
             i == d - op.skip + 1
  <1>4. d \in Nat /\ ClusterBytes \in Nat \ {0}
    BY <1>3, BootNumbers, DivMod DEF FatInv
  <1>5. i \in DOMAIN chain /\ op.cluster = chain[i] /\ op.skip <= d
    BY <1>2 DEF Skipping, AtCluster
  <1> DEFINE next == FatEntry(op.cluster)
  <1>6. IF IsEndOfChain(next) THEN Finish([kind |-> "corrupt", off |-> op.off])
        ELSE Continue([op EXCEPT !.cluster = next, !.skip = @ - 1])
    BY DEF SkipCluster
  <1>7. OpSound(op)' /\ ResultSound(result)'
    <2>1. CASE i = Len(chain)
      <3>1. op' = [kind |-> "idle"] /\ result' = [kind |-> "corrupt", off |-> op.off]
        BY <1>5, <1>6, <2>1, EndsChain DEF Finish
      <3>2. d >= Len(chain) /\ Len(chain) \in Nat
        BY <1>3, <1>4, <2>1, ChainNumbers DEF FatInv
      <3>3. Len(chain) * ClusterBytes <= op.off
        BY <1>3, <1>4, <3>2, BehindClusters
      <3>4. OpSound([kind |-> "idle"]) /\ ResultSound([kind |-> "corrupt", off |-> op.off])
        BY <3>3 DEF OpSound, ResultSound
      <3> QED BY <1>1, <3>1, <3>4, SoundLater
    <2>2. CASE i # Len(chain)
      <3> DEFINE o == [op EXCEPT !.cluster = next, !.skip = @ - 1]
      <3>1. Continue(o)
        BY <1>5, <1>6, <2>2, EndsChain
      <3>2. i + 1 \in DOMAIN chain /\ next = chain[i + 1] /\ next \in Nat
        <4>1. i + 1 \in DOMAIN chain
          <5>1. DOMAIN chain = 1..Len(chain) /\ Len(chain) \in Nat
            BY ChainNumbers DEF FatInv
          <5>2. i \in DOMAIN chain
            BY <1>5
          <5> HIDE DEF i
          <5> QED BY <2>2, <5>1, <5>2
        <4>2. next = chain[i + 1]
          BY <1>5, <2>2, EntryRead DEF FatInv
        <4> QED BY <4>1, <4>2, ChainNumbers DEF FatInv
      <3> HIDE DEF next
      <3>3. /\ o \in ReadOps /\ o.off = op.off /\ o.n = op.n /\ o.size = op.size
            /\ o.cluster = chain[i + 1] /\ o.skip = op.skip - 1 /\ o.bytes = 0
            /\ o.copied = op.copied
        <4> DEFINE k == op.skip - 1
        <4>1. k \in Nat /\ next \in Nat
          BY <1>3, <3>2
        <4> HIDE DEF k
        <4>2. o = [op EXCEPT !.cluster = next, !.skip = k]
          BY DEF k
        <4>3. /\ o \in ReadOps /\ o.off = op.off /\ o.n = op.n /\ o.size = op.size
              /\ o.cluster = next /\ o.skip = k /\ o.bytes = op.bytes
              /\ o.copied = op.copied
          BY <1>3, <4>1, <4>2 DEF ReadOps
        <4> HIDE DEF o
        <4> QED BY <1>3, <3>2, <4>3 DEF k
      <3> HIDE DEF o
      <3>4. ReadSound(o)
        BY <1>2, <1>3, <3>3 DEF ReadSound
      <3>5. d - o.skip + 1 = i + 1 /\ o.skip <= d
        BY <1>3, <1>4, <1>5, <3>3
      <3>6. Skipping(o)
        BY <3>2, <3>3, <3>5 DEF Skipping, AtCluster
      <3>7. ASSUME o.skip = 0 PROVE Copying(o)
        <4>1. o.off + o.bytes = op.off /\ d + 1 = i + 1
          BY <1>3, <1>4, <3>3, <3>5, <3>7
        <4>2. AtCluster(o, (o.off + o.bytes) \div ClusterBytes + 1)
          BY <3>2, <3>3, <4>1 DEF AtCluster
        <4> QED BY <3>3, <3>7, <4>2 DEF Copying
      <3> QED BY <1>1, <3>1, <3>4, <3>6, <3>7, ContinueSound
    <2> QED BY <2>1, <2>2
  <1>8. BlockOfEntry(op.cluster) \in Int
    BY <1>5, EntryRead DEF FatInv
  <1> QED BY <1>1, <1>7, <1>8, VolumeKept, FetchKeeps, FetchBound DEF FatInv

LEMMA NextClusterKeeps ==
  ASSUME FatInv, NextCluster
  PROVE  FatInv'
  <1>1. op.kind = "next" /\ Fetch(BlockOfEntry(op.cluster)) /\ UNCHANGED <<volume, fs>>
    BY DEF NextCluster
  <1>2. ReadSound(op) /\ Advancing(op)
    BY <1>1 DEF FatInv, OpSound
  <1>3. /\ op \in ReadOps /\ op.off \in Nat /\ op.bytes \in Nat /\ op.skip = 0
        /\ op.bytes < op.size
    BY <1>2 DEF ReadSound, ReadOps, Advancing
  <1> DEFINE q == op.off + op.bytes
             i == q \div ClusterBytes
  <1>4. q \in Nat /\ ClusterBytes \in Nat \ {0} /\ q % ClusterBytes = 0
    BY <1>2, <1>3, BootNumbers DEF FatInv, Advancing
  <1>5. i \in DOMAIN chain /\ op.cluster = chain[i]
    BY <1>2 DEF Advancing, AtCluster
  <1> DEFINE next == FatEntry(op.cluster)
  <1>6. IF IsEndOfChain(next) THEN Finish(ReadResult(op))
        ELSE Continue([op EXCEPT !.cluster = next])
    BY DEF NextCluster
  <1>7. OpSound(op)' /\ ResultSound(result)'
    <2>1. CASE i = Len(chain)
      <3>1. op' = [kind |-> "idle"] /\ result' = ReadResult(op)
        BY <1>5, <1>6, <2>1, EndsChain DEF Finish
      <3>2. q = Len(chain) * ClusterBytes
        <4> HIDE DEF q
        <4>1. q = (q \div ClusterBytes) * ClusterBytes + (q % ClusterBytes)
              /\ q \div ClusterBytes \in Nat
          BY <1>4, DivMod
        <4>2. (q \div ClusterBytes) * ClusterBytes \in Nat
          BY <1>4, <4>1
        <4> QED BY <1>4, <2>1, <4>1, <4>2
      <3>3. ResultSound(ReadResult(op))
        BY <1>2, <1>3, <3>2, ShortRead DEF FatInv
      <3>4. OpSound([kind |-> "idle"])
        BY DEF OpSound
      <3> QED BY <1>1, <3>1, <3>3, <3>4, SoundLater
    <2>2. CASE i # Len(chain)
      <3> DEFINE o == [op EXCEPT !.cluster = next]
      <3>1. Continue(o)
        BY <1>5, <1>6, <2>2, EndsChain
      <3>2. i + 1 \in DOMAIN chain /\ next = chain[i + 1] /\ next \in Nat
        <4>1. i + 1 \in DOMAIN chain
          BY <1>5, <2>2, ChainNumbers DEF FatInv
        <4>2. next = chain[i + 1]
          BY <1>5, <2>2, EntryRead DEF FatInv
        <4> QED BY <4>1, <4>2, ChainNumbers DEF FatInv
      <3> HIDE DEF next
      <3>3. /\ o \in ReadOps /\ o.off = op.off /\ o.n = op.n /\ o.size = op.size
            /\ o.cluster = chain[i + 1] /\ o.skip = 0 /\ o.bytes = op.bytes
            /\ o.copied = op.copied
        BY <1>3, <3>2 DEF ReadOps
      <3> HIDE DEF o
      <3>4. ReadSound(o)
        BY <1>2, <1>3, <3>3 DEF ReadSound
      <3>5. Copying(o)
        BY <1>4, <3>2, <3>3 DEF Copying, AtCluster
      <3> QED BY <1>1, <3>1, <3>3, <3>4, <3>5, ContinueSound
    <2> QED BY <2>1, <2>2
  <1>8. BlockOfEntry(op.cluster) \in Int
    BY <1>5, EntryRead DEF FatInv
  <1> QED BY <1>1, <1>7, <1>8, VolumeKept, FetchKeeps, FetchBound DEF FatInv

\* One more piece, from where the file has it, continues what was copied.
LEMMA PieceRight ==
  ASSUME NEW off \in Nat, NEW copied \in Seq(Pieces), NEW bytes \in Nat,
         CopiedRight(off, copied, bytes),
         NEW piece \in Pieces, piece.to = bytes, piece.from = AddressOf(off + bytes),
         ((off + bytes) % ClusterBytes) + piece.len <= ClusterBytes
  PROVE  CopiedRight(off, Append(copied, piece), bytes + piece.len)
  <1> DEFINE c == Append(copied, piece)
  <1>1. /\ c \in Seq(Pieces) /\ Len(c) = Len(copied) + 1 /\ DOMAIN c = 1..(Len(copied) + 1)
        /\ DOMAIN copied = 1..Len(copied) /\ Len(copied) \in Nat
        /\ c[Len(copied) + 1] = piece /\ c # <<>>
        /\ \A i \in 1..Len(copied) : c[i] = copied[i]
    OBVIOUS
  <1> HIDE DEF c
  <1>2. bytes + piece.len = Last(c).to + Last(c).len
    BY <1>1 DEF Last
  <1>3. ASSUME NEW i \in DOMAIN c
        PROVE  /\ c[i].to = IF i = 1 THEN 0 ELSE c[i - 1].to + c[i - 1].len
               /\ c[i].from = AddressOf(off + c[i].to)
               /\ ((off + c[i].to) % ClusterBytes) + c[i].len <= ClusterBytes
    <2>1. CASE i \in 1..Len(copied)
      <3>1. c[i] = copied[i] /\ i \in DOMAIN copied
        BY <1>1, <2>1
      <3>2. i # 1 => c[i - 1] = copied[i - 1]
        BY <1>1, <2>1
      <3> QED BY <3>1, <3>2 DEF CopiedRight
    <2>2. CASE i = Len(copied) + 1
      <3>1. c[i] = piece
        BY <1>1, <2>2
      <3>2. CASE copied = <<>>
        BY <2>2, <3>1, <3>2 DEF CopiedRight
      <3>3. CASE copied # <<>>
        <4>1. i # 1 /\ i - 1 = Len(copied) /\ i - 1 \in 1..Len(copied)
          BY <1>1, <2>2, <3>3
        <4>2. c[i - 1] = Last(copied)
          BY <1>1, <4>1 DEF Last
        <4> QED BY <3>1, <3>3, <4>1, <4>2 DEF CopiedRight
      <3> QED BY <3>2, <3>3
    <2> QED BY <1>1, <2>1, <2>2
  <1>4. CopiedRight(off, c, bytes + piece.len)
    BY <1>1, <1>2, <1>3 DEF CopiedRight
  <1> QED BY <1>4 DEF c

LEMMA CopyKeeps ==
  ASSUME FatInv, CopyCluster
  PROVE  FatInv'
  <1>1. op.kind = "copy" /\ Fetch(BlockOfCluster(op.cluster)) /\ UNCHANGED <<volume, fs>>
    BY DEF CopyCluster
  <1>2. ReadSound(op) /\ Copying(op) /\ op.bytes < op.size
    BY <1>1 DEF FatInv, OpSound
  <1>3. /\ op \in ReadOps /\ op.off \in Nat /\ op.bytes \in Nat /\ op.size \in Nat
        /\ op.skip = 0 /\ op.copied \in Seq(Pieces) /\ op.cluster \in Nat
    BY <1>2 DEF ReadSound, ReadOps, Copying
  <1> DEFINE q == op.off + op.bytes
             d == q \div ClusterBytes
             m == q % ClusterBytes
             len == BytesToRead
  <1>4. /\ q \in Nat /\ ClusterBytes \in Nat \ {0}
        /\ d \in Nat /\ m \in Nat /\ m < ClusterBytes
    <2>1. q \in Nat
      BY <1>3
    <2>2. ClusterBytes \in Nat \ {0}
      BY BootNumbers DEF FatInv
    <2> HIDE DEF q
    <2> QED BY <2>1, <2>2, DivMod
  <1>5. d + 1 \in DOMAIN chain /\ op.cluster = chain[d + 1] /\ d + 1 <= Len(chain)
    BY <1>2, ChainNumbers DEF Copying, AtCluster, FatInv
  <1>6. InCluster = m
    <2>1. CASE op.bytes = 0
      BY <1>3, <2>1 DEF InCluster
    <2>2. CASE op.bytes # 0
      BY <1>2, <2>2 DEF InCluster, Copying
    <2> QED BY <2>1, <2>2
  <1> HIDE DEF q, d, m
  <1>7. /\ len \in Nat /\ len > 0 /\ m + len <= ClusterBytes
        /\ op.bytes + len <= op.size
        /\ op.bytes + len < op.size => len = ClusterBytes - m
    <2>1. len = IF op.size - op.bytes < ClusterBytes - m
                THEN op.size - op.bytes ELSE ClusterBytes - m
      BY <1>6 DEF BytesToRead
    <2> HIDE DEF len
    <2>2. op.size \in Nat /\ op.bytes \in Nat /\ op.bytes < op.size
          /\ ClusterBytes \in Nat /\ m \in Nat /\ m < ClusterBytes
      BY <1>2, <1>3, <1>4
    <2> QED BY <2>1, <2>2
  <1> DEFINE piece == [to |-> op.bytes, len |-> len,
                       from |-> Block(BlockOfCluster(op.cluster)).sector * SectorBytes + InCluster]
             after == [op EXCEPT !.copied = Append(@, piece), !.bytes = @ + len]
  <1>8. IF after.bytes < op.size THEN Proceed([after EXCEPT !.kind = "next"])
        ELSE Finish(ReadResult(after))
    BY DEF CopyCluster
  <1>9. /\ piece \in Pieces /\ piece.to = op.bytes /\ piece.len = len
        /\ piece.from = AddressOf(op.off + op.bytes)
    <2>1. /\ Block(BlockOfCluster(op.cluster)).sector = SectorOfCluster(chain[d + 1])
          /\ SectorOfCluster(chain[d + 1]) \in Int
      BY <1>3, <1>5, ClusterRead DEF FatInv
    <2>2. Block(BlockOfCluster(op.cluster)).sector * SectorBytes + InCluster
            = SectorOfCluster(chain[d + 1]) * SectorBytes + m
      BY <1>6, <2>1
    <2>3. AddressOf(q) = SectorOfCluster(chain[d + 1]) * SectorBytes + m
      BY DEF AddressOf, d, m
    <2>4. SectorOfCluster(chain[d + 1]) * SectorBytes + m \in Int
      BY <1>4, <2>1 DEF SectorBytes
    <2> DEFINE from == Block(BlockOfCluster(op.cluster)).sector * SectorBytes + InCluster
    <2>5. from \in Int /\ from = AddressOf(q)
      BY <2>2, <2>3, <2>4
    <2> HIDE DEF from, len
    <2>6. piece = [to |-> op.bytes, len |-> len, from |-> from]
      BY DEF from
    <2> HIDE DEF piece
    <2>7. op.bytes \in Nat /\ len \in Nat
      BY <1>3, <1>7
    <2> QED BY <2>5, <2>6, <2>7 DEF Pieces, q
  <1> HIDE DEF piece
  <1>10. CopiedRight(op.off, Append(op.copied, piece), op.bytes + len)
    <2>1. ((op.off + op.bytes) % ClusterBytes) + piece.len <= ClusterBytes
      BY <1>7, <1>9 DEF m, q
    <2> QED BY <1>2, <1>3, <1>9, <2>1, PieceRight DEF ReadSound
  <1> HIDE DEF len
  <1>11. /\ after \in ReadOps /\ after.off = op.off /\ after.n = op.n /\ after.size = op.size
         /\ after.cluster = op.cluster /\ after.skip = 0 /\ after.bytes = op.bytes + len
         /\ after.copied = Append(op.copied, piece) /\ after.kind = "copy"
    <2> DEFINE c == Append(op.copied, piece)
               b == op.bytes + len
    <2>1. c \in Seq(Pieces) /\ b \in Nat
      BY <1>3, <1>7, <1>9
    <2> HIDE DEF c, b
    <2>2. after = [op EXCEPT !.copied = c, !.bytes = b]
      BY DEF c, b
    <2> HIDE DEF after
    <2>3. /\ after \in ReadOps /\ after.off = op.off /\ after.n = op.n /\ after.size = op.size
          /\ after.cluster = op.cluster /\ after.skip = op.skip /\ after.bytes = b
          /\ after.copied = c /\ after.kind = op.kind
      BY <1>3, <2>1, <2>2 DEF ReadOps
    <2> QED BY <1>1, <1>3, <2>3 DEF c, b
  <1> HIDE DEF after
  <1>12. ReadSound(after)
    BY <1>2, <1>7, <1>10, <1>11 DEF ReadSound
  <1>13. OpSound(op)' /\ ResultSound(result)'
    <2>1. CASE after.bytes < op.size
      <3> DEFINE o == [after EXCEPT !.kind = "next"]
      <3>1. op' = o /\ result' = result
        BY <1>8, <2>1 DEF Proceed
      <3>2. /\ o \in ReadOps /\ o.kind = "next" /\ o.off = op.off /\ o.n = after.n
            /\ o.size = op.size /\ o.cluster = op.cluster /\ o.skip = 0
            /\ o.bytes = op.bytes + len /\ o.copied = after.copied
        BY <1>11 DEF ReadOps
      <3> HIDE DEF o
      <3>3. ReadSound(o)
        BY <1>11, <1>12, <3>2 DEF ReadSound
      <3>4. len = ClusterBytes - m
        BY <1>7, <1>11, <2>1
      <3>5. o.off + o.bytes = q + (ClusterBytes - m)
        BY <1>3, <1>4, <3>2, <3>4 DEF q
      <3>6. /\ (q + (ClusterBytes - m)) % ClusterBytes = 0
            /\ (q + (ClusterBytes - m)) \div ClusterBytes = d + 1
        BY <1>4, NextBoundary DEF d, m
      <3>7. Advancing(o)
        BY <1>5, <1>11, <2>1, <3>2, <3>5, <3>6 DEF Advancing, AtCluster
      <3>8. OpSound(o)
        BY <3>2, <3>3, <3>7 DEF OpSound
      <3> QED BY <1>1, <3>1, <3>8, SoundLater DEF FatInv
    <2>2. CASE ~(after.bytes < op.size)
      <3>1. op' = [kind |-> "idle"] /\ result' = ReadResult(after)
        BY <1>8, <2>2 DEF Finish
      <3>2. after.bytes = after.size
        <4>1. /\ after.bytes = op.bytes + len /\ after.size = op.size
              /\ op.bytes + len <= op.size /\ ~(after.bytes < op.size)
          BY <1>7, <1>11, <2>2
        <4>2. op.bytes \in Nat /\ len \in Nat /\ op.size \in Nat
          BY <1>3, <1>7
        <4> QED BY ONLY <4>1, <4>2
      <3>3. after.off + after.bytes <= Len(chain) * ClusterBytes
        <4>1. q + (ClusterBytes - m) <= Len(chain) * ClusterBytes
          BY <1>4, <1>5, ChainNumbers, WithinClusters DEF FatInv, d, m
        <4>2. after.off + after.bytes = q + len
          BY <1>3, <1>7, <1>11 DEF q
        <4>3. Len(chain) * ClusterBytes \in Nat
          BY <1>4, ChainNumbers DEF FatInv
        <4> QED BY <1>4, <1>7, <4>1, <4>2, <4>3
      <3>4. ResultSound(ReadResult(after))
        BY <1>12, <3>2, <3>3, FullRead DEF FatInv
      <3>5. OpSound([kind |-> "idle"])
        BY DEF OpSound
      <3> QED BY <1>1, <3>1, <3>4, <3>5, SoundLater
    <2> QED BY <2>1, <2>2
  <1>14. BlockOfCluster(op.cluster) \in Int
    BY <1>3, ClusterRead DEF FatInv
  <1> QED BY <1>1, <1>13, <1>14, VolumeKept, FetchKeeps, FetchBound DEF FatInv

LEMMA StutterKeeps ==
  ASSUME FatInv, UNCHANGED vars
  PROVE  FatInv'
  <1>1. UNCHANGED <<volume, fs, cache, op, result, accesses>>
    BY DEF vars, volume
  <1>2. OpSound(op)' /\ ResultSound(result)'
    BY <1>1, SoundLater DEF FatInv
  <1> QED BY <1>1, <1>2, VolumeKept, CacheKept DEF FatInv

LEMMA NextKeeps ==
  ASSUME FatInv, [Next]_vars
  PROVE  FatInv'
  <1>1. CASE Mount \/ Reject
    BY <1>1, MountKeeps, RejectKeeps
  <1>2. ASSUME NEW off \in Offsets, NEW n \in Sizes, StartRead(off, n)
        PROVE  FatInv'
    BY <1>2, StartKeeps
  <1>3. CASE ReadStep
    BY <1>3, SkipKeeps, CopyKeeps, NextClusterKeeps, FailKeeps DEF ReadStep, ReadFails
  <1>4. ASSUME NEW name \in Names, Lookup(name)
        PROVE  FatInv'
    BY <1>4, DirectoryKeeps DEF Lookup
  <1>5. CASE List
    BY <1>5, DirectoryKeeps DEF List
  <1>6. CASE DirectoryFails
    BY <1>6, FailKeeps DEF DirectoryFails
  <1> QED BY <1>1, <1>2, <1>3, <1>4, <1>5, <1>6, StutterKeeps DEF Next

LEMMA FatInvariant == Spec => []FatInv
  <1>1. Init => FatInv
    BY FatInit
  <1>2. FatInv /\ [Next]_vars => FatInv'
    BY NextKeeps
  <1> QED BY <1>1, <1>2, PTL DEF Spec

-----------------------------------------------------------------------------
(* What was asked of the device, and what the cache kept of it.            *)

\* A block is cached just when the device has served it, and is not asked for
\* once it is.
AskedInv ==
  /\ asked \in Seq([number : Int, served : BOOLEAN])
  /\ \A i \in DOMAIN cache : cache[i].number \in Served
  /\ \A n \in Served : Hit(n)
  /\ BlocksReadOnce

\* A step that neither accesses a block nor touches the cache.
LEMMA NothingAsked ==
  ASSUME AskedInv, UNCHANGED <<cache, asked>>
  PROVE  AskedInv'
  <1>1. Served' = Served /\ (BlocksReadOnce' <=> BlocksReadOnce)
    BY DEF Served, BlocksReadOnce
  <1>2. \A n : Hit(n)' = Hit(n)
    BY DEF Hit, CachedAt
  <1> QED BY <1>1, <1>2 DEF AskedInv

\* The numbers of the requests of a list that were served.
ServedOf(s) == {s[i].number : i \in {j \in DOMAIN s : s[j].served}}

\* One more request adds its number, if it was served.
LEMMA ServedAppend ==
  ASSUME NEW T, NEW s \in Seq(T), NEW e \in T
  PROVE  ServedOf(Append(s, e)) = IF e.served THEN ServedOf(s) \cup {e.number} ELSE ServedOf(s)
  <1>1. PICK r : r = Append(s, e)
    OBVIOUS
  <1>2. PICK k : k = Len(s) + 1
    OBVIOUS
  <1>3. /\ r \in Seq(T) /\ \A i : i \in DOMAIN r <=> i \in DOMAIN s \/ i = k
        /\ \A i \in DOMAIN s : r[i] = s[i]
        /\ r[k] = e
    BY <1>1, <1>2
  <1>4. \A m : m \in ServedOf(r) <=> \E i \in DOMAIN r : r[i].served /\ m = r[i].number
    BY DEF ServedOf
  <1>5. \A m : m \in ServedOf(s) <=> \E i \in DOMAIN s : s[i].served /\ m = s[i].number
    BY DEF ServedOf
  <1>6. \A m : m \in ServedOf(r) <=> m \in ServedOf(s) \/ (e.served /\ m = e.number)
    BY <1>3, <1>4, <1>5
  <1>7. CASE e.served
    BY <1>1, <1>6, <1>7
  <1>8. CASE ~e.served
    BY <1>1, <1>6, <1>8
  <1> QED BY <1>7, <1>8

\* A block that is not cached was never served: asking for it is in order,
\* and adds it to the served ones if the device serves it.
LEMMA AskedLater ==
  ASSUME AskedInv, NEW n \in Int, NEW served \in BOOLEAN, Ask(n, served)
  PROVE  /\ asked' \in Seq([number : Int, served : BOOLEAN])
         /\ BlocksReadOnce'
         /\ Served' = IF served THEN Served \cup {n} ELSE Served
  <1>1. CASE Hit(n)
    <2>1. asked' = asked
      BY <1>1 DEF Ask
    <2>2. PICK i \in DOMAIN cache : cache[i].number = n
      BY <1>1 DEF Hit, CachedAt
    <2>3. n \in Served
      BY <2>2 DEF AskedInv
    <2> QED BY <2>1, <2>3 DEF AskedInv, BlocksReadOnce, Served
  <1>2. CASE ~Hit(n)
    <2> DEFINE T == [number : Int, served : BOOLEAN]
               request == [number |-> n, served |-> served]
               k == Len(asked) + 1
    <2>1. asked \in Seq(T) /\ asked' = Append(asked, request)
      BY <1>2 DEF Ask, AskedInv
    <2>2. request \in T /\ request.number = n /\ request.served = served
      OBVIOUS
    <2> HIDE DEF T, request
    <2>3. /\ Len(asked) \in Nat /\ DOMAIN asked = 1..Len(asked)
          /\ asked' \in Seq(T) /\ DOMAIN asked' = 1..k
          /\ \A i \in DOMAIN asked : asked'[i] = asked[i]
          /\ asked'[k] = request
      BY <2>1, <2>2
    <2>4. n \notin Served
      BY <1>2 DEF AskedInv
    <2>5. ASSUME NEW i \in DOMAIN asked', NEW j \in DOMAIN asked', i < j, asked'[i].served
          PROVE  asked'[j].number # asked'[i].number
      <3>1. i \in DOMAIN asked /\ (j \in DOMAIN asked \/ j = k)
        BY <2>3, <2>5
      <3>2. CASE j \in DOMAIN asked
        BY <2>3, <2>5, <3>1, <3>2 DEF AskedInv, BlocksReadOnce
      <3>3. CASE j = k
        <4>1. asked[i].number \in Served
          BY <2>3, <2>5, <3>1 DEF Served
        <4> QED BY <2>2, <2>3, <2>4, <3>1, <3>3, <4>1
      <3> QED BY <3>1, <3>2, <3>3
    <2>8. BlocksReadOnce'
      BY <2>5, Zenon DEF BlocksReadOnce
    <2>9. Served' = IF served THEN Served \cup {n} ELSE Served
      <3>1. Served = ServedOf(asked) /\ Served' = ServedOf(asked')
        BY DEF Served, ServedOf
      <3> QED BY <2>1, <2>2, <3>1, ServedAppend
    <2> QED BY <2>3, <2>8, <2>9 DEF T
  <1> QED BY <1>1, <1>2

\* A failed access, also that of the constructor, leaves the cache alone.
LEMMA FailureAsks ==
  ASSUME AskedInv, NEW n \in Int, Ask(n, FALSE), cache' = cache
  PROVE  AskedInv'
  <1>1. /\ asked' \in Seq([number : Int, served : BOOLEAN])
        /\ BlocksReadOnce' /\ Served' = Served
    BY AskedLater
  <1>2. \A m : Hit(m)' = Hit(m)
    BY DEF Hit, CachedAt
  <1> QED BY <1>1, <1>2 DEF AskedInv

\* An access that succeeds leaves its block in the cache.
LEMMA FetchAsks ==
  ASSUME FatInv, AskedInv, NEW n \in Int, Fetch(n)
  PROVE  AskedInv'
  <1>1. cache' = <<FromDevice(n)>> \o cache /\ Ask(n, TRUE)
    BY BlockIsDevice DEF Fetch, FatInv
  <1>2. /\ asked' \in Seq([number : Int, served : BOOLEAN])
        /\ BlocksReadOnce' /\ Served' = Served \cup {n}
    BY <1>1, AskedLater
  <1>3. FromDevice(n) \in [number : Int, sector : Int] /\ FromDevice(n).number = n
    BY DeviceBlock DEF FatInv
  <1>4. cache \in Seq([number : Int, sector : Int])
    BY DEF FatInv, CacheInv
  <1> DEFINE b == FromDevice(n)
             T == [number : Int, sector : Int]
  <1> HIDE DEF b, T
  <1>5. /\ Len(cache) \in Nat /\ DOMAIN cache = 1..Len(cache)
        /\ DOMAIN cache' = 1..(Len(cache) + 1)
        /\ cache'[1] = b
        /\ \A i \in DOMAIN cache : cache'[i + 1] = cache[i]
    <2>1. b \in T /\ cache \in Seq(T) /\ cache' = <<b>> \o cache
      BY <1>1, <1>3, <1>4 DEF b, T
    <2> QED BY <2>1
  <1>6. ASSUME NEW i \in DOMAIN cache'
        PROVE  cache'[i].number \in Served'
    <2>1. CASE i = 1
      BY <1>2, <1>3, <1>5, <2>1 DEF b
    <2>2. CASE i # 1
      <3>1. i - 1 \in DOMAIN cache /\ (i - 1) + 1 = i
        BY <1>5, <2>2
      <3>2. cache'[i] = cache[i - 1]
        BY <1>5, <3>1
      <3> QED BY <1>2, <3>1, <3>2 DEF AskedInv
    <2> QED BY <2>1, <2>2
  <1>7. ASSUME NEW m \in Served'
        PROVE  Hit(m)'
    <2>1. CASE m = n
      <3>1. 1 \in DOMAIN cache' /\ cache'[1].number = m
        BY <1>3, <1>5, <2>1 DEF b
      <3> QED BY <3>1 DEF Hit, CachedAt
    <2>2. CASE m \in Served
      <3>1. PICK i \in DOMAIN cache : cache[i].number = m
        BY <2>2 DEF AskedInv, Hit, CachedAt
      <3>2. i + 1 \in DOMAIN cache' /\ cache'[i + 1].number = m
        BY <1>5, <3>1
      <3> QED BY <3>2 DEF Hit, CachedAt
    <2> QED BY <1>2, <2>1, <2>2
  <1> QED BY <1>2, <1>6, <1>7 DEF AskedInv

\* The block an operation is about to access.
LEMMA BlockAccessed ==
  ASSUME FatInv
  PROVE  /\ DirBlock \in Int /\ BlockOfCluster(boot.root_cluster) \in Int
         /\ op.kind \in {"skip", "copy", "next"} =>
              BlockOfEntry(op.cluster) \in Int /\ BlockOfCluster(op.cluster) \in Int
  <1>1. DirBlock \in Int /\ BlockOfCluster(boot.root_cluster) \in Int
    BY RootBlock DEF DirBlock
  <1>2. ASSUME op.kind \in {"skip", "copy", "next"}
        PROVE  \E i \in DOMAIN chain : op.cluster = chain[i]
    BY <1>2 DEF FatInv, OpSound, Skipping, Copying, Advancing, AtCluster
  <1>3. ASSUME NEW i \in DOMAIN chain, op.cluster = chain[i]
        PROVE  BlockOfEntry(op.cluster) \in Int /\ BlockOfCluster(op.cluster) \in Int
    <2>1. BlockOfEntry(op.cluster) \in Int
      BY <1>3, EntryRead DEF FatInv
    <2>2. op.cluster \in Nat
      BY <1>3, ChainNumbers DEF FatInv
    <2> QED BY <2>1, <2>2, ClusterRead DEF FatInv
  <1> QED BY <1>1, <1>2, <1>3

\* Every step accesses one block, successfully or not, or none.
LEMMA AskedKept ==
  ASSUME FatInv, AskedInv, [Next]_vars
  PROVE  AskedInv'
  <1>1. CASE Mount
    BY <1>1, BlockAccessed, FetchAsks, FailureAsks DEF Mount
  <1>2. CASE Reject
    BY <1>2, NothingAsked DEF Reject
  <1>3. ASSUME NEW off \in Offsets, NEW n \in Sizes, StartRead(off, n)
        PROVE  AskedInv'
    BY <1>3, NothingAsked DEF StartRead
  <1>4. CASE SkipCluster
    BY <1>4, BlockAccessed, FetchAsks DEF SkipCluster
  <1>5. CASE CopyCluster
    BY <1>5, BlockAccessed, FetchAsks DEF CopyCluster
  <1>6. CASE NextCluster
    BY <1>6, BlockAccessed, FetchAsks DEF NextCluster
  <1>7. CASE ReadFails
    BY <1>7, BlockAccessed, FailureAsks DEF ReadFails, FetchFails
  <1>8. ASSUME NEW name \in Names, Lookup(name)
        PROVE  AskedInv'
    BY <1>8, BlockAccessed, FetchAsks DEF Lookup
  <1>9. CASE List
    BY <1>9, BlockAccessed, FetchAsks DEF List
  <1>10. CASE DirectoryFails
    BY <1>10, BlockAccessed, FailureAsks DEF DirectoryFails, FetchFails
  <1>11. CASE UNCHANGED vars
    BY <1>11, NothingAsked DEF vars
  <1> QED
    BY <1>1, <1>2, <1>3, <1>4, <1>5, <1>6, <1>7, <1>8, <1>9, <1>10, <1>11 DEF Next, ReadStep

LEMMA AskedInvariant == Spec => [](FatInv /\ AskedInv)
  <1>1. Init => AskedInv
    BY DEF Init, AskedInv, Served, BlocksReadOnce
  <1>2. FatInv /\ AskedInv /\ [Next]_vars => AskedInv'
    BY AskedKept
  <1> QED BY <1>1, <1>2, FatInvariant, PTL DEF Spec

\* The cache holds exactly the blocks the device has served, each what the
\* disk has at its number: on every disk and after any sequence of reads,
\* lookups and failed accesses, none is lost, misplaced or half read.  And what
\* it holds is found: read_block_poll asks the device for no block twice.
THEOREM CacheStaysCoherent == Spec => []CacheCoherent
  <1>1. ASSUME FatInv, AskedInv
        PROVE  CacheCoherent
    <2>1. \A b : b \in Range(cache) <=> \E i \in DOMAIN cache : b = cache[i]
      BY DEF Range
    <2>2. ASSUME NEW b \in Range(cache) PROVE \E n \in Served : b = FromDevice(n)
      BY <1>1, <2>1, <2>2 DEF FatInv, CacheInv, AskedInv
    <2>3. ASSUME NEW n \in Served PROVE FromDevice(n) \in Range(cache)
      <3>1. PICK i \in DOMAIN cache : cache[i].number = n
        BY <1>1, <2>3 DEF AskedInv, Hit, CachedAt
      <3>2. cache[i] = FromDevice(n)
        BY <1>1, <3>1 DEF FatInv, CacheInv
      <3> QED BY <2>1, <3>2
    <2>4. BlocksReadOnce
      BY <1>1 DEF AskedInv
    <2> QED BY <2>2, <2>3, <2>4 DEF CacheCoherent
  <1> QED BY <1>1, AskedInvariant, PTL

\* A read returns the file's bytes, as many as were asked for and the chain
\* holds, for every chain, offset, buffer size and cluster size, whatever the
\* cache holds; "Corrupt FAT chain" is only reported of a chain shorter than
\* the offset.
THEOREM ReadsReturnFile == Spec => []ReadReturnsFile
  <1>1. FatInv => ReadReturnsFile
    BY DEF FatInv, OpSound, ReadSound, ResultSound, ReadRight, ReadReturnsFile
  <1> QED BY <1>1, FatInvariant, PTL

\* The mounted volume's state keeps its type.
THEOREM TypesKept == Spec => []TypeOK
  <1>1. FatInv => TypeOK
    BY DEF FatInv, CacheInv, OpSound, TypeOK
  <1> QED BY <1>1, FatInvariant, PTL

-----------------------------------------------------------------------------
(* Directories.  The entries of each file lie behind those of the file     *)
(* before it, and both walks go from file to file.                         *)

\* The directory's names are ones the code handles.
Handled(d) ==
  /\ SoundDirectory(d)
  /\ \A i \in DOMAIN d : Len(d[i].parts) <= 1 /\ ~d[i].read_only

\* The entries of a file with at most one long-name entry.
LEMMA LayoutCases ==
  ASSUME NEW d, Handled(d), NEW i \in DOMAIN d
  PROVE  /\ d[i].parts = <<>> => LayoutOf(d[i]) = <<StandardEntry(d[i])>>
         /\ d[i].parts # <<>> =>
              /\ LayoutOf(d[i]) = <<LongEntry(d[i], 1), StandardEntry(d[i])>>
              /\ d[i].parts = <<d[i].parts[1]>>
              /\ Len(d[i].parts) = 1
  <1> DEFINE f == d[i]
             long == [k \in 1..Len(f.parts) |-> LongEntry(f, Len(f.parts) + 1 - k)]
             P == Range(f.parts)
  <1>1. f.parts \in Seq(P) /\ Len(f.parts) \in Nat /\ Len(f.parts) <= 1
    <2>1. f.parts \in Seq(P)
      BY DEF Handled, SoundDirectory
    <2> HIDE DEF P
    <2> QED BY <2>1 DEF Handled
  <1>2. CASE f.parts = <<>>
    <2>1. Len(f.parts) = 0
      BY <1>2
    <2>2. long = <<>>
      BY <2>1
    <2>3. LayoutOf(f) = long \o <<StandardEntry(f)>>
      BY DEF LayoutOf
    <2> HIDE DEF long
    <2>4. LayoutOf(f) = <<StandardEntry(f)>>
      BY <2>2, <2>3
    <2> QED BY <1>2, <2>4
  <1>3. CASE f.parts # <<>>
    <2>1. Len(f.parts) = 1
      <3> HIDE DEF P
      <3>1. Len(f.parts) \in Nat \ {0}
        BY <1>1, <1>3, EmptySeq, Zenon
      <3>2. \A n \in Nat \ {0} : n <= 1 => n = 1
        OBVIOUS
      <3> QED BY <1>1, <3>1, <3>2, Zenon
    <2>2. long = <<LongEntry(f, 1)>>
      BY <2>1
    <2>3. LayoutOf(f) = long \o <<StandardEntry(f)>>
      BY DEF LayoutOf
    <2>4. f.parts = <<f.parts[1]>>
      <3> HIDE DEF P
      <3> QED BY <1>1, <2>1
    <2> HIDE DEF long
    <2>5. LayoutOf(f) = <<LongEntry(f, 1), StandardEntry(f)>>
      <3>1. LayoutOf(f) = <<LongEntry(f, 1)>> \o <<StandardEntry(f)>>
        BY <2>2, <2>3
      <3> QED BY <3>1, JoinTwo, Zenon
    <2> QED BY <1>3, <2>1, <2>4, <2>5
  <1> QED BY <1>2, <1>3

\* at[i] is the first entry of file i, at[Len(d) + 1] the end of the entries.
Places(d, es, at) ==
  /\ at \in [1..(Len(d) + 1) -> Nat \ {0}]
  /\ at[1] = 1 /\ at[Len(d) + 1] = Len(es) + 1
  /\ \A i \in 1..Len(d) :
       /\ at[i + 1] <= Len(es) + 1
       /\ d[i].parts = <<>> => at[i + 1] = at[i] + 1 /\ es[at[i]] = StandardEntry(d[i])
       /\ d[i].parts # <<>> => /\ at[i + 1] = at[i] + 2
                               /\ es[at[i]] = LongEntry(d[i], 1)
                               /\ es[at[i] + 1] = StandardEntry(d[i])

\* The entries of a directory.
EntriesOf(d) == {StandardEntry(d[i]) : i \in 1..Len(d)} \cup {LongEntry(d[i], 1) : i \in 1..Len(d)}
Layouts(d) == [i \in 1..Len(d) |-> LayoutOf(d[i])]

LEMMA LayoutsType ==
  ASSUME NEW d, Handled(d)
  PROVE  /\ Len(d) \in Nat /\ DOMAIN d = 1..Len(d)
         /\ Layouts(d) \in Seq(Seq(EntriesOf(d)))
         /\ Len(Layouts(d)) = Len(d)
         /\ Layout(d) = FlattenSeq(Layouts(d))
         /\ \A i \in 1..Len(d) : Len(LayoutOf(d[i])) = IF d[i].parts = <<>> THEN 1 ELSE 2
  <1>1. Len(d) \in Nat /\ DOMAIN d = 1..Len(d)
    <2>1. d \in Seq(Range(d))
      BY DEF Handled, SoundDirectory
    <2> DEFINE R == Range(d)
    <2> HIDE DEF R
    <2>2. d \in Seq(R)
      BY <2>1 DEF R
    <2> QED BY <2>2
  <1>2. ASSUME NEW i \in 1..Len(d)
        PROVE  /\ LayoutOf(d[i]) \in Seq(EntriesOf(d))
               /\ Len(LayoutOf(d[i])) = IF d[i].parts = <<>> THEN 1 ELSE 2
    <2>1. StandardEntry(d[i]) \in EntriesOf(d) /\ LongEntry(d[i], 1) \in EntriesOf(d)
      BY DEF EntriesOf
    <2>2. i \in DOMAIN d
      BY <1>1
    <2>3. CASE d[i].parts = <<>>
      <3>1. LayoutOf(d[i]) = <<StandardEntry(d[i])>>
        BY <2>2, <2>3, LayoutCases
      <3> QED BY <2>1, <2>3, <3>1
    <2>4. CASE d[i].parts # <<>>
      <3>1. LayoutOf(d[i]) = <<LongEntry(d[i], 1), StandardEntry(d[i])>>
        BY <2>2, <2>4, LayoutCases
      <3> QED BY <2>1, <2>4, <3>1
    <2> QED BY <2>3, <2>4
  <1>3. Layouts(d) \in Seq(Seq(EntriesOf(d))) /\ Len(Layouts(d)) = Len(d)
    BY <1>1, <1>2 DEF Layouts
  <1> QED BY <1>1, <1>2, <1>3 DEF Layout, Layouts
LEMMA PlacesExist ==
  ASSUME NEW d, Handled(d)
  PROVE  \E at : Places(d, Layout(d), at)
  <1> DEFINE L == Layouts(d)
             es == Layout(d)
  <1>1. /\ Len(d) \in Nat /\ DOMAIN d = 1..Len(d) /\ L \in Seq(Seq(EntriesOf(d)))
        /\ Len(L) = Len(d) /\ es = FlattenSeq(L)
        /\ \A i \in 1..Len(d) : Len(LayoutOf(d[i])) = IF d[i].parts = <<>> THEN 1 ELSE 2
    BY LayoutsType
  <1>2. \A i \in 1..Len(d) : L[i] = LayoutOf(d[i])
    BY DEF Layouts
  <1> HIDE DEF L, es
  <1>3. PICK at : FlatPlaces(L, es, at)
    BY <1>1, FlattenPlaces
  <1>4. at \in [1..(Len(d) + 1) -> Nat \ {0}] /\ at[1] = 1 /\ at[Len(d) + 1] = Len(es) + 1
    BY <1>1, <1>3 DEF FlatPlaces
  <1>5. ASSUME NEW i \in 1..Len(d)
        PROVE  /\ at[i + 1] <= Len(es) + 1
               /\ d[i].parts = <<>> => at[i + 1] = at[i] + 1 /\ es[at[i]] = StandardEntry(d[i])
               /\ d[i].parts # <<>> => /\ at[i + 1] = at[i] + 2
                                       /\ es[at[i]] = LongEntry(d[i], 1)
                                       /\ es[at[i] + 1] = StandardEntry(d[i])
    <2>1. /\ at[i + 1] = at[i] + Len(LayoutOf(d[i]))
          /\ at[i + 1] <= Len(es) + 1
          /\ \A k \in 1..Len(LayoutOf(d[i])) : es[at[i] + k - 1] = LayoutOf(d[i])[k]
      <3>1. \A k \in 1..Len(L) : /\ at[k + 1] = at[k] + Len(L[k])
                                 /\ at[k + 1] <= Len(es) + 1
                                 /\ \A m \in 1..Len(L[k]) : es[at[k] + m - 1] = L[k][m]
        BY <1>3 DEF FlatPlaces
      <3>2. i \in 1..Len(L) /\ L[i] = LayoutOf(d[i])
        BY <1>1, <1>2
      <3> QED BY <3>1, <3>2
    <2>2. at[i] \in Nat
      <3>1. i \in 1..(Len(d) + 1)
        BY <1>1
      <3> QED BY <1>4, <3>1
    <2>3. i \in DOMAIN d
      BY <1>1
    <2>4. CASE d[i].parts = <<>>
      <3>1. LayoutOf(d[i]) = <<StandardEntry(d[i])>>
        BY <2>3, <2>4, LayoutCases
      <3>2. Len(LayoutOf(d[i])) = 1 /\ LayoutOf(d[i])[1] = StandardEntry(d[i])
        BY <3>1
      <3>3. at[i] + 1 - 1 = at[i] /\ 1 \in 1..1
        BY <2>2
      <3>4. es[at[i] + 1 - 1] = LayoutOf(d[i])[1]
        BY <2>1, <3>2, <3>3
      <3> QED BY <2>1, <2>4, <3>2, <3>3, <3>4
    <2>5. CASE d[i].parts # <<>>
      <3>1. LayoutOf(d[i]) = <<LongEntry(d[i], 1), StandardEntry(d[i])>>
        BY <2>3, <2>5, LayoutCases
      <3>2. Len(LayoutOf(d[i])) = 2 /\ LayoutOf(d[i])[1] = LongEntry(d[i], 1)
            /\ LayoutOf(d[i])[2] = StandardEntry(d[i])
        BY <3>1
      <3>3. at[i] + 1 - 1 = at[i] /\ at[i] + 2 - 1 = at[i] + 1 /\ 1 \in 1..2 /\ 2 \in 1..2
        BY <2>2
      <3>4. es[at[i] + 1 - 1] = LayoutOf(d[i])[1] /\ es[at[i] + 2 - 1] = LayoutOf(d[i])[2]
        BY <2>1, <3>2, <3>3
      <3> QED BY <2>1, <2>5, <3>2, <3>3, <3>4
    <2> QED BY <2>4, <2>5
  <1>6. Places(d, es, at)
    BY <1>4, <1>5 DEF Places
  <1> QED BY <1>6 DEF es

-----------------------------------------------------------------------------
\* The rounds of the two walks.  Each goes on at a later entry or ends.

ChildRound(from, es, name, i) ==
  IF i > Len(es) THEN [kind |-> "missing"]
  ELSE IF es[i].free THEN from[i + 1]
  ELSE IF ~IsLongName(es[i])
       THEN IF es[i].text = name THEN [kind |-> "found", entry |-> es[i]]
            ELSE from[i + 1]
  ELSE LET j == LastLong(es, i)
       IN  IF j = 0 THEN [kind |-> "overrun"]
           ELSE IF IsLongName(EntryAt(es, j + 1)) THEN [kind |-> "corrupt"]
           ELSE IF LongName(es, i, j) = name
                THEN [kind |-> "found", entry |-> EntryAt(es, j + 1)]
           ELSE from[AfterLong(j)]
ListRound(from, es, i) ==
  IF i > Len(es) THEN <<>>
  ELSE IF es[i].free THEN from[i + 1]
  ELSE IF ~IsLongName(es[i]) THEN <<es[i].text>> \o from[i + 1]
  ELSE LET j == LastLong(es, i)
       IN  IF j = 0 THEN <<"overrun">>
           ELSE <<LongName(es, i, j)>> \o from[AfterLong(j)]

LEMMA LastLongRange ==
  ASSUME NEW es, Len(es) \in Nat, NEW i \in 1..Len(es)
  PROVE  LastLong(es, i) = 0 \/ LastLong(es, i) \in i..Len(es)
  <1> DEFINE Final == {j \in i..Len(es) : es[j].bit6}
  <1>1. CASE Final = {}
    BY <1>1 DEF LastLong
  <1>2. CASE Final # {}
    <2>1. Final \subseteq Nat /\ Final \subseteq i..Len(es)
      OBVIOUS
    <2>2. LastLong(es, i) = CHOOSE j \in Final : \A k \in Final : j <= k
      BY <1>2 DEF LastLong
    <2> HIDE DEF Final
    <2>3. \E j \in Final : \A k \in Final : j <= k
      BY <1>2, <2>1, LeastNumber
    <2>4. LastLong(es, i) \in Final
      BY <2>2, <2>3
    <2> QED BY <2>1, <2>4
  <1> QED BY <1>1, <1>2

LEMMA ChildWalk ==
  ASSUME NEW es, Len(es) \in Nat, NEW name
  PROVE  \E f : /\ \A i \in 1..(Len(es) + 2) : f[i] = ChildRound(f, es, name, i)
                /\ GetChild(es, name) = f[1]
  <1> DEFINE N == Len(es) + 2
             Sol(f) == f = [i \in 1..N |-> ChildRound(f, es, name, i)]
             nx == [i \in 1..N |->
                      IF i > Len(es) THEN 0
                      ELSE IF es[i].free THEN i + 1
                      ELSE IF ~IsLongName(es[i]) THEN IF es[i].text = name THEN 0 ELSE i + 1
                      ELSE LET j == LastLong(es, i)
                           IN  IF \/ j = 0 \/ IsLongName(EntryAt(es, j + 1))
                                  \/ LongName(es, i, j) = name
                               THEN 0 ELSE j + 2]
             v == [i \in 1..N |->
                      IF i > Len(es) THEN [kind |-> "missing"]
                      ELSE IF ~IsLongName(es[i]) THEN [kind |-> "found", entry |-> es[i]]
                      ELSE LET j == LastLong(es, i)
                           IN  IF j = 0 THEN [kind |-> "overrun"]
                               ELSE IF IsLongName(EntryAt(es, j + 1)) THEN [kind |-> "corrupt"]
                               ELSE [kind |-> "found", entry |-> EntryAt(es, j + 1)]]
             kept == [i \in 1..N |-> TRUE]
  <1>1. N \in Nat
    OBVIOUS
  <1>2. ASSUME NEW i \in 1..N PROVE nx[i] \in 0..N /\ (nx[i] = 0 \/ nx[i] > i)
    <2>1. CASE i > Len(es)
      BY <2>1
    <2>2. CASE ~(i > Len(es))
      <3>1. i \in 1..Len(es) /\ i + 1 \in 0..N /\ i + 1 > i
        BY <2>2
      <3>2. LastLong(es, i) = 0 \/ LastLong(es, i) \in i..Len(es)
        BY <3>1, LastLongRange
      <3>3. LastLong(es, i) # 0 => LastLong(es, i) + 2 \in 0..N /\ LastLong(es, i) + 2 > i
        BY <3>1, <3>2
      <3> QED BY <2>2, <3>1, <3>3
    <2> QED BY <2>1, <2>2
  <1>3. ASSUME NEW f, NEW i \in 1..N
        PROVE  Stride(f, nx, v, kept, kept, i) = ChildRound(f, es, name, i)
    <2>0. kept[i] = TRUE
      OBVIOUS
    <2>1. CASE i > Len(es)
      BY <2>1 DEF Stride, ChildRound
    <2>2. CASE ~(i > Len(es)) /\ (es[i].free \/ ~IsLongName(es[i]))
      <3>1. i + 1 # 0
        OBVIOUS
      <3> QED BY <2>0, <2>2, <3>1 DEF Stride, ChildRound
    <2>3. CASE ~(i > Len(es)) /\ ~es[i].free /\ IsLongName(es[i])
      <3>1. i \in 1..Len(es)
        BY <2>3
      <3>2. LastLong(es, i) = 0 \/ LastLong(es, i) \in i..Len(es)
        BY <3>1, LastLongRange
      <3>3. LastLong(es, i) # 0 => LastLong(es, i) + 2 # 0
        BY <3>1, <3>2
      <3> QED BY <2>0, <2>3, <3>3 DEF Stride, ChildRound, AfterLong
    <2> QED BY <2>1, <2>2, <2>3
  <1>4. nx \in [1..N -> 0..N] /\ \A i \in 1..N : nx[i] = 0 \/ nx[i] > i
    BY <1>2
  <1> HIDE DEF nx, v, kept, N
  <1>5. PICK g : Strides(g, N, nx, v, kept, kept)
    BY <1>1, <1>4, StridesExist, Zenon
  <1>6. Sol(g)
    BY <1>3, <1>5 DEF Strides
  <1> DEFINE f == CHOOSE h : Sol(h)
  <1>7. Sol(f)
    <2> HIDE DEF Sol
    <2> QED BY <1>6
  <1>8. GetChild(es, name) = f[1]
    BY DEF GetChild, ChildRound, N
  <1> HIDE DEF f
  <1>9. \A i \in 1..N : f[i] = ChildRound(f, es, name, i)
    <2> DEFINE r(i) == ChildRound(f, es, name, i)
    <2>2. f = [i \in 1..N |-> r(i)]
      BY <1>7
    <2>3. \A i \in 1..N : f[i] = r(i)
      <3> HIDE DEF r
      <3> QED BY <2>2
    <2> QED BY <2>3
  <1> QED BY <1>8, <1>9 DEF N
LEMMA ListWalk ==
  ASSUME NEW es, Len(es) \in Nat
  PROVE  \E f : /\ \A i \in 1..(Len(es) + 2) : f[i] = ListRound(f, es, i)
                /\ ListDir(es) = f[1]
  <1> DEFINE N == Len(es) + 2
             Sol(f) == f = [i \in 1..N |-> ListRound(f, es, i)]
             nx == [i \in 1..N |->
                      IF i > Len(es) THEN 0
                      ELSE IF es[i].free \/ ~IsLongName(es[i]) THEN i + 1
                      ELSE IF LastLong(es, i) = 0 THEN 0 ELSE LastLong(es, i) + 2]
             v == [i \in 1..N |-> IF i > Len(es) THEN <<>> ELSE <<"overrun">>]
             kept == [i \in 1..N |-> es[i].free]
             pre == [i \in 1..N |-> IF ~IsLongName(es[i]) THEN <<es[i].text>>
                                    ELSE <<LongName(es, i, LastLong(es, i))>>]
  <1>1. N \in Nat
    OBVIOUS
  <1>2. ASSUME NEW i \in 1..N PROVE nx[i] \in 0..N /\ (nx[i] = 0 \/ nx[i] > i)
    <2>1. CASE i > Len(es)
      BY <2>1
    <2>2. CASE ~(i > Len(es))
      <3>1. i \in 1..Len(es) /\ i + 1 \in 0..N /\ i + 1 > i
        BY <2>2
      <3>2. LastLong(es, i) = 0 \/ LastLong(es, i) \in i..Len(es)
        BY <3>1, LastLongRange
      <3>3. LastLong(es, i) # 0 => LastLong(es, i) + 2 \in 0..N /\ LastLong(es, i) + 2 > i
        BY <3>1, <3>2
      <3> QED BY <2>2, <3>1, <3>3
    <2> QED BY <2>1, <2>2
  <1>3. ASSUME NEW f, NEW i \in 1..N
        PROVE  Stride(f, nx, v, kept, pre, i) = ListRound(f, es, i)
    <2>1. CASE i > Len(es)
      BY <2>1 DEF Stride, ListRound
    <2>2. CASE ~(i > Len(es)) /\ (es[i].free \/ ~IsLongName(es[i]))
      <3>1. i + 1 # 0 /\ nx[i] = i + 1
        BY <2>2
      <3>2. kept[i] = es[i].free /\ (~IsLongName(es[i]) => pre[i] = <<es[i].text>>)
        OBVIOUS
      <3> HIDE DEF nx, v, kept, pre
      <3> QED BY <2>2, <3>1, <3>2 DEF Stride, ListRound
    <2>3. CASE ~(i > Len(es)) /\ ~es[i].free /\ IsLongName(es[i])
      <3>1. i \in 1..Len(es)
        BY <2>3
      <3>2. LastLong(es, i) = 0 \/ LastLong(es, i) \in i..Len(es)
        BY <3>1, LastLongRange
      <3>3. LastLong(es, i) # 0 => LastLong(es, i) + 2 # 0
        BY <3>1, <3>2
      <3>4. /\ nx[i] = IF LastLong(es, i) = 0 THEN 0 ELSE LastLong(es, i) + 2
            /\ kept[i] = es[i].free /\ pre[i] = <<LongName(es, i, LastLong(es, i))>>
            /\ v[i] = <<"overrun">>
        BY <2>3
      <3> HIDE DEF nx, v, kept, pre
      <3> QED BY <2>3, <3>3, <3>4 DEF Stride, ListRound, AfterLong
    <2> QED BY <2>1, <2>2, <2>3
  <1>4. nx \in [1..N -> 0..N] /\ \A i \in 1..N : nx[i] = 0 \/ nx[i] > i
    BY <1>2
  <1> HIDE DEF nx, v, kept, pre, N
  <1>5. PICK g : Strides(g, N, nx, v, kept, pre)
    BY <1>1, <1>4, StridesExist, Zenon
  <1>6. Sol(g)
    BY <1>3, <1>5 DEF Strides
  <1> DEFINE f == CHOOSE h : Sol(h)
  <1>7. Sol(f)
    <2> HIDE DEF Sol
    <2> QED BY <1>6
  <1>8. ListDir(es) = f[1]
    BY DEF ListDir, ListRound, N
  <1> HIDE DEF f
  <1>9. \A i \in 1..N : f[i] = ListRound(f, es, i)
    <2> DEFINE r(i) == ListRound(f, es, i)
    <2>2. f = [i \in 1..N |-> r(i)]
      BY <1>7
    <2>3. \A i \in 1..N : f[i] = r(i)
      <3> HIDE DEF r
      <3> QED BY <2>2
    <2> QED BY <2>3
  <1> QED BY <1>8, <1>9 DEF N

-----------------------------------------------------------------------------
\* From file to file.

\* What both walks see at the entries of file i.
LEMMA FileEntries ==
  ASSUME NEW d, Handled(d), NEW es, Len(es) \in Nat, NEW at, Places(d, es, at),
         NEW i \in 1..Len(d)
  PROVE  /\ at[i] \in 1..Len(es) /\ at[i + 1] \in 1..(Len(es) + 1)
         /\ es[at[i]].free = d[i].deleted
         /\ d[i].parts = <<>> => /\ at[i + 1] = at[i] + 1
                                 /\ ~IsLongName(es[at[i]])
                                 /\ es[at[i]] = StandardEntry(d[i])
                                 /\ es[at[i]].text = NameOf(d[i])
         /\ d[i].parts # <<>> => /\ at[i + 1] = at[i] + 2
                                 /\ at[i] + 1 \in 1..Len(es)
                                 /\ es[at[i] + 1].free = d[i].deleted
                                 /\ IsLongName(es[at[i]])
                                 /\ LastLong(es, at[i]) = at[i]
                                 /\ LongName(es, at[i], at[i]) = NameOf(d[i])
                                 /\ EntryAt(es, at[i] + 1) = StandardEntry(d[i])
                                 /\ ~IsLongName(EntryAt(es, at[i] + 1))
  <1>1. Len(d) \in Nat /\ DOMAIN d = 1..Len(d)
    BY LayoutsType
  <1>2. /\ at[i + 1] <= Len(es) + 1
        /\ d[i].parts = <<>> => at[i + 1] = at[i] + 1 /\ es[at[i]] = StandardEntry(d[i])
        /\ d[i].parts # <<>> => /\ at[i + 1] = at[i] + 2
                                /\ es[at[i]] = LongEntry(d[i], 1)
                                /\ es[at[i] + 1] = StandardEntry(d[i])
    BY DEF Places
  <1>3. at[i] \in Nat \ {0} /\ at[i + 1] \in Nat \ {0}
    <2>1. at \in [1..(Len(d) + 1) -> Nat \ {0}]
      BY DEF Places
    <2>2. i \in 1..(Len(d) + 1) /\ i + 1 \in 1..(Len(d) + 1)
      BY <1>1
    <2> QED BY <2>1, <2>2
  <1>4. ~d[i].read_only
    BY <1>1 DEF Handled
  <1> DEFINE p == at[i]
             f == d[i]
  <1>5. StandardEntry(f).free = f.deleted /\ ~StandardEntry(f).bit0 /\ StandardEntry(f).text = <<f.short>>
    BY <1>4 DEF StandardEntry
  <1>6. CASE f.parts = <<>>
    <2>1. p \in 1..Len(es) /\ at[i + 1] \in 1..(Len(es) + 1)
      BY <1>2, <1>3, <1>6
    <2>2. NameOf(f) = <<f.short>>
      BY <1>6 DEF NameOf
    <2> QED BY <1>2, <1>5, <1>6, <2>1, <2>2 DEF IsLongName
  <1>7. CASE f.parts # <<>>
    <2>1. p \in 1..Len(es) /\ at[i + 1] \in 1..(Len(es) + 1) /\ p + 1 \in 1..Len(es)
      BY <1>2, <1>3, <1>7
    <2>2. f.parts = <<f.parts[1]>> /\ Len(f.parts) = 1
      BY <1>1, <1>7, LayoutCases
    <2>3. NameOf(f) = <<f.parts[1]>>
      BY <1>7, <2>2 DEF NameOf
    <2>4. /\ LongEntry(f, 1).free = f.deleted /\ LongEntry(f, 1).bit0 /\ LongEntry(f, 1).bit6
          /\ LongEntry(f, 1).text = <<f.parts[1]>>
      BY <2>2 DEF LongEntry
    <2>5. es[p] = LongEntry(f, 1) /\ es[p + 1] = StandardEntry(f) /\ at[i + 1] = p + 2
      BY <1>2, <1>7
    <2> HIDE DEF p, f
    <2>6. LastLong(es, p) = p
      <3> DEFINE Final == {j \in p..Len(es) : es[j].bit6}
      <3>1. p \in Final /\ \A k \in Final : p <= k
        BY <2>1, <2>4, <2>5
      <3>2. Final \subseteq Nat
        BY <2>1
      <3>3. LastLong(es, p) = CHOOSE j \in Final : \A k \in Final : j <= k
        BY <3>1 DEF LastLong
      <3> HIDE DEF Final
      <3>4. \A j \in Final : (\A k \in Final : j <= k) => j = p
        BY <3>1, <3>2
      <3> QED BY <3>1, <3>3, <3>4
    <2>7. LongName(es, p, p) = <<f.parts[1]>>
      <3> DEFINE t == <<f.parts[1]>>
      <3>1. p - p + 1 = 1 /\ p + 1 - 1 = p
        BY <2>1
      <3>2. [k \in 1..(p - p + 1) |-> es[p + 1 - k].text] = <<es[p].text>>
        BY <3>1
      <3>3. LongName(es, p, p) = FlattenSeq(<<t>>)
        BY <2>4, <2>5, <3>2 DEF LongName
      <3>4. t \in Seq({f.parts[1]})
        OBVIOUS
      <3> HIDE DEF t
      <3>5. FlattenSeq(<<t>>) = t
        BY <3>4, FlattenOne, Zenon
      <3> QED BY <3>3, <3>5 DEF t
    <2>8. EntryAt(es, p + 1) = StandardEntry(f)
      BY <2>1, <2>5 DEF EntryAt
    <2>9. ~IsLongName(StandardEntry(f)) /\ IsLongName(es[p])
      BY <1>5, <2>4, <2>5 DEF IsLongName, p, f
    <2>10. es[p].free = f.deleted /\ es[p + 1].free = f.deleted
      BY <1>5, <2>4, <2>5 DEF f
    <2>11. f.parts # <<>>
      BY <1>7 DEF f
    <2> USE DEF p, f
    <2> QED BY <2>1, <2>3, <2>5, <2>6, <2>7, <2>8, <2>9, <2>10, <2>11
  <1> QED BY <1>6, <1>7

LEMMA ChildStep ==
  ASSUME NEW d, Handled(d), NEW es, Len(es) \in Nat, NEW at, Places(d, es, at),
         NEW i \in 1..Len(d), NEW name, NEW f,
         \A k \in 1..(Len(es) + 2) : f[k] = ChildRound(f, es, name, k)
  PROVE  f[at[i]] = IF ~d[i].deleted /\ NameOf(d[i]) = name
                    THEN [kind |-> "found", entry |-> StandardEntry(d[i])]
                    ELSE f[at[i + 1]]
  <1> DEFINE p == at[i]
  <1>0. /\ p \in 1..Len(es) /\ at[i + 1] \in 1..(Len(es) + 1)
        /\ es[p].free = d[i].deleted
        /\ d[i].parts = <<>> => /\ at[i + 1] = p + 1
                                /\ ~IsLongName(es[p])
                                /\ es[p] = StandardEntry(d[i])
                                /\ es[p].text = NameOf(d[i])
        /\ d[i].parts # <<>> => /\ at[i + 1] = p + 2
                                /\ p + 1 \in 1..Len(es)
                                /\ es[p + 1].free = d[i].deleted
                                /\ IsLongName(es[p])
                                /\ LastLong(es, p) = p
                                /\ LongName(es, p, p) = NameOf(d[i])
                                /\ EntryAt(es, p + 1) = StandardEntry(d[i])
                                /\ ~IsLongName(EntryAt(es, p + 1))
    BY FileEntries
  <1> HIDE DEF p
  <1>1. p \in 1..(Len(es) + 2) /\ ~(p > Len(es)) /\ p # 0
    BY <1>0
  <1>2. f[p] = ChildRound(f, es, name, p)
    BY <1>1
  <1>3. CASE d[i].parts = <<>>
    BY <1>0, <1>1, <1>2, <1>3 DEF ChildRound, p
  <1>4. CASE d[i].parts # <<>> /\ d[i].deleted
    <2>1. p + 1 \in 1..(Len(es) + 2) /\ ~(p + 1 > Len(es)) /\ (p + 1) + 1 = p + 2
      <3>1. p \in 1..Len(es) /\ p + 1 \in 1..Len(es)
        BY <1>0, <1>4, Zenon
      <3> QED BY <3>1
    <2>2. f[p + 1] = ChildRound(f, es, name, p + 1)
      BY <2>1
    <2>3. f[p + 1] = f[p + 2]
      BY <1>0, <1>4, <2>1, <2>2 DEF ChildRound
    <2>4. f[p] = f[p + 1]
      BY <1>0, <1>1, <1>2, <1>4 DEF ChildRound
    <2> QED BY <1>0, <1>4, <2>3, <2>4 DEF p
  <1>5. CASE d[i].parts # <<>> /\ ~d[i].deleted
    BY <1>0, <1>1, <1>2, <1>5 DEF ChildRound, AfterLong, p
  <1> QED BY <1>3, <1>4, <1>5

LEMMA ListStep ==
  ASSUME NEW d, Handled(d), NEW es, Len(es) \in Nat, NEW at, Places(d, es, at),
         NEW i \in 1..Len(d), NEW f,
         \A k \in 1..(Len(es) + 2) : f[k] = ListRound(f, es, k)
  PROVE  f[at[i]] = IF d[i].deleted THEN f[at[i + 1]] ELSE <<NameOf(d[i])>> \o f[at[i + 1]]
  <1> DEFINE p == at[i]
  <1>0. /\ p \in 1..Len(es) /\ at[i + 1] \in 1..(Len(es) + 1)
        /\ es[p].free = d[i].deleted
        /\ d[i].parts = <<>> => /\ at[i + 1] = p + 1
                                /\ ~IsLongName(es[p])
                                /\ es[p].text = NameOf(d[i])
        /\ d[i].parts # <<>> => /\ at[i + 1] = p + 2
                                /\ p + 1 \in 1..Len(es)
                                /\ es[p + 1].free = d[i].deleted
                                /\ IsLongName(es[p])
                                /\ LastLong(es, p) = p
                                /\ LongName(es, p, p) = NameOf(d[i])
    BY FileEntries
  <1> HIDE DEF p
  <1>1. p \in 1..(Len(es) + 2) /\ ~(p > Len(es)) /\ p # 0
    BY <1>0
  <1>2. f[p] = ListRound(f, es, p)
    BY <1>1
  <1>3. CASE d[i].parts = <<>>
    BY <1>0, <1>1, <1>2, <1>3 DEF ListRound, p
  <1>4. CASE d[i].parts # <<>> /\ d[i].deleted
    <2>1. p + 1 \in 1..(Len(es) + 2) /\ ~(p + 1 > Len(es)) /\ (p + 1) + 1 = p + 2
      <3>1. p \in 1..Len(es) /\ p + 1 \in 1..Len(es)
        BY <1>0, <1>4, Zenon
      <3> QED BY <3>1
    <2>2. f[p + 1] = ListRound(f, es, p + 1)
      BY <2>1
    <2>3. f[p + 1] = f[p + 2]
      BY <1>0, <1>4, <2>1, <2>2 DEF ListRound
    <2>4. f[p] = f[p + 1]
      BY <1>0, <1>1, <1>2, <1>4 DEF ListRound
    <2> QED BY <1>0, <1>4, <2>3, <2>4 DEF p
  <1>5. CASE d[i].parts # <<>> /\ ~d[i].deleted
    BY <1>0, <1>1, <1>2, <1>5 DEF ListRound, AfterLong, p
  <1> QED BY <1>3, <1>4, <1>5

-----------------------------------------------------------------------------
\* The answers, from the last file back to the first.

\* Files from file i on with that name.
NamedFrom(d, name, i) == {k \in i..Len(d) : NameOf(d[k]) = name /\ ~d[k].deleted}

LEMMA LookupRight ==
  ASSUME NEW d, Handled(d), NEW name
  PROVE  LookupAnswers(d, name, GetChild(Layout(d), name))
  <1> DEFINE es == Layout(d)
             n == Len(d)
  <1>1. n \in Nat /\ DOMAIN d = 1..n /\ Len(es) \in Nat
    <2>1. FlattenSeq(Layouts(d)) \in Seq(EntriesOf(d))
      BY LayoutsType, FlattenType
    <2>2. es \in Seq(EntriesOf(d))
      BY <2>1, LayoutsType
    <2> HIDE DEF es
    <2> QED BY <2>2, LayoutsType
  <1>2. PICK at : Places(d, es, at)
    BY PlacesExist
  <1> HIDE DEF es
  <1>3. PICK f : /\ \A i \in 1..(Len(es) + 2) : f[i] = ChildRound(f, es, name, i)
                 /\ GetChild(es, name) = f[1]
    BY <1>1, ChildWalk
  <1> DEFINE Right(i) == IF NamedFrom(d, name, i) = {} THEN f[at[i]].kind = "missing"
                         ELSE /\ f[at[i]].kind = "found"
                              /\ \E k \in NamedFrom(d, name, i) : f[at[i]].entry = StandardEntry(d[k])
             G == {m \in 1..(n + 1) : Right(n + 2 - m)}
  <1>4. Right(n + 1)
    <2>1. NamedFrom(d, name, n + 1) = {}
      BY <1>1 DEF NamedFrom
    <2>2. at[n + 1] = Len(es) + 1
      BY <1>2 DEF Places
    <2>3. f[Len(es) + 1] = [kind |-> "missing"]
      <3>1. Len(es) + 1 \in 1..(Len(es) + 2) /\ Len(es) + 1 > Len(es)
        BY <1>1
      <3>2. f[Len(es) + 1] = ChildRound(f, es, name, Len(es) + 1)
        BY <1>3, <3>1
      <3> QED BY <3>1, <3>2 DEF ChildRound
    <2> QED BY <2>1, <2>2, <2>3
  <1>5. ASSUME NEW i \in 1..n, Right(i + 1) PROVE Right(i)
    <2>1. f[at[i]] = IF ~d[i].deleted /\ NameOf(d[i]) = name
                     THEN [kind |-> "found", entry |-> StandardEntry(d[i])]
                     ELSE f[at[i + 1]]
      BY <1>1, <1>2, <1>3, ChildStep
    <2>2. CASE ~d[i].deleted /\ NameOf(d[i]) = name
      <3>1. i \in NamedFrom(d, name, i)
        BY <1>1, <2>2 DEF NamedFrom
      <3>2. f[at[i]].kind = "found" /\ f[at[i]].entry = StandardEntry(d[i])
        BY <2>1, <2>2
      <3> QED BY <3>1, <3>2
    <2>3. CASE ~(~d[i].deleted /\ NameOf(d[i]) = name)
      <3>1. NamedFrom(d, name, i) = NamedFrom(d, name, i + 1)
        BY <1>1, <2>3 DEF NamedFrom
      <3>2. f[at[i]] = f[at[i + 1]]
        BY <2>1, <2>3
      <3> QED BY <1>5, <3>1, <3>2
    <2> QED BY <2>2, <2>3
  <1> HIDE DEF n, Right
  <1>6. ASSUME NEW m \in 1..(n + 1), m = 1 \/ m - 1 \in G PROVE m \in G
    <2>1. CASE m = 1
      <3>1. n + 2 - m = n + 1
        BY <1>1, <2>1
      <3> QED BY <1>4, <3>1
    <2>2. CASE m # 1
      <3>1. n + 2 - m \in 1..n /\ n + 2 - (m - 1) = (n + 2 - m) + 1
        BY <1>1, <2>2
      <3>2. Right((n + 2 - m) + 1)
        BY <1>6, <2>2, <3>1
      <3> QED BY <1>5, <3>1, <3>2
    <2> QED BY <2>1, <2>2
  <1>7. n + 1 \in Nat /\ n + 1 \in 1..(n + 1) /\ n + 2 - (n + 1) = 1
    BY <1>1
  <1>8. n + 1 \in G
    <2> HIDE DEF G
    <2> QED BY <1>6, <1>7, Induction
  <1>9. Right(1)
    BY <1>7, <1>8
  <1>10. at[1] = 1
    BY <1>2 DEF Places
  <1>11. NamedFrom(d, name, 1) = FilesNamed(d, name)
    BY <1>1 DEF NamedFrom, FilesNamed, n
  <1>12. LookupAnswers(d, name, GetChild(es, name))
    BY <1>3, <1>9, <1>10, <1>11 DEF Right, LookupAnswers
  <1> QED BY <1>12 DEF es

\* The names each file contributes to a listing.
Listed(d) == [i \in 1..Len(d) |-> IF d[i].deleted THEN <<>> ELSE <<NameOf(d[i])>>]

LEMMA ListRight ==
  ASSUME NEW d, Handled(d)
  PROVE  ListDir(Layout(d)) = NamesListed(d)
  <1> DEFINE es == Layout(d)
             n == Len(d)
             T == {NameOf(d[i]) : i \in 1..Len(d)}
             L == Listed(d)
  <1>1. n \in Nat /\ DOMAIN d = 1..n /\ Len(es) \in Nat
    <2>1. FlattenSeq(Layouts(d)) \in Seq(EntriesOf(d))
      BY LayoutsType, FlattenType
    <2>2. es \in Seq(EntriesOf(d))
      BY <2>1, LayoutsType
    <2> HIDE DEF es
    <2> QED BY <2>2, LayoutsType
  <1>2. PICK at : Places(d, es, at)
    BY PlacesExist
  <1>3. /\ L \in Seq(Seq(T)) /\ Len(L) = n
        /\ \A i \in 1..n : L[i] = IF d[i].deleted THEN <<>> ELSE <<NameOf(d[i])>>
    <2>1. \A i \in 1..n : NameOf(d[i]) \in T
      OBVIOUS
    <2> HIDE DEF T
    <2>2. \A i \in 1..n : (IF d[i].deleted THEN <<>> ELSE <<NameOf(d[i])>>) \in Seq(T)
      BY <2>1
    <2> QED BY <1>1, <2>2 DEF Listed
  <1>4. NamesListed(d) = FlattenSeq(L)
    BY DEF NamesListed, Listed
  <1> HIDE DEF es, L, T
  <1>5. PICK f : /\ \A i \in 1..(Len(es) + 2) : f[i] = ListRound(f, es, i)
                 /\ ListDir(es) = f[1]
    BY <1>1, ListWalk
  <1> DEFINE Right(i) == f[at[i]] = FlattenSeq(SubSeq(L, i, n))
             G == {m \in 1..(n + 1) : Right(n + 2 - m)}
  <1>6. Right(n + 1)
    <2>1. SubSeq(L, n + 1, n) = <<>>
      BY <1>1, SubSeqEmpty
    <2>2. at[n + 1] = Len(es) + 1
      BY <1>2 DEF Places
    <2>3. f[Len(es) + 1] = <<>>
      <3>1. Len(es) + 1 \in 1..(Len(es) + 2) /\ Len(es) + 1 > Len(es)
        BY <1>1
      <3>2. f[Len(es) + 1] = ListRound(f, es, Len(es) + 1)
        BY <1>5, <3>1
      <3> QED BY <3>1, <3>2 DEF ListRound
    <2>4. FlattenSeq(<<>>) = <<>>
      BY DEF FlattenSeq
    <2> QED BY <2>1, <2>2, <2>3, <2>4
  <1>7. ASSUME NEW i \in 1..n, Right(i + 1) PROVE Right(i)
    <2>1. f[at[i]] = IF d[i].deleted THEN f[at[i + 1]] ELSE <<NameOf(d[i])>> \o f[at[i + 1]]
      BY <1>1, <1>2, <1>5, ListStep
    <2> DEFINE ss == SubSeq(L, i, n)
               rest == FlattenSeq(SubSeq(L, i + 1, n))
    <2>2. i \in 1..Len(L) /\ n \in i..Len(L)
      BY <1>1, <1>3
    <2>3. Head(ss) = L[i] /\ Tail(ss) = SubSeq(L, i + 1, n)
      BY <1>3, <2>2, HeadTailOfSubSeq
    <2>4. ss \in Seq(Seq(T)) /\ ss # <<>>
      <3>1. /\ ss \in Seq(Seq(T))
            /\ Len(ss) = IF i <= n THEN n - i + 1 ELSE 0
        <4>1. i \in Int /\ n \in Int /\ \A k \in i..n : L[k] \in Seq(T)
          BY <1>1, <1>3, <2>2
        <4> HIDE DEF n
        <4> QED BY <4>1, SubSeqProperties, Zenon
      <3>2. Len(ss) # 0
        BY <1>1, <3>1
      <3> HIDE DEF ss
      <3>3. Len(<<>>) = 0
        OBVIOUS
      <3> QED BY <3>1, <3>2, <3>3
    <2>5. FlattenSeq(ss) = L[i] \o rest
      <3>1. FlattenSeq(ss) = Head(ss) \o FlattenSeq(Tail(ss))
        <4> HIDE DEF ss
        <4> QED BY <2>4, FlattenHead
      <3> QED BY <2>3, <3>1
    <2>6. rest \in Seq(T)
      <3>1. Tail(ss) \in Seq(Seq(T))
        <4> HIDE DEF ss
        <4> QED BY <2>4
      <3> QED BY <2>3, <3>1, FlattenType
    <2>7. f[at[i + 1]] = rest
      BY <1>7
    <2> HIDE DEF rest, ss
    <2>8. CASE d[i].deleted
      <3>1. L[i] = <<>>
        BY <1>3, <2>8
      <3>2. <<>> \o rest = rest
        BY <2>6, JoinEmpty, Zenon
      <3>3. f[at[i]] = FlattenSeq(ss)
        BY <2>1, <2>5, <2>7, <2>8, <3>1, <3>2
      <3> QED BY <3>3 DEF ss
    <2>9. CASE ~d[i].deleted
      <3>1. L[i] = <<NameOf(d[i])>>
        BY <1>3, <2>9
      <3>3. f[at[i]] = FlattenSeq(ss)
        BY <2>1, <2>5, <2>7, <2>9, <3>1
      <3> QED BY <3>3 DEF ss
    <2> QED BY <2>8, <2>9
  <1> HIDE DEF n, Right
  <1>8. ASSUME NEW m \in 1..(n + 1), m = 1 \/ m - 1 \in G PROVE m \in G
    <2>1. CASE m = 1
      <3>1. n + 2 - m = n + 1
        BY <1>1, <2>1
      <3> QED BY <1>6, <3>1
    <2>2. CASE m # 1
      <3>1. n + 2 - m \in 1..n /\ n + 2 - (m - 1) = (n + 2 - m) + 1
        BY <1>1, <2>2
      <3>2. Right((n + 2 - m) + 1)
        BY <1>8, <2>2, <3>1
      <3> QED BY <1>7, <3>1, <3>2
    <2> QED BY <2>1, <2>2
  <1>9. n + 1 \in Nat /\ n + 1 \in 1..(n + 1) /\ n + 2 - (n + 1) = 1
    BY <1>1
  <1>10. n + 1 \in G
    <2> HIDE DEF G
    <2> QED BY <1>8, <1>9, Induction
  <1>11. Right(1)
    BY <1>9, <1>10
  <1>12. at[1] = 1
    BY <1>2 DEF Places
  <1>13. SubSeq(L, 1, n) = L
    BY <1>1, <1>3
  <1>14. ListDir(es) = NamesListed(d)
    BY <1>4, <1>5, <1>11, <1>12, <1>13 DEF Right
  <1> QED BY <1>14 DEF es

-----------------------------------------------------------------------------
\* The directory never changes, and what is answered stays the answer.

DirectoryInv == SoundDirectory(dir) /\ LookupAndListAgree

LEMMA DirectoryInit == Init => DirectoryInv
  BY DiskAssumption DEF Init, DirectoryInv, LookupAndListAgree

\* What a step leaves as the result.
LEMMA ResultCases ==
  ASSUME [Next]_vars
  PROVE  /\ UNCHANGED volume
         /\ \/ result' = result
            \/ result'.kind \in {"read", "corrupt", "error"}
            \/ \E name \in Names : Lookup(name)
            \/ List
  <1> DEFINE Other == result' = result \/ result'.kind \in {"read", "corrupt", "error"}
  <1>0. /\ \A r : r.kind \in {"read", "corrupt"} => (Finish(r) => Other)
        /\ \A o : Proceed(o) => Other
    BY DEF Finish, Proceed
  <1>1. \A o : ReadResult(o).kind = "read"
    BY DEF ReadResult
  <1>2. \A o : Continue(o) => Other
    BY <1>0, <1>1 DEF Continue
  <1>3. CASE Mount \/ Reject
    BY <1>3 DEF Mount, Reject
  <1>4. ASSUME NEW off \in Offsets, NEW n \in Sizes, StartRead(off, n)
        PROVE  UNCHANGED volume /\ Other
    <2> HIDE DEF Other
    <2> QED BY <1>0, <1>1, <1>2, <1>4 DEF StartRead
  <1>5. CASE SkipCluster
    <2>1. \A off : [kind |-> "corrupt", off |-> off].kind = "corrupt"
      OBVIOUS
    <2> HIDE DEF Other
    <2>2. UNCHANGED volume /\ Other
      BY <1>0, <1>2, <1>5, <2>1 DEF SkipCluster
    <2> USE DEF Other
    <2> QED BY <2>2
  <1>6. CASE CopyCluster
    <2> HIDE DEF Other
    <2>1. UNCHANGED volume /\ Other
      BY <1>0, <1>1, <1>6 DEF CopyCluster
    <2> USE DEF Other
    <2> QED BY <2>1
  <1>7. CASE NextCluster
    <2> HIDE DEF Other
    <2>1. UNCHANGED volume /\ Other
      BY <1>0, <1>1, <1>2, <1>7 DEF NextCluster
    <2> USE DEF Other
    <2> QED BY <2>1
  <1>8. CASE ReadFails \/ DirectoryFails
    <2>1. \A n : FetchFails(n) => UNCHANGED volume /\ result' = [kind |-> "error"]
      BY DEF FetchFails
    <2>2. UNCHANGED volume /\ result' = [kind |-> "error"]
      BY <1>8, <2>1 DEF ReadFails, DirectoryFails
    <2> QED BY <2>2
  <1>9. CASE \E name \in Names : Lookup(name)
    <2>1. UNCHANGED volume
      BY <1>9 DEF Lookup
    <2> QED BY <1>9, <2>1
  <1>10. CASE List
    <2>1. UNCHANGED volume
      BY <1>10 DEF List
    <2> QED BY <1>10, <2>1
  <1>11. CASE UNCHANGED vars
    BY <1>11 DEF vars, volume
  <1> QED
    BY <1>3, <1>4, <1>5, <1>6, <1>7, <1>8, <1>9, <1>10, <1>11 DEF Next, ReadStep

\* A directory the property speaks of is one both walks handle.
LEMMA SupportedHandled ==
  ASSUME NEW d, SoundDirectory(d), Supported(d)
  PROVE  Handled(d)
  BY DEF Supported, Handled

LEMMA DirectoryKept ==
  ASSUME FatInv, DirectoryInv, [Next]_vars
  PROVE  DirectoryInv'
  <1>1. boot' = boot /\ dir' = dir
    BY ResultCases DEF volume
  <1>2. SoundDirectory(dir)'
    BY <1>1 DEF DirectoryInv, SoundDirectory
  <1>3. Supported(dir)' => Supported(dir)
    BY <1>1 DEF Supported, ClusterBytes
  <1>4. SectorOfCluster(boot.root_cluster)' = SectorOfCluster(boot.root_cluster)
    BY <1>1 DEF SectorOfCluster, FatStart, FatSectors
  <1>5. Block(DirBlock).sector = SectorOfCluster(boot.root_cluster)
    <2>1. boot.root_cluster \in Nat
      BY DEF FatInv, VolumeInv, SoundBoot
    <2> QED BY <2>1, ClusterRead DEF FatInv, DirBlock
  <1>6. ASSUME Supported(dir)
        PROVE  /\ result'.kind = "lookup" =>
                     /\ LookupAnswers(dir, result'.name, result'.answer)
                     /\ result'.sector = SectorOfCluster(boot.root_cluster)
               /\ result'.kind = "list" =>
                     /\ result'.names = NamesListed(dir)
                     /\ result'.sector = SectorOfCluster(boot.root_cluster)
    <2>0. Handled(dir)
      BY <1>6, SupportedHandled DEF DirectoryInv
    <2>1. CASE result' = result
      BY <1>6, <2>1 DEF DirectoryInv, LookupAndListAgree
    <2>2. CASE result'.kind \in {"read", "corrupt", "error"}
      BY <2>2
    <2>3. ASSUME NEW name \in Names, Lookup(name)
          PROVE  /\ result'.kind = "lookup" /\ result'.name = name
                 /\ LookupAnswers(dir, name, result'.answer)
                 /\ result'.sector = SectorOfCluster(boot.root_cluster)
      <3>1. /\ result'.kind = "lookup" /\ result'.name = name
            /\ result'.answer = GetChild(Layout(dir), name)
            /\ result'.sector = Block(DirBlock).sector
        BY <2>3 DEF Lookup
      <3>2. LookupAnswers(dir, name, GetChild(Layout(dir), name))
        BY <2>0, LookupRight
      <3> QED BY <1>5, <3>1, <3>2
    <2>4. CASE List
      <3>1. /\ result'.kind = "list"
            /\ result'.names = ListDir(Layout(dir))
            /\ result'.sector = Block(DirBlock).sector
        BY <2>4 DEF List
      <3> QED BY <1>5, <2>0, <3>1, ListRight
    <2> QED BY <2>1, <2>2, <2>3, <2>4, ResultCases
  <1>7. LookupAndListAgree'
    <2>1. LookupAndListAgree' =
            (Supported(dir)' =>
               /\ result'.kind = "lookup" =>
                     /\ LookupAnswers(dir', result'.name, result'.answer)
                     /\ result'.sector = SectorOfCluster(boot.root_cluster)'
               /\ result'.kind = "list" =>
                     /\ result'.names = NamesListed(dir')
                     /\ result'.sector = SectorOfCluster(boot.root_cluster)')
      BY DEF LookupAndListAgree, LookupAnswers, FilesNamed, NamesListed, NameOf, StandardEntry
    <2> QED BY <1>1, <1>3, <1>4, <1>6, <2>1
  <1> QED BY <1>2, <1>7 DEF DirectoryInv

(* Looking a name up in a directory whose names the code supports finds    *)
(* the file of that name, and listing gives the names of its files, from   *)
(* the root directory's own cluster: get_child and list_dir walk the same  *)
(* entries, file by file, however many there are.                          *)
THEOREM DirectoryAnswersRight == Spec => []LookupAndListAgree
  <1>1. DirectoryInv => LookupAndListAgree
    BY DEF DirectoryInv
  <1>2. FatInv /\ DirectoryInv /\ [Next]_vars => DirectoryInv'
    BY DirectoryKept
  <1> QED BY <1>1, <1>2, DirectoryInit, FatInvariant, PTL DEF Spec
=============================================================================
