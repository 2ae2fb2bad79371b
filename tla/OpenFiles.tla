------------------------------ MODULE OpenFiles ------------------------------
(***************************************************************************)
(* Opening, reading and closing files: the mount table and the path        *)
(* resolution of VirtualFileSystem, the path walk of FileSystem::open with *)
(* its table of open file descriptors, and the file descriptor tables of   *)
(* the processes.  A system call runs with interrupts off, so each is one  *)
(* step.  A path is the sequence of its parts; a node is a file system and *)
(* a path relative to it, which is also the key of that file system's      *)
(* open file table.                                                        *)
(***************************************************************************)
EXTENDS Integers, Sequences, FiniteSets

CONSTANTS Procs,      \* processes
          MaxFds,     \* slots of a process's descriptor table (256)
          RootFs,     \* the file system mounted on "/"
          Mounts,     \* mount points in the order m_mounts.for_each meets them
          Disks,      \* file systems backed by a block device (FAT)
          Nodes,      \* the files and directories there are
          Dirs,       \* those that are directories
          Devices,    \* those whose inode is a DevInode
          Size,       \* sizes of the nodes on disks, 0 for a directory
          Bucket,     \* djb2(path) modulo the table's 20 buckets
          Requests,   \* paths the processes ask for
          Sizes,      \* buffer sizes they read into
          NoFile,     \* the empty slot
          MaxOpeners, \* bound on the opener counts
          MaxOffset   \* bound on the offset of a device file

Slots == 0 .. MaxFds - 1
Root(f) == <<f, <<>>>>

\* A File object: the descriptor it holds (which one made for the node) and
\* its own offset.
Files == [node : Nodes, gen : Nat, offset : Nat]

ASSUME FileAssumption ==
  /\ MaxFds \in Nat
  /\ Dirs \subseteq Nodes /\ Root(RootFs) \in Dirs /\ Devices \subseteq Nodes \ Dirs
  /\ \A d \in Devices : d[1] \notin Disks
  /\ Size \in [Nodes -> Nat]
  /\ Sizes \subseteq Nat
  /\ NoFile \notin Files

VARIABLES
  table,    \* m_open_files of all file systems: node -> [gen, openers]
  made,     \* how many descriptors were made for a node
  fds,      \* m_fd_table of every process
  cached,   \* directories whose cluster is in the block cache
  rooted,   \* a root file system was found at boot
  mode,     \* "run", or "fault" after a null dereference in the kernel
  asserted  \* FALSE once a runtime_assert of close() has failed

vars == <<table, made, fds, cached, rooted, mode, asserted>>

-----------------------------------------------------------------------------
(* VirtualFileSystem: resolution of a path to a mount *)

CommonPrefix(a, b) ==
  CHOOSE k \in 0 .. Len(a) :
    /\ k <= Len(b) /\ \A i \in 1 .. k : a[i] = b[i]
    /\ k < Len(a) /\ k < Len(b) => a[k + 1] # b[k + 1]

\* longest_common_prefix: the first mount point that shares the most parts
\* with the path; the root file system when none shares any.
LongestCommonPrefix(path) ==
  LET shared(i) == CommonPrefix(Mounts[i].point, path)
      best == {i \in DOMAIN Mounts : /\ shared(i) > 0
                                     /\ \A j \in DOMAIN Mounts : shared(j) <= shared(i)}
  IN  IF best = {} THEN [fs |-> RootFs, longest |-> 0]
      ELSE LET i == CHOOSE i \in best : \A j \in best : i <= j
           IN  [fs |-> Mounts[i].fs, longest |-> shared(i)]

\* The file system and the path relative to it that VirtualFileSystem::open
\* passes on; exists() answers false for both kinds of file system, so the
\* open mode changes nothing.
Resolve(path) ==
  LET m == LongestCommonPrefix(path)
  IN  <<m.fs, SubSeq(path, m.longest + 1, Len(path))>>

IsPath(s) == s \in Seq({s[i] : i \in DOMAIN s})

\* A path relative to a mount is a sequence of parts too, and a mounted file
\* system has a root directory.
ASSUME RootAssumption ==
  \A path \in Requests : /\ IsPath(Resolve(path)[2])
                         /\ Resolve(path)[2] = <<>> => Resolve(path) \in Dirs

-----------------------------------------------------------------------------
(* The open file table *)

\* path_so_far after j turns of the walk to n.
Step(n, j) == <<n[1], SubSeq(n[2], 1, j)>>
Steps(n, k) == {Step(n, j) : j \in 1 .. k}

\* The first k turns of the walk find a directory and in it the next name.
Walkable(n, k) ==
  /\ k \in 0 .. Len(n[2])
  /\ \A j \in 1 .. k : Step(n, j - 1) \in Dirs /\ Step(n, j) \in Nodes

\* A node is a file system and the sequence of names that leads to it, through
\* directories.
ASSUME TreeAssumption ==
  \A m \in Nodes :
    /\ m = <<m[1], m[2]>> /\ IsPath(m[2])
    /\ \A j \in 0 .. Len(m[2]) - 1 : Step(m, j) \in Dirs

\* HashMap::set for a new key: its loop over an occupied bucket follows the
\* null pointer at the bucket's end.
Collides(m, others) ==
  \E o \in others : o[1] = m[1] /\ o # m /\ Bucket[o[2]] = Bucket[m[2]]

CollidesAt(n, j) ==
  /\ Step(n, j) \notin DOMAIN table
  /\ Collides(Step(n, j), DOMAIN table \cup Steps(n, j - 1))

\* (Mutant) remove() works.
RemovedKeys(S) == S

\* HashMap::remove for the keys S: its loop is never entered, so none leaves.
Removed(S) == {}

\* (Mutant) open() does not count.
OpenedUncounted(d) == d

Created(m) == [gen |-> made[m] + 1, openers |-> 1]
Opened(d) == [d EXCEPT !.openers = @ + 1]
Closed(d) == [d EXCEPT !.openers = @ - 1]

\* A turn of the walk opens the descriptor listed for the path so far or
\* makes one, and closes it again unless the directory was the root.
Turned(m) ==
  LET d == IF m \in DOMAIN table THEN Opened(table[m]) ELSE Created(m)
  IN  IF Len(m[2]) = 1 THEN d ELSE Closed(d)

\* The open file table after k turns.
Walked(n, k) ==
  LET idle == {m \in Steps(n, k) : Len(m[2]) > 1 /\ Turned(m).openers = 0}
  IN  [m \in (DOMAIN table \cup Steps(n, k)) \ Removed(idle) |->
         IF m \in Steps(n, k) THEN Turned(m) ELSE table[m]]

\* list_dir has read the directories among the nodes of turns 0 .. k.
CacheListed(n, k) ==
  cached' = cached \cup (IF n[1] \in Disks THEN {Step(n, j) : j \in 0 .. k} \cap Dirs
                                          ELSE {})

-----------------------------------------------------------------------------
(* System calls *)

\* The file objects that hold a descriptor of m.
Holders(m) == {s \in Procs \X Slots : /\ fds[s[1]][s[2]] # NoFile
                                      /\ fds[s[1]][s[2]].node = m}

\* The references of m's descriptor that close() counts: those of the files,
\* of the table, of the result it was returned in, and the local one.
References(m) == 3 + Cardinality(Holders(m))

\* The turns of the walk to n that call close() and its assertion.
AssertAfter(n, k) ==
  asserted' = (asserted /\ \A j \in 2 .. k : References(Step(n, j)) = 1)

MadeAfter(n, k) ==
  made' = [m \in Nodes |-> IF m \in Steps(n, k) \ DOMAIN table
                             THEN made[m] + 1 ELSE made[m]]

\* (Mutant) with every slot in use the last one is taken.
InstallLast(p, file) ==
  \E fd \in Slots :
    /\ fds[p][fd] = NoFile \/ fd = MaxFds - 1
    /\ \A e \in 0 .. fd - 1 : fds[p][e] # NoFile
    /\ fds' = [fds EXCEPT ![p][fd] = file]

\* FileDescriptorTable::open: the lowest free slot, or an error.
Install(p, file) ==
  \/ \E fd \in Slots :
       /\ fds[p][fd] = NoFile
       /\ \A e \in 0 .. fd - 1 : fds[p][e] # NoFile
       /\ fds' = [fds EXCEPT ![p][fd] = file]
  \/ /\ \A fd \in Slots : fds[p][fd] # NoFile
     /\ UNCHANGED fds

NewFile(n, t) == [node |-> n, gen |-> t[n].gen, offset |-> 0]

\* The file is listed: one more opener.
OpenListed(p, n) ==
  /\ n \in DOMAIN table /\ table[n].openers < MaxOpeners
  /\ table' = [table EXCEPT ![n] = Opened(table[n])]
  /\ Install(p, NewFile(n, table'))
  /\ UNCHANGED <<made, cached, rooted, mode, asserted>>

\* The root of a file system, not listed yet.
OpenRoot(p, n) ==
  /\ n \notin DOMAIN table /\ n[2] = <<>>
  /\ ~Collides(n, DOMAIN table)
  /\ table' = [m \in DOMAIN table \cup {n} |->
                 IF m = n THEN Created(n) ELSE table[m]]
  /\ made' = [made EXCEPT ![n] = @ + 1]
  /\ Install(p, NewFile(n, table'))
  /\ UNCHANGED <<cached, rooted, mode, asserted>>

\* The walk makes k turns and no turn meets an occupied bucket.
WalkTo(n, k) ==
  /\ n \notin DOMAIN table /\ n[2] # <<>>
  /\ Walkable(n, k)
  /\ \A j \in 1 .. k : ~CollidesAt(n, j)
  /\ Step(n, 1) \in DOMAIN table => table[Step(n, 1)].openers < MaxOpeners
  /\ table' = Walked(n, k)
  /\ MadeAfter(n, k)
  /\ AssertAfter(n, k)

\* The walk reaches the end; the descriptor is then looked up by the path.
OpenWalk(p, n) ==
  /\ WalkTo(n, Len(n[2]))
  /\ IF n \in DOMAIN table' THEN Install(p, NewFile(n, table')) ELSE UNCHANGED fds
  /\ CacheListed(n, Len(n[2]) - 1)
  /\ UNCHANGED <<rooted, mode>>

\* "Not a directory" or "Path not found": what was opened stays open.
OpenMissing(n) ==
  \E k \in 0 .. Len(n[2]) - 1 :
    /\ WalkTo(n, k)
    /\ Step(n, k) \in Dirs => Step(n, k + 1) \notin Nodes
    /\ CacheListed(n, k)
    /\ UNCHANGED <<fds, rooted, mode>>

\* list_dir fails because the device cannot read a directory's cluster.
OpenUnreadable(n) ==
  \E k \in 0 .. Len(n[2]) - 1 :
    /\ n[1] \in Disks
    /\ WalkTo(n, k)
    /\ Step(n, k) \in Dirs \ cached
    /\ CacheListed(n, k - 1)
    /\ UNCHANGED <<fds, rooted, mode>>

\* set() meets an occupied bucket and the kernel takes a fault.
OpenFaults(n) ==
  /\ \/ /\ n \notin DOMAIN table /\ n[2] = <<>> /\ Collides(n, DOMAIN table)
        /\ UNCHANGED <<table, made, cached, asserted>>
     \/ \E j \in 1 .. Len(n[2]) :
          /\ WalkTo(n, j - 1)
          /\ Walkable(n, j) /\ CollidesAt(n, j)
          /\ CacheListed(n, j - 1)
  /\ mode' = "fault"
  /\ UNCHANGED <<fds, rooted>>

\* handle_open with a path the device can read all of.
Open(p, path) ==
  /\ mode = "run" /\ rooted
  /\ \/ OpenListed(p, Resolve(path))
     \/ OpenRoot(p, Resolve(path))
     \/ OpenWalk(p, Resolve(path))
     \/ OpenMissing(Resolve(path))
     \/ OpenFaults(Resolve(path))

\* handle_open when the device fails a read.
OpenFailsToRead(p, path) ==
  /\ mode = "run" /\ rooted
  /\ OpenUnreadable(Resolve(path))

\* (Mutant) closing a file takes its descriptor out of the open file table.
CloseDelists(p, fd) ==
  /\ mode = "run" /\ fds[p][fd] # NoFile
  /\ fds' = [fds EXCEPT ![p][fd] = NoFile]
  /\ table' = [m \in DOMAIN table \ {fds[p][fd].node} |-> table[m]]
  /\ UNCHANGED <<made, cached, rooted, mode, asserted>>

\* handle_close: the slot is emptied; the descriptor is not told.
Close(p, fd) ==
  /\ mode = "run"
  /\ fds' = [fds EXCEPT ![p][fd] = NoFile]
  /\ UNCHANGED <<table, made, cached, rooted, mode, asserted>>

\* FATInode::read on a sound cluster chain.
BytesRead(n, offset, size) ==
  IF offset >= Size[n] THEN 0
  ELSE IF offset + size > Size[n] THEN Size[n] - offset ELSE size

\* handle_read and File::read.  A device's answer is any part of the buffer.
\* Failed and blocked reads change nothing here.
Read(p, fd, size) ==
  /\ mode = "run" /\ fds[p][fd] # NoFile
  /\ LET file == fds[p][fd]
     IN  \E count \in 0 .. size :
           /\ \/ file.node[1] \in Disks /\ count = BytesRead(file.node, file.offset, size)
              \/ /\ file.node \in Devices
                 /\ size > 0 => count > 0
                 /\ file.offset + count <= MaxOffset
           /\ fds' = [fds EXCEPT ![p][fd].offset = @ + count]
  /\ UNCHANGED <<table, made, cached, rooted, mode, asserted>>

\* handle_read of an empty slot calls read() on a null pointer.
ReadUnopened(p, fd) ==
  /\ mode = "run" /\ fds[p][fd] = NoFile
  /\ mode' = "fault"
  /\ UNCHANGED <<table, made, fds, cached, rooted, asserted>>

\* Boot: with a block device the root file system is mounted and its root
\* directory read, which may fail.
Init ==
  /\ table = [m \in {} |-> {}]
  /\ made = [m \in Nodes |-> 0]
  /\ fds = [p \in Procs |-> [fd \in Slots |-> NoFile]]
  /\ rooted \in BOOLEAN
  /\ cached \in {{}, {Root(RootFs)}}
  /\ rooted \/ cached = {}
  /\ mode = "run" /\ asserted = TRUE

Next ==
  \E p \in Procs :
    \/ \E path \in Requests : Open(p, path) \/ OpenFailsToRead(p, path)
    \/ \E fd \in Slots : \/ Close(p, fd)
                         \/ ReadUnopened(p, fd)
                         \/ \E size \in Sizes : Read(p, fd, size)

Spec == Init /\ [][Next]_vars

-----------------------------------------------------------------------------
(* Properties *)

DescriptorType == [gen : Nat, openers : Nat]

\* The tables map nodes to descriptors and slots to files.
TypeOK ==
  /\ DOMAIN table \subseteq Nodes /\ table \in [DOMAIN table -> DescriptorType]
  /\ made \in [Nodes -> Nat]
  /\ fds \in [Procs -> [Slots -> Files \cup {NoFile}]]
  /\ cached \subseteq Dirs
  /\ rooted \in BOOLEAN /\ mode \in {"run", "fault"} /\ asserted \in BOOLEAN

\* Whatever was opened, walked over and closed before, a file object holds
\* the descriptor that the open file table lists for its node: two openers
\* of a file always share one descriptor (OpenFileDescriptorTable).
SharedDescriptor ==
  \A p \in Procs, fd \in Slots :
    fds[p][fd] # NoFile =>
      /\ fds[p][fd].node \in DOMAIN table
      /\ fds[p][fd].gen = table[fds[p][fd].node].gen

\* m_number_of_openers covers the files that hold a descriptor, except that
\* the open whose walk made the descriptor of a path of two or more parts is
\* not counted, because the walk closed it again (FileSystem.cpp:60).
OpenersCoverFiles ==
  \A m \in DOMAIN table :
    Cardinality(Holders(m)) <= table[m].openers + (IF Len(m[2]) > 1 THEN 1 ELSE 0)

\* An offset never passes the end of a file on a disk, whatever reads of
\* whatever size were made (File::read, FATInode::read).
OffsetsInFile ==
  \A p \in Procs, fd \in Slots :
    fds[p][fd] # NoFile /\ fds[p][fd].node[1] \in Disks =>
      fds[p][fd].offset <= Size[fds[p][fd].node]

\* handle_open of a path that exists, with a free slot and a device that can
\* be read, gives the process a new file, although the walk closes the
\* descriptors it will look up at its end.
ExistingPathOpens ==
  [][\A p \in Procs :
       (\E fd \in Slots : fds[p][fd] = NoFile) /\ mode' = "run" =>
         \A path \in Requests :
           \/ Resolve(path) \notin Nodes
           \/ \E fd \in Slots : /\ fds[p][fd] = NoFile /\ fds'[p][fd] # NoFile
                                /\ fds'[p][fd].node = Resolve(path)
           \/ ~Open(p, path)]_vars

\* A descriptor number means one file until it is closed: no call of any
\* process puts another file into a slot in use, moves its offset backwards
\* or changes the slots of two processes (FileDescriptorTable).
FdKeepsItsFile ==
  [][/\ \A p \in Procs, fd \in Slots :
          fds[p][fd] # NoFile /\ fds'[p][fd] # NoFile =>
            /\ fds'[p][fd].node = fds[p][fd].node
            /\ fds'[p][fd].gen = fds[p][fd].gen
            /\ fds'[p][fd].offset >= fds[p][fd].offset
     /\ \A p, q \in Procs : fds'[p] # fds[p] /\ fds'[q] # fds[q] => p = q]_vars

\* FileSystem.cpp:14 of a path that exists: "If the file is not open, open it
\* and add it to the open file table".
OpenAddsToTable ==
  [][\A p \in Procs, path \in Requests :
       Open(p, path) /\ Resolve(path) \in Nodes => Resolve(path) \in DOMAIN table']_vars

\* The assertion at the end of OpenFileDescriptorTable::close: "OpenFileDescriptor
\* still has references" is not printed.
CloseAssertion == asserted

=============================================================================
