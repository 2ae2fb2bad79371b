--------------------------- MODULE OpenFilesProofs ---------------------------
(***************************************************************************)
(* Proofs about OpenFiles for every tree of files, every assignment of     *)
(* hash buckets and any number of processes and slots.                     *)
(***************************************************************************)
EXTENDS OpenFiles, TLAPS, FiniteSetTheorems

\* What k turns of a walk do to the open file table: it gets the nodes walked
\* over, and a listed node keeps its descriptor.
LEMMA WalkedTable ==
  ASSUME TypeOK, NEW n, NEW k \in Nat, Walkable(n, k)
  PROVE  /\ Steps(n, k) \subseteq Nodes
         /\ DOMAIN Walked(n, k) = DOMAIN table \cup Steps(n, k)
         /\ Walked(n, k) \in [DOMAIN table \cup Steps(n, k) -> DescriptorType]
         /\ \A m \in DOMAIN table : Walked(n, k)[m].gen = table[m].gen
  <1>1. Steps(n, k) \subseteq Nodes
    BY DEF Walkable, Steps
  <1>2. DOMAIN Walked(n, k) = DOMAIN table \cup Steps(n, k)
    BY DEF Walked, Removed
  <1>3. ASSUME NEW m \in DOMAIN table
        PROVE  Turned(m) \in DescriptorType /\ Turned(m).gen = table[m].gen
    <2>1. table[m].gen \in Nat /\ table[m].openers \in Nat /\ table[m] \in DescriptorType
      BY <1>3 DEF TypeOK, DescriptorType
    <2>2. Opened(table[m]) \in DescriptorType /\ Opened(table[m]).gen = table[m].gen
          /\ Opened(table[m]).openers = table[m].openers + 1
      BY <2>1 DEF Opened, DescriptorType
    <2>3. Closed(Opened(table[m])) \in DescriptorType
          /\ Closed(Opened(table[m])).gen = table[m].gen
      BY <2>1, <2>2 DEF Closed, DescriptorType
    <2> QED BY <2>2, <2>3, <1>3 DEF Turned
  <1>4. ASSUME NEW m \in Nodes, m \notin DOMAIN table
        PROVE  Turned(m) \in DescriptorType
    <2>1. made[m] \in Nat
      BY DEF TypeOK
    <2>2. Created(m) \in DescriptorType /\ Created(m).openers = 1
      BY <2>1 DEF Created, DescriptorType
    <2>3. Closed(Created(m)) \in DescriptorType
      BY <2>2 DEF Closed, DescriptorType
    <2> QED BY <2>2, <2>3, <1>4 DEF Turned
  <1>5. ASSUME NEW m \in DOMAIN table \cup Steps(n, k)
        PROVE  Walked(n, k)[m] = IF m \in Steps(n, k) THEN Turned(m) ELSE table[m]
    BY DEF Walked, Removed
  <1>6. ASSUME NEW m \in DOMAIN table PROVE table[m] \in DescriptorType
    BY DEF TypeOK
  <1>7. Walked(n, k) \in [DOMAIN table \cup Steps(n, k) -> DescriptorType]
    <2>1. ASSUME NEW m \in DOMAIN table \cup Steps(n, k)
          PROVE  Walked(n, k)[m] \in DescriptorType
      BY <1>1, <1>3, <1>4, <1>5, <1>6
    <2>2. Walked(n, k) = [m \in DOMAIN table \cup Steps(n, k) |-> Walked(n, k)[m]]
      BY DEF Walked, Removed
    <2> QED BY <2>1, <2>2
  <1>8. \A m \in DOMAIN table : Walked(n, k)[m].gen = table[m].gen
    BY <1>3, <1>5
  <1> QED BY <1>1, <1>2, <1>7, <1>8

\* FileDescriptorTable::open fills at most one slot, of the caller, that was
\* empty.
LEMMA InstallSlot ==
  ASSUME TypeOK, NEW p \in Procs, NEW file \in Files, Install(p, file)
  PROVE  /\ fds' \in [Procs -> [Slots -> Files \cup {NoFile}]]
         /\ \A q \in Procs, fd \in Slots :
              \/ fds'[q][fd] = fds[q][fd]
              \/ q = p /\ fds[q][fd] = NoFile /\ fds'[q][fd] = file
         /\ \A q \in Procs : q # p => fds'[q] = fds[q]
  <1>1. CASE UNCHANGED fds
    BY <1>1 DEF TypeOK
  <1>2. ASSUME NEW fd \in Slots, fds[p][fd] = NoFile,
               fds' = [fds EXCEPT ![p][fd] = file]
        PROVE  /\ fds' \in [Procs -> [Slots -> Files \cup {NoFile}]]
               /\ \A q \in Procs, e \in Slots :
                    \/ fds'[q][e] = fds[q][e]
                    \/ q = p /\ fds[q][e] = NoFile /\ fds'[q][e] = file
               /\ \A q \in Procs : q # p => fds'[q] = fds[q]
    BY <1>2 DEF TypeOK
  <1> QED BY <1>1, <1>2 DEF Install

\* What handle_open does to the tables, in all its ways.
TablesGrow ==
  /\ DOMAIN table \subseteq DOMAIN table' /\ DOMAIN table' \subseteq Nodes
  /\ table' \in [DOMAIN table' -> DescriptorType]
  /\ \A m \in DOMAIN table : table'[m].gen = table[m].gen
  /\ made' \in [Nodes -> Nat]
  /\ cached' \subseteq Dirs
  /\ mode' \in {"run", "fault"} /\ asserted' \in BOOLEAN /\ rooted' \in BOOLEAN

\* A slot filled by handle_open holds the listed descriptor of its node, at
\* offset 0.
SlotsFilled(p) ==
  /\ fds' \in [Procs -> [Slots -> Files \cup {NoFile}]]
  /\ \A q \in Procs, fd \in Slots :
       \/ fds'[q][fd] = fds[q][fd]
       \/ /\ q = p /\ fds[q][fd] = NoFile
          /\ fds'[q][fd] \in Files
          /\ fds'[q][fd].node \in DOMAIN table'
          /\ fds'[q][fd].gen = table'[fds'[q][fd].node].gen
          /\ fds'[q][fd].offset = 0
  /\ \A q \in Procs : q # p => fds'[q] = fds[q]

LEMMA NewFileType ==
  ASSUME NEW t, NEW n, DOMAIN t \subseteq Nodes, t \in [DOMAIN t -> DescriptorType],
         n \in DOMAIN t
  PROVE  /\ NewFile(n, t) \in Files
         /\ NewFile(n, t).node = n /\ NewFile(n, t).gen = t[n].gen
         /\ NewFile(n, t).offset = 0
  BY DEF NewFile, Files, DescriptorType

LEMMA InstallNew ==
  ASSUME TypeOK, TablesGrow, NEW p \in Procs, NEW n \in DOMAIN table',
         Install(p, NewFile(n, table'))
  PROVE  SlotsFilled(p)
  <1>1. /\ NewFile(n, table') \in Files
        /\ NewFile(n, table').node = n /\ NewFile(n, table').gen = table'[n].gen
        /\ NewFile(n, table').offset = 0
    BY NewFileType DEF TablesGrow
  <1>2. /\ fds' \in [Procs -> [Slots -> Files \cup {NoFile}]]
        /\ \A q \in Procs, fd \in Slots :
             \/ fds'[q][fd] = fds[q][fd]
             \/ q = p /\ fds[q][fd] = NoFile /\ fds'[q][fd] = NewFile(n, table')
        /\ \A q \in Procs : q # p => fds'[q] = fds[q]
    BY <1>1, InstallSlot
  <1> QED BY <1>1, <1>2 DEF SlotsFilled

LEMMA NothingInstalled ==
  ASSUME TypeOK, NEW p \in Procs, UNCHANGED fds
  PROVE  SlotsFilled(p)
  BY DEF TypeOK, SlotsFilled

LEMMA WalkToGrows ==
  ASSUME TypeOK, NEW n, NEW k \in Nat, WalkTo(n, k), NEW j, CacheListed(n, j),
         mode' \in {"run", "fault"}, UNCHANGED rooted
  PROVE  TablesGrow
  <1>1. /\ Steps(n, k) \subseteq Nodes
        /\ DOMAIN table' = DOMAIN table \cup Steps(n, k)
        /\ table' \in [DOMAIN table \cup Steps(n, k) -> DescriptorType]
        /\ \A m \in DOMAIN table : table'[m].gen = table[m].gen
    BY WalkedTable DEF WalkTo
  <1>2. made' \in [Nodes -> Nat]
    BY DEF WalkTo, MadeAfter, TypeOK
  <1>3. cached' \subseteq Dirs
    BY DEF CacheListed, TypeOK
  <1>4. asserted' \in BOOLEAN
    BY DEF WalkTo, AssertAfter
  <1> QED BY <1>1, <1>2, <1>3, <1>4 DEF TablesGrow, TypeOK

LEMMA OpenStep ==
  ASSUME TypeOK, NEW p \in Procs, NEW path \in Requests,
         Open(p, path) \/ OpenFailsToRead(p, path)
  PROVE  TablesGrow /\ SlotsFilled(p)
  <1> DEFINE n == Resolve(path)
  <1> HIDE DEF n
  <1>1. CASE OpenListed(p, n)
    <2>1. TablesGrow
      BY <1>1 DEF OpenListed, TablesGrow, TypeOK, Opened, DescriptorType
    <2> QED BY <2>1, <1>1, InstallNew DEF OpenListed
  <1>2. CASE OpenRoot(p, n)
    <2>1. n \in Nodes
      BY <1>2, RootAssumption, FileAssumption DEF OpenRoot, n
    <2>2. Created(n) \in DescriptorType
      BY <2>1 DEF Created, DescriptorType, TypeOK
    <2>3. TablesGrow
      BY <1>2, <2>1, <2>2 DEF OpenRoot, TablesGrow, TypeOK
    <2> QED BY <2>1, <2>3, <1>2, InstallNew DEF OpenRoot
  <1>3. CASE OpenWalk(p, n)
    <2>1. Len(n[2]) \in Nat
      BY <1>3 DEF OpenWalk, WalkTo, Walkable
    <2>2. TablesGrow
      BY <1>3, <2>1, WalkToGrows DEF OpenWalk, TypeOK
    <2> QED BY <2>2, <1>3, InstallNew, NothingInstalled DEF OpenWalk
  <1>4. CASE OpenMissing(n) \/ OpenUnreadable(n)
    <2>1. PICK k \in 0 .. Len(n[2]) - 1 :
            /\ WalkTo(n, k) /\ UNCHANGED <<fds, rooted, mode>>
            /\ CacheListed(n, k) \/ CacheListed(n, k - 1)
      BY <1>4 DEF OpenMissing, OpenUnreadable
    <2>2. k \in Nat
      BY <2>1 DEF WalkTo, Walkable
    <2>3. TablesGrow
      BY <2>1, <2>2, WalkToGrows DEF TypeOK
    <2> QED BY <2>1, <2>3, NothingInstalled
  <1>5. CASE OpenFaults(n)
    <2>1. mode' \in {"run", "fault"} /\ UNCHANGED <<fds, rooted>>
      BY <1>5 DEF OpenFaults
    <2>2. CASE UNCHANGED <<table, made, cached, asserted>>
      BY <2>1, <2>2, NothingInstalled DEF TablesGrow, TypeOK
    <2>3. CASE \E j \in 1 .. Len(n[2]) : WalkTo(n, j - 1) /\ CacheListed(n, j - 1)
      <3>1. PICK j \in 1 .. Len(n[2]) : WalkTo(n, j - 1) /\ CacheListed(n, j - 1)
        BY <2>3
      <3>2. j - 1 \in Nat
        BY <3>1 DEF WalkTo, Walkable
      <3>3. TablesGrow
        BY <2>1, <3>1, <3>2, WalkToGrows
      <3> QED BY <2>1, <3>3, NothingInstalled
    <2> QED BY <1>5, <2>2, <2>3 DEF OpenFaults
  <1> QED BY <1>1, <1>2, <1>3, <1>4, <1>5 DEF Open, OpenFailsToRead, n

\* A read moves one offset forward and stays within a file on a disk.
LEMMA ReadStep ==
  ASSUME TypeOK, OffsetsInFile,
         NEW p \in Procs, NEW fd \in Slots, NEW size \in Sizes, Read(p, fd, size)
  PROVE  /\ fds' \in [Procs -> [Slots -> Files \cup {NoFile}]]
         /\ \A q \in Procs : q # p => fds'[q] = fds[q]
         /\ \A e \in Slots : e # fd => fds'[p][e] = fds[p][e]
         /\ fds[p][fd] # NoFile /\ fds'[p][fd] \in Files
         /\ fds'[p][fd].node = fds[p][fd].node
         /\ fds'[p][fd].gen = fds[p][fd].gen
         /\ fds'[p][fd].offset >= fds[p][fd].offset
         /\ fds[p][fd].node[1] \in Disks =>
              fds'[p][fd].offset <= Size[fds[p][fd].node]
  <1> DEFINE file == fds[p][fd]
  <1>1. file \in Files /\ file.node \in Nodes /\ file.offset \in Nat /\ file.gen \in Nat
    BY DEF Read, TypeOK, Files
  <1>2. size \in Nat
    BY FileAssumption
  <1>3. PICK count \in 0 .. size :
          /\ \/ file.node[1] \in Disks /\ count = BytesRead(file.node, file.offset, size)
             \/ file.node \in Devices
          /\ fds' = [fds EXCEPT ![p][fd].offset = @ + count]
    BY DEF Read
  <1>4. count \in Nat /\ file.offset + count \in Nat /\ file.offset + count >= file.offset
    BY <1>1, <1>2, <1>3
  <1>5. /\ \A q \in Procs : q # p => fds'[q] = fds[q]
        /\ \A e \in Slots : e # fd => fds'[p][e] = fds[p][e]
        /\ fds'[p][fd] = [file EXCEPT !.offset = file.offset + count]
    BY <1>3 DEF TypeOK
  <1>6. /\ fds'[p][fd] \in Files
        /\ fds'[p][fd].node = file.node /\ fds'[p][fd].gen = file.gen
        /\ fds'[p][fd].offset = file.offset + count
    BY <1>1, <1>4, <1>5 DEF Files
  <1>7. fds' \in [Procs -> [Slots -> Files \cup {NoFile}]]
    <2>1. fds' = [fds EXCEPT ![p] = [fds[p] EXCEPT ![fd] = fds'[p][fd]]]
      BY <1>3, <1>5 DEF TypeOK
    <2> QED BY <2>1, <1>6 DEF TypeOK
  <1>8. ASSUME file.node[1] \in Disks
        PROVE  file.offset + count <= Size[file.node]
    <2>1. file.offset <= Size[file.node] /\ Size[file.node] \in Nat
      BY <1>1, <1>8, FileAssumption DEF OffsetsInFile, Read
    <2>2. count = BytesRead(file.node, file.offset, size)
      BY <1>3, <1>8, FileAssumption
    <2> QED BY <2>1, <2>2, <1>1, <1>2 DEF BytesRead
  <1> QED BY <1>4, <1>5, <1>6, <1>7, <1>8 DEF Read

\* The inductive invariant: the tables are well typed, files share the listed
\* descriptors and no offset is behind the end of its file.
Inv == TypeOK /\ SharedDescriptor /\ OffsetsInFile

LEMMA InitInv == Init => Inv
  <1> SUFFICES ASSUME Init PROVE Inv
    OBVIOUS
  <1>1. TypeOK
    BY FileAssumption DEF Init, TypeOK, DescriptorType
  <1>2. \A p \in Procs, fd \in Slots : fds[p][fd] = NoFile
    BY DEF Init
  <1> QED BY <1>1, <1>2 DEF Inv, SharedDescriptor, OffsetsInFile

\* handle_open: a file that was there keeps its descriptor, a new one takes
\* the listed descriptor.
LEMMA OpenInv ==
  ASSUME Inv, NEW p \in Procs, TablesGrow, SlotsFilled(p)
  PROVE  Inv'
  <1>1. TypeOK'
    BY DEF Inv, TypeOK, TablesGrow, SlotsFilled
  <1>2. ASSUME NEW q \in Procs, NEW fd \in Slots, fds'[q][fd] # NoFile
        PROVE  /\ fds'[q][fd].node \in DOMAIN table'
               /\ fds'[q][fd].gen = table'[fds'[q][fd].node].gen
    BY <1>2 DEF Inv, SharedDescriptor, TablesGrow, SlotsFilled
  <1>3. ASSUME NEW q \in Procs, NEW fd \in Slots, fds'[q][fd] # NoFile,
               fds'[q][fd].node[1] \in Disks
        PROVE  fds'[q][fd].offset <= Size[fds'[q][fd].node]
    <2>1. fds'[q][fd].node \in Nodes
      BY <1>2, <1>3 DEF TablesGrow
    <2>2. Size[fds'[q][fd].node] >= 0
      BY <2>1, FileAssumption
    <2> QED BY <1>3, <2>2 DEF Inv, OffsetsInFile, SlotsFilled
  <1> QED BY <1>1, <1>2, <1>3 DEF Inv, SharedDescriptor, OffsetsInFile

LEMMA NextInv == Inv /\ [Next]_vars => Inv'
  <1> SUFFICES ASSUME Inv, [Next]_vars PROVE Inv'
    OBVIOUS
  <1> USE DEF Inv
  <1>1. ASSUME NEW p \in Procs, NEW path \in Requests,
               Open(p, path) \/ OpenFailsToRead(p, path)
        PROVE  Inv'
    BY <1>1, OpenStep, OpenInv
  <1>2. ASSUME NEW p \in Procs, NEW fd \in Slots, Close(p, fd)
        PROVE  Inv'
    <2>1. /\ fds' \in [Procs -> [Slots -> Files \cup {NoFile}]]
          /\ \A q \in Procs, e \in Slots : fds'[q][e] \in {fds[q][e], NoFile}
      BY <1>2 DEF Close, TypeOK
    <2>2. TypeOK'
      BY <1>2, <2>1 DEF Close, TypeOK
    <2>3. SharedDescriptor'
      BY <1>2, <2>1 DEF Close, SharedDescriptor
    <2>4. OffsetsInFile'
      BY <2>1 DEF OffsetsInFile
    <2> QED BY <2>2, <2>3, <2>4
  <1>3. ASSUME NEW p \in Procs, NEW fd \in Slots, ReadUnopened(p, fd)
        PROVE  Inv'
    BY <1>3 DEF ReadUnopened, TypeOK, SharedDescriptor, OffsetsInFile
  <1>4. ASSUME NEW p \in Procs, NEW fd \in Slots, NEW size \in Sizes, Read(p, fd, size)
        PROVE  Inv'
    <2>1. /\ fds' \in [Procs -> [Slots -> Files \cup {NoFile}]]
          /\ \A q \in Procs : q # p => fds'[q] = fds[q]
          /\ \A e \in Slots : e # fd => fds'[p][e] = fds[p][e]
          /\ fds[p][fd] # NoFile /\ fds'[p][fd] \in Files
          /\ fds'[p][fd].node = fds[p][fd].node
          /\ fds'[p][fd].gen = fds[p][fd].gen
          /\ fds[p][fd].node[1] \in Disks =>
               fds'[p][fd].offset <= Size[fds[p][fd].node]
      BY <1>4, ReadStep
    <2>2. UNCHANGED <<table, made, cached, rooted, mode, asserted>>
      BY <1>4 DEF Read
    <2>3. TypeOK'
      BY <2>1, <2>2 DEF TypeOK
    <2>4. SharedDescriptor'
      BY <2>1, <2>2 DEF SharedDescriptor
    <2>5. OffsetsInFile'
      BY <2>1 DEF OffsetsInFile
    <2> QED BY <2>3, <2>4, <2>5
  <1>5. CASE UNCHANGED vars
    BY <1>5 DEF vars, TypeOK, SharedDescriptor, OffsetsInFile
  <1> QED BY <1>1, <1>2, <1>3, <1>4, <1>5 DEF Next

LEMMA Invariance == Spec => []Inv
  <1>1. Init => Inv
    BY InitInv
  <1>2. Inv /\ [Next]_vars => Inv'
    BY NextInv
  <1> QED BY <1>1, <1>2, PTL DEF Spec

\* The tables of the file systems and of the processes are well typed in every
\* state, whatever the tree, the buckets and the calls.
THEOREM TypeCorrect == Spec => []TypeOK
  <1>1. Inv => TypeOK
    BY DEF Inv
  <1> QED BY <1>1, Invariance, PTL

\* Every file object holds the descriptor its file system lists for the node,
\* however many processes opened, walked over and closed it (FileSystem::open,
\* OpenFileDescriptorTable).
THEOREM DescriptorsAreShared == Spec => []SharedDescriptor
  <1>1. Inv => SharedDescriptor
    BY DEF Inv
  <1> QED BY <1>1, Invariance, PTL

\* No sequence of reads takes an offset behind the end of a file on a disk
\* (File::read, FATInode::read).
THEOREM OffsetsStayInFile == Spec => []OffsetsInFile
  <1>1. Inv => OffsetsInFile
    BY DEF Inv
  <1> QED BY <1>1, Invariance, PTL

\* A descriptor number in use means the same file until it is closed, and a
\* call changes the table of one process only (FileDescriptorTable, handle_open,
\* handle_close, handle_read).
THEOREM FdsKeepTheirFiles == Spec => FdKeepsItsFile
  <1> DEFINE Keeps ==
        /\ \A p \in Procs, fd \in Slots :
             fds[p][fd] # NoFile /\ fds'[p][fd] # NoFile =>
               /\ fds'[p][fd].node = fds[p][fd].node
               /\ fds'[p][fd].gen = fds[p][fd].gen
               /\ fds'[p][fd].offset >= fds[p][fd].offset
        /\ \A p, q \in Procs : fds'[p] # fds[p] /\ fds'[q] # fds[q] => p = q
  <1>1. ASSUME Inv, [Next]_vars PROVE [Keeps]_vars
    <2> USE <1>1 DEF Inv
    <2>0. \A p \in Procs, fd \in Slots :
            fds[p][fd] # NoFile => fds[p][fd].offset >= fds[p][fd].offset
      BY DEF TypeOK, Files
    <2>1. ASSUME NEW p \in Procs, NEW path \in Requests,
                 Open(p, path) \/ OpenFailsToRead(p, path)
          PROVE  Keeps
      BY <2>0, <2>1, OpenStep DEF SlotsFilled
    <2>2. ASSUME NEW p \in Procs, NEW fd \in Slots, Close(p, fd)
          PROVE  Keeps
      BY <2>0, <2>2 DEF Close, TypeOK
    <2>3. ASSUME NEW p \in Procs, NEW fd \in Slots, ReadUnopened(p, fd)
          PROVE  Keeps
      BY <2>0, <2>3 DEF ReadUnopened
    <2>4. ASSUME NEW p \in Procs, NEW fd \in Slots, NEW size \in Sizes, Read(p, fd, size)
          PROVE  Keeps
      <3>1. /\ \A q \in Procs : q # p => fds'[q] = fds[q]
            /\ \A e \in Slots : e # fd => fds'[p][e] = fds[p][e]
            /\ fds'[p][fd].node = fds[p][fd].node
            /\ fds'[p][fd].gen = fds[p][fd].gen
            /\ fds'[p][fd].offset >= fds[p][fd].offset
        BY <2>4, ReadStep
      <3> QED BY <2>0, <3>1
    <2> QED BY <2>1, <2>2, <2>3, <2>4 DEF Next
  <1>2. Inv /\ [Next]_vars => [Keeps]_vars
    BY <1>1
  <1>3. Spec => [][Keeps]_vars
    BY <1>2, Invariance, PTL DEF Spec
  <1> QED BY <1>3 DEF FdKeepsItsFile

-----------------------------------------------------------------------------
(* The opener counts. *)

Slack(m) == IF Len(m[2]) > 1 THEN 1 ELSE 0

\* Inductive: the files that hold a descriptor are finitely many and covered.
Covered ==
  /\ \A m \in Nodes : IsFiniteSet(Holders(m))
  /\ \A m \in DOMAIN table : Cardinality(Holders(m)) <= table[m].openers + Slack(m)

LEMMA SlackType == \A m : Slack(m) \in {0, 1}
  BY DEF Slack

\* A node that is not listed is held by no file.
LEMMA UnlistedUnheld ==
  ASSUME SharedDescriptor, NEW m, m \notin DOMAIN table
  PROVE  Holders(m) = {}
  BY DEF SharedDescriptor, Holders

\* What a turn of the walk does to the count of a listed node.
LEMMA TurnedOpeners ==
  ASSUME TypeOK, NEW m \in DOMAIN table
  PROVE  Turned(m).openers >= table[m].openers
  <1>1. table[m] \in DescriptorType /\ table[m].openers \in Nat
    BY DEF TypeOK, DescriptorType
  <1>2. Opened(table[m]).openers = table[m].openers + 1
        /\ Opened(table[m]) \in DescriptorType
    BY <1>1 DEF Opened, DescriptorType
  <1>3. Closed(Opened(table[m])).openers = table[m].openers
    BY <1>1, <1>2 DEF Closed, DescriptorType
  <1> QED BY <1>1, <1>2, <1>3 DEF Turned

\* handle_open counts for a listed node at least what it counted before, and
\* for a newly listed one at least the file it may install.
LEMMA StepPath ==
  ASSUME NEW n, IsPath(n[2]), NEW j \in 1 .. Len(n[2])
  PROVE  Step(n, j)[2] = SubSeq(n[2], 1, j) /\ Len(Step(n, j)[2]) = j
  <1> DEFINE S == {n[2][i] : i \in DOMAIN n[2]}
  <1>1. n[2] \in Seq(S)
    BY DEF IsPath
  <1>2. Step(n, j)[2] = SubSeq(n[2], 1, j)
    BY DEF Step
  <1> HIDE DEF S
  <1>3. Len(SubSeq(n[2], 1, j)) = j
    BY <1>1
  <1> QED BY <1>2, <1>3

LEMMA WalkedOpeners ==
  ASSUME TypeOK, NEW n, IsPath(n[2]), NEW k \in Nat, WalkTo(n, k)
  PROVE  /\ \A m \in DOMAIN table : table'[m].openers >= table[m].openers
         /\ \A m \in DOMAIN table' \ DOMAIN table : table'[m].openers + Slack(m) >= 1
  <1>1. DOMAIN table' = DOMAIN table \cup Steps(n, k) /\ Steps(n, k) \subseteq Nodes
    BY WalkedTable DEF WalkTo
  <1>2. \A m \in DOMAIN table' :
          table'[m] = IF m \in Steps(n, k) THEN Turned(m) ELSE table[m]
    BY <1>1 DEF WalkTo, Walked, Removed
  <1>3. ASSUME NEW m \in DOMAIN table PROVE table'[m].openers >= table[m].openers
    <2>1. table[m].openers \in Nat
      BY DEF TypeOK, DescriptorType
    <2> QED BY <1>1, <1>2, <2>1, TurnedOpeners
  <1>4. ASSUME NEW m \in DOMAIN table' \ DOMAIN table
        PROVE  table'[m].openers + Slack(m) >= 1
    <2>1. m \in Steps(n, k) /\ m \in Nodes /\ table'[m] = Turned(m)
      BY <1>1, <1>2
    <2>2. PICK j \in 1 .. k : m = Step(n, j)
      BY <2>1 DEF Steps
    <2>3. Len(m[2]) = j /\ j \in Nat /\ j >= 1
      BY <2>2, StepPath DEF WalkTo, Walkable
    <2>4. made[m] \in Nat
      BY <2>1 DEF TypeOK
    <2>5. Created(m) = [gen |-> made[m] + 1, openers |-> 1]
          /\ Closed(Created(m)).openers = 0
      BY <2>4 DEF Created, Closed
    <2>6. CASE Len(m[2]) = 1
      <3>1. table'[m].openers = 1
        BY <1>4, <2>1, <2>5, <2>6 DEF Turned
      <3> QED BY <3>1, SlackType
    <2>7. CASE Len(m[2]) # 1
      <3>1. Len(m[2]) > 1
        BY <2>3, <2>7
      <3>2. table'[m].openers = 0
        BY <1>4, <2>1, <2>5, <2>7 DEF Turned
      <3> QED BY <3>1, <3>2 DEF Slack
    <2> QED BY <2>6, <2>7
  <1> QED BY <1>3, <1>4

\* What the two tables have to do for the counts to cover: a listed node gets
\* an opener more when a file is installed for it.
CountsUp(p) ==
  /\ \A m \in DOMAIN table : table'[m].openers >= table[m].openers
  /\ \A m \in DOMAIN table' \ DOMAIN table : table'[m].openers + Slack(m) >= 1
  /\ \/ UNCHANGED fds
     \/ \E n \in DOMAIN table', fd \in Slots : \E f :
          /\ f # NoFile /\ f.node = n
          /\ fds[p][fd] = NoFile /\ fds' = [fds EXCEPT ![p][fd] = f]
          /\ n \in DOMAIN table => table'[n].openers >= table[n].openers + 1

LEMMA InstallCounts ==
  ASSUME TypeOK, NEW p \in Procs, NEW n \in DOMAIN table', NEW t,
         NewFile(n, t) # NoFile, Install(p, NewFile(n, t))
  PROVE  \/ UNCHANGED fds
         \/ \E fd \in Slots : \E f :
              /\ f # NoFile /\ f.node = n
              /\ fds[p][fd] = NoFile /\ fds' = [fds EXCEPT ![p][fd] = f]
  <1>1. NewFile(n, t).node = n
    BY DEF NewFile
  <1> QED BY <1>1 DEF Install

LEMMA OpenCounts ==
  ASSUME TypeOK, SharedDescriptor, NEW p \in Procs, NEW path \in Requests,
         Open(p, path) \/ OpenFailsToRead(p, path)
  PROVE  CountsUp(p)
  <1> DEFINE n == Resolve(path)
  <1>0. TablesGrow
    BY OpenStep
  <1>1. ASSUME NEW x \in DOMAIN table' PROVE NewFile(x, table') # NoFile
    BY <1>0, <1>1, NewFileType, FileAssumption DEF TablesGrow
  <1>7. IsPath(n[2])
    BY RootAssumption
  <1> HIDE DEF n
  <1>2. CASE OpenListed(p, n)
    <2>1. \A m \in DOMAIN table : table[m] \in DescriptorType /\ table[m].openers \in Nat
      BY DEF TypeOK, DescriptorType
    <2>2. n \in DOMAIN table /\ table' = [table EXCEPT ![n] = Opened(table[n])]
          /\ Install(p, NewFile(n, table'))
      BY <1>2 DEF OpenListed
    <2>3. DOMAIN table' = DOMAIN table /\ table'[n].openers = table[n].openers + 1
          /\ \A m \in DOMAIN table : m # n => table'[m] = table[m]
      BY <2>1, <2>2 DEF Opened, DescriptorType
    <2>4. \A m \in DOMAIN table : table'[m].openers >= table[m].openers
      BY <2>1, <2>2, <2>3
    <2>5. table'[n].openers >= table[n].openers + 1
      BY <2>1, <2>2, <2>3
    <2>6. NewFile(n, table') # NoFile /\ n \in DOMAIN table'
      BY <1>1, <2>2, <2>3
    <2> QED BY <2>2, <2>3, <2>4, <2>5, <2>6, InstallCounts DEF CountsUp
  <1>3. CASE OpenRoot(p, n)
    <2>1. n \notin DOMAIN table /\ DOMAIN table' = DOMAIN table \cup {n}
          /\ table'[n] = Created(n) /\ Install(p, NewFile(n, table'))
          /\ \A m \in DOMAIN table : table'[m] = table[m]
      BY <1>3 DEF OpenRoot
    <2>2. table'[n].openers = 1
      BY <2>1 DEF Created
    <2>3. \A m \in DOMAIN table : table'[m].openers >= table[m].openers
      BY <2>1 DEF TypeOK, DescriptorType
    <2>4. \A m \in DOMAIN table' \ DOMAIN table : table'[m].openers + Slack(m) >= 1
      BY <2>1, <2>2, SlackType
    <2>5. NewFile(n, table') # NoFile /\ n \in DOMAIN table'
      BY <1>1, <2>1
    <2>6. \/ UNCHANGED fds
          \/ \E fd \in Slots : \E f :
               /\ f # NoFile /\ f.node = n
               /\ fds[p][fd] = NoFile /\ fds' = [fds EXCEPT ![p][fd] = f]
      BY <2>1, <2>5, InstallCounts
    <2> QED BY <2>1, <2>3, <2>4, <2>5, <2>6 DEF CountsUp
  <1>4. CASE OpenWalk(p, n)
    <2>1. Len(n[2]) \in Nat /\ WalkTo(n, Len(n[2])) /\ n \notin DOMAIN table
      BY <1>4 DEF OpenWalk, WalkTo, Walkable
    <2>2. /\ \A m \in DOMAIN table : table'[m].openers >= table[m].openers
          /\ \A m \in DOMAIN table' \ DOMAIN table : table'[m].openers + Slack(m) >= 1
      BY <2>1, <1>7, WalkedOpeners
    <2>3. CASE n \in DOMAIN table'
      <3>1. Install(p, NewFile(n, table')) /\ NewFile(n, table') # NoFile
        BY <1>1, <1>4, <2>3 DEF OpenWalk
      <3> QED BY <2>1, <2>2, <2>3, <3>1, InstallCounts DEF CountsUp
    <2>4. CASE n \notin DOMAIN table'
      BY <1>4, <2>2, <2>4 DEF OpenWalk, CountsUp
    <2> QED BY <2>3, <2>4
  <1>5. CASE OpenMissing(n) \/ OpenUnreadable(n)
    <2>1. PICK k \in 0 .. Len(n[2]) - 1 : WalkTo(n, k) /\ UNCHANGED fds
      BY <1>5 DEF OpenMissing, OpenUnreadable
    <2>2. k \in Nat
      BY <2>1 DEF WalkTo, Walkable
    <2> QED BY <2>1, <2>2, <1>7, WalkedOpeners DEF CountsUp
  <1>6. CASE OpenFaults(n)
    <2>1. UNCHANGED fds
      BY <1>6 DEF OpenFaults
    <2>2. CASE UNCHANGED table
      BY <2>1, <2>2 DEF CountsUp, TypeOK, DescriptorType
    <2>3. CASE \E j \in 1 .. Len(n[2]) : WalkTo(n, j - 1)
      <3>1. PICK j \in 1 .. Len(n[2]) : WalkTo(n, j - 1)
        BY <2>3
      <3>2. j - 1 \in Nat
        BY <3>1 DEF WalkTo, Walkable
      <3> QED BY <2>1, <3>1, <3>2, <1>7, WalkedOpeners DEF CountsUp
    <2> QED BY <1>6, <2>2, <2>3 DEF OpenFaults
  <1> QED BY <1>2, <1>3, <1>4, <1>5, <1>6 DEF Open, OpenFailsToRead, n

\* One slot of one process is filled: one node has one holder more.
LEMMA HoldersAfter ==
  ASSUME TypeOK, NEW p \in Procs, NEW fd \in Slots, NEW f, f # NoFile,
         fds[p][fd] = NoFile, fds' = [fds EXCEPT ![p][fd] = f]
  PROVE  /\ Holders(f.node)' = Holders(f.node) \cup {<<p, fd>>}
         /\ <<p, fd>> \notin Holders(f.node)
         /\ \A m : m # f.node => Holders(m)' = Holders(m)
  <1>1. \A q \in Procs, e \in Slots :
          fds'[q][e] = IF q = p /\ e = fd THEN f ELSE fds[q][e]
    BY DEF TypeOK
  <1>2. \A s \in Procs \X Slots : s = <<p, fd>> <=> s[1] = p /\ s[2] = fd
    OBVIOUS
  <1>3. \A m : Holders(m)' = {s \in Procs \X Slots : /\ fds'[s[1]][s[2]] # NoFile
                                                     /\ fds'[s[1]][s[2]].node = m}
    BY DEF Holders
  <1>4. \A s \in Procs \X Slots :
          fds'[s[1]][s[2]] = IF s = <<p, fd>> THEN f ELSE fds[s[1]][s[2]]
    BY <1>1, <1>2
  <1>5. <<p, fd>> \in Procs \X Slots /\ fds[<<p, fd>>[1]][<<p, fd>>[2]] = NoFile
    OBVIOUS
  <1> QED BY <1>3, <1>4, <1>5 DEF Holders

\* A set of slots that is kept or loses some.
LEMMA FewerHolders ==
  ASSUME Covered, TypeOK, UNCHANGED table,
         \A m : Holders(m)' \subseteq Holders(m)
  PROVE  Covered'
  <1>1. ASSUME NEW m \in Nodes
        PROVE  /\ IsFiniteSet(Holders(m)')
               /\ Cardinality(Holders(m)') <= Cardinality(Holders(m))
               /\ Cardinality(Holders(m)') \in Nat /\ Cardinality(Holders(m)) \in Nat
    <2>1. IsFiniteSet(Holders(m)) /\ Holders(m)' \subseteq Holders(m)
      BY DEF Covered
    <2> QED BY <2>1, FS_Subset, FS_CardinalityType
  <1>2. ASSUME NEW m \in DOMAIN table
        PROVE  Cardinality(Holders(m)') <= table[m].openers + Slack(m)
    <2>1. table[m].openers \in Nat /\ m \in Nodes
      BY DEF TypeOK, DescriptorType
    <2>2. Slack(m) \in Nat
      BY SlackType
    <2>3. Cardinality(Holders(m)) <= table[m].openers + Slack(m)
      BY DEF Covered
    <2> QED BY <1>1, <2>1, <2>2, <2>3
  <1>3. table' = table
    OBVIOUS
  <1>4. \A m : Slack(m)' = Slack(m)
    BY DEF Slack
  <1> QED BY <1>1, <1>2, <1>3, <1>4 DEF Covered

\* handle_open: the node a file is installed for gets an opener and a holder.
LEMMA OpenCovered ==
  ASSUME Covered, TypeOK, TypeOK', SharedDescriptor, NEW p \in Procs, CountsUp(p),
         DOMAIN table \subseteq DOMAIN table'
  PROVE  Covered'
  <1>1. \A m \in DOMAIN table : table[m].openers \in Nat
    BY DEF TypeOK, DescriptorType
  <1>2. \A m \in DOMAIN table' : table'[m].openers \in Nat /\ m \in Nodes
    BY DEF TypeOK, DescriptorType
  <1>3. \A m \in DOMAIN table :
          /\ table'[m].openers >= table[m].openers
          /\ IsFiniteSet(Holders(m)) /\ Cardinality(Holders(m)) \in Nat
          /\ Cardinality(Holders(m)) <= table[m].openers + Slack(m)
    BY FS_CardinalityType DEF CountsUp, Covered, TypeOK
  <1>4. \A m \in DOMAIN table' \ DOMAIN table :
          /\ table'[m].openers + Slack(m) >= 1
          /\ Holders(m) = {} /\ Cardinality(Holders(m)) = 0
    BY UnlistedUnheld, FS_EmptySet DEF CountsUp
  <1>5. \A m \in DOMAIN table' : Cardinality(Holders(m)) <= table'[m].openers + Slack(m)
    <2>1. ASSUME NEW m \in DOMAIN table
          PROVE  Cardinality(Holders(m)) <= table'[m].openers + Slack(m)
      BY <1>1, <1>2, <1>3, SlackType
    <2>2. ASSUME NEW m \in DOMAIN table' \ DOMAIN table
          PROVE  Cardinality(Holders(m)) <= table'[m].openers + Slack(m)
      BY <1>2, <1>4, SlackType
    <2> QED BY <2>1, <2>2
  <1>6. \A m : Slack(m)' = Slack(m)
    BY DEF Slack
  <1>7. CASE UNCHANGED fds
    <2>1. \A m : Holders(m)' = Holders(m)
      BY <1>7 DEF Holders
    <2> QED BY <1>5, <1>6, <2>1 DEF Covered
  <1>8. CASE ~UNCHANGED fds
    <2>0. PICK n \in DOMAIN table', fd \in Slots : \E f :
            /\ f # NoFile /\ f.node = n
            /\ fds[p][fd] = NoFile /\ fds' = [fds EXCEPT ![p][fd] = f]
            /\ n \in DOMAIN table => table'[n].openers >= table[n].openers + 1
      BY <1>8 DEF CountsUp
    <2>1. PICK f :
            /\ f # NoFile /\ f.node = n
            /\ fds[p][fd] = NoFile /\ fds' = [fds EXCEPT ![p][fd] = f]
            /\ n \in DOMAIN table => table'[n].openers >= table[n].openers + 1
      BY <2>0
    <2>2. /\ Holders(n)' = Holders(n) \cup {<<p, fd>>}
          /\ <<p, fd>> \notin Holders(n)
          /\ \A m : m # n => Holders(m)' = Holders(m)
      BY <2>1, HoldersAfter
    <2>3. IsFiniteSet(Holders(n)) /\ Cardinality(Holders(n)) \in Nat
      BY <1>2, FS_CardinalityType DEF Covered
    <2>4. /\ IsFiniteSet(Holders(n)')
          /\ Cardinality(Holders(n)') = Cardinality(Holders(n)) + 1
      <3> DEFINE H == Holders(n)
      <3>1. IsFiniteSet(H) /\ <<p, fd>> \notin H /\ Holders(n)' = H \cup {<<p, fd>>}
        BY <2>2, <2>3
      <3> HIDE DEF H
      <3>2. IsFiniteSet(H \cup {<<p, fd>>}) /\ Cardinality(H \cup {<<p, fd>>}) = Cardinality(H) + 1
        BY <3>1, FS_AddElement
      <3> QED BY <3>1, <3>2 DEF H
    <2>5. Cardinality(Holders(n)) + 1 <= table'[n].openers + Slack(n)
      <3>1. CASE n \in DOMAIN table
        BY <1>1, <1>2, <1>3, <2>1, <2>3, <3>1, SlackType
      <3>2. CASE n \notin DOMAIN table
        BY <1>2, <1>4, <2>1, <3>2, SlackType
      <3> QED BY <3>1, <3>2
    <2>6. \A m \in Nodes : IsFiniteSet(Holders(m)')
      BY <2>2, <2>4 DEF Covered
    <2>7. \A m \in DOMAIN table' : Cardinality(Holders(m)') <= table'[m].openers + Slack(m)
      BY <1>5, <2>2, <2>4, <2>5
    <2> QED BY <1>6, <2>6, <2>7 DEF Covered
  <1> QED BY <1>7, <1>8

LEMMA InitCovered == Init => Covered
  <1> SUFFICES ASSUME Init PROVE Covered
    OBVIOUS
  <1>1. \A m : Holders(m) = {}
    BY DEF Init, Holders
  <1>2. DOMAIN table = {}
    BY DEF Init
  <1> QED BY <1>1, <1>2, FS_EmptySet DEF Covered

LEMMA NextCovered == Inv /\ Inv' /\ Covered /\ [Next]_vars => Covered'
  <1> SUFFICES ASSUME Inv, Inv', Covered, [Next]_vars PROVE Covered'
    OBVIOUS
  <1> USE DEF Inv
  <1>1. ASSUME NEW p \in Procs, NEW path \in Requests,
               Open(p, path) \/ OpenFailsToRead(p, path)
        PROVE  Covered'
    <2>1. DOMAIN table \subseteq DOMAIN table'
      BY <1>1, OpenStep DEF TablesGrow
    <2> QED BY <1>1, <2>1, OpenCounts, OpenCovered
  <1>2. ASSUME NEW p \in Procs, NEW fd \in Slots, Close(p, fd)
        PROVE  Covered'
    <2>1. \A q \in Procs, e \in Slots : fds'[q][e] \in {fds[q][e], NoFile}
      BY <1>2 DEF Close, TypeOK
    <2>2. \A m : Holders(m)' \subseteq Holders(m)
      BY <2>1 DEF Holders
    <2> QED BY <1>2, <2>2, FewerHolders DEF Close
  <1>3. ASSUME NEW p \in Procs, NEW fd \in Slots, NEW size \in Sizes, Read(p, fd, size)
        PROVE  Covered'
    <2>1. /\ \A q \in Procs : q # p => fds'[q] = fds[q]
          /\ \A e \in Slots : e # fd => fds'[p][e] = fds[p][e]
          /\ fds[p][fd] # NoFile
          /\ fds'[p][fd].node = fds[p][fd].node
      BY <1>3, ReadStep
    <2>2. \A m : Holders(m)' \subseteq Holders(m)
      BY <2>1 DEF Holders
    <2> QED BY <1>3, <2>2, FewerHolders DEF Read
  <1>4. ASSUME UNCHANGED table, UNCHANGED fds PROVE Covered'
    <2>1. \A m : Holders(m)' \subseteq Holders(m)
      BY <1>4 DEF Holders
    <2> QED BY <1>4, <2>1, FewerHolders
  <1> QED BY <1>1, <1>2, <1>3, <1>4 DEF Next, ReadUnopened, vars

\* m_number_of_openers never falls behind the file objects that hold the
\* descriptor by more than the one opener the walk took back, in any order of
\* opens, walks, reads and closes (FileSystem::open, OpenFileDescriptorTable).
THEOREM OpenersCover == Spec => []OpenersCoverFiles
  <1>1. Init => Covered
    BY InitCovered
  <1>2. Inv /\ Inv' /\ Covered /\ [Next]_vars => Covered'
    BY NextCovered
  <1>3. Covered => OpenersCoverFiles
    BY DEF Covered, OpenersCoverFiles, Slack
  <1> QED BY <1>1, <1>2, <1>3, Invariance, PTL DEF Spec

-----------------------------------------------------------------------------
(* Opening a path that exists. *)

\* The last turn of the walk to a node is the node.
LEMMA WholePath ==
  ASSUME NEW n \in Nodes
  PROVE  Len(n[2]) \in Nat /\ Step(n, Len(n[2])) = n
  <1> DEFINE S == {n[2][i] : i \in DOMAIN n[2]}
  <1>1. n[2] \in Seq(S) /\ n = <<n[1], n[2]>>
    BY TreeAssumption DEF IsPath
  <1> HIDE DEF S
  <1>2. SubSeq(n[2], 1, Len(n[2])) = n[2] /\ Len(n[2]) \in Nat
    BY <1>1
  <1> QED BY <1>1, <1>2 DEF Step

\* FileDescriptorTable::open fills a slot when one is free.
LEMMA InstallFills ==
  ASSUME TypeOK, NEW p \in Procs, NEW n \in DOMAIN table', TablesGrow,
         \E fd \in Slots : fds[p][fd] = NoFile, Install(p, NewFile(n, table'))
  PROVE  \E fd \in Slots : /\ fds[p][fd] = NoFile /\ fds'[p][fd] # NoFile
                           /\ fds'[p][fd].node = n
  <1>1. NewFile(n, table') \in Files /\ NewFile(n, table').node = n
    BY NewFileType DEF TablesGrow
  <1>2. PICK fd \in Slots : /\ fds[p][fd] = NoFile
                           /\ fds' = [fds EXCEPT ![p][fd] = NewFile(n, table')]
    BY DEF Install
  <1>3. fds'[p][fd] = NewFile(n, table')
    BY <1>2 DEF TypeOK
  <1>4. NewFile(n, table') # NoFile
    BY <1>1, FileAssumption
  <1> QED BY <1>1, <1>2, <1>3, <1>4

\* A walk to a node never meets a missing part.
LEMMA NothingMissing ==
  ASSUME NEW n \in Nodes
  PROVE  ~OpenMissing(n)
  <1>1. ASSUME NEW k \in 0 .. Len(n[2]) - 1, Step(n, k) \in Dirs => Step(n, k + 1) \notin Nodes
        PROVE  FALSE
    <2>1. Len(n[2]) \in Nat /\ Step(n, Len(n[2])) = n
      BY WholePath
    <2>2. \A j \in 0 .. Len(n[2]) - 1 : Step(n, j) \in Dirs
      BY TreeAssumption
    <2>3. Step(n, k) \in Dirs /\ k + 1 \in 0 .. Len(n[2])
      BY <2>1, <2>2
    <2>4. k + 1 \in 0 .. Len(n[2]) - 1 \/ k + 1 = Len(n[2])
      BY <2>1, <2>3
    <2>5. Step(n, k + 1) \in Nodes
      BY <2>1, <2>2, <2>4, FileAssumption
    <2> QED BY <1>1, <2>3, <2>5
  <1> QED BY <1>1 DEF OpenMissing

LEMMA ExistingOpens ==
  ASSUME TypeOK, NEW p \in Procs, NEW path \in Requests, Open(p, path),
         \E fd \in Slots : fds[p][fd] = NoFile, mode' = "run", Resolve(path) \in Nodes
  PROVE  \E fd \in Slots : /\ fds[p][fd] = NoFile /\ fds'[p][fd] # NoFile
                           /\ fds'[p][fd].node = Resolve(path)
  <1> DEFINE n == Resolve(path)
  <1>0. TablesGrow
    BY OpenStep
  <1>1. n \in Nodes /\ mode' # "fault"
    OBVIOUS
  <1> HIDE DEF n
  <1>2. CASE OpenListed(p, n)
    <2>1. n \in DOMAIN table' /\ Install(p, NewFile(n, table'))
      BY <1>0, <1>2 DEF OpenListed, TablesGrow
    <2> QED BY <1>0, <2>1, InstallFills DEF n
  <1>3. CASE OpenRoot(p, n)
    <2>1. n \in DOMAIN table' /\ Install(p, NewFile(n, table'))
      BY <1>3 DEF OpenRoot
    <2> QED BY <1>0, <2>1, InstallFills DEF n
  <1>4. CASE OpenWalk(p, n)
    <2>1. Len(n[2]) \in Nat /\ Step(n, Len(n[2])) = n
      BY <1>1, WholePath
    <2>2. /\ WalkTo(n, Len(n[2])) /\ Walkable(n, Len(n[2]))
          /\ n[2] # <<>> /\ table' = Walked(n, Len(n[2]))
      BY <1>4 DEF OpenWalk, WalkTo
    <2>3. Len(n[2]) # 0
      <3> DEFINE S == {n[2][i] : i \in DOMAIN n[2]}
      <3>1. n[2] \in Seq(S)
        BY <1>1, TreeAssumption DEF IsPath
      <3> HIDE DEF S
      <3> QED BY <2>2, <3>1
    <2>4. n \in Steps(n, Len(n[2]))
      BY <2>1, <2>3 DEF Steps
    <2>5. n \in DOMAIN table'
      BY <2>1, <2>2, <2>4, WalkedTable
    <2>6. Install(p, NewFile(n, table'))
      BY <1>4, <2>5 DEF OpenWalk
    <2> QED BY <1>0, <2>5, <2>6, InstallFills DEF n
  <1>5. CASE OpenMissing(n)
    BY <1>1, <1>5, NothingMissing
  <1>6. CASE OpenFaults(n)
    BY <1>1, <1>6 DEF OpenFaults
  <1> QED BY <1>2, <1>3, <1>4, <1>5, <1>6 DEF Open, n

\* handle_open of a path that exists gives the process a file for it whenever
\* it has a free slot and the kernel does not fault, whatever was opened and
\* walked over before (FileSystem::open, FileDescriptorTable::open).
THEOREM ExistingPathsOpen == Spec => ExistingPathOpens
  <1> DEFINE Opens ==
        \A p \in Procs :
          (\E fd \in Slots : fds[p][fd] = NoFile) /\ mode' = "run" =>
            \A path \in Requests :
              \/ Resolve(path) \notin Nodes
              \/ \E fd \in Slots : /\ fds[p][fd] = NoFile /\ fds'[p][fd] # NoFile
                                   /\ fds'[p][fd].node = Resolve(path)
              \/ ~Open(p, path)
  <1>1. TypeOK => Opens
    BY ExistingOpens
  <1>2. TypeOK /\ [Next]_vars => [Opens]_vars
    BY <1>1
  <1>3. Spec => [][Opens]_vars
    BY <1>2, TypeCorrect, PTL DEF Spec
  <1> QED BY <1>3 DEF ExistingPathOpens

=============================================================================
