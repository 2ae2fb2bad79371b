SPECIFICATION Spec
CONSTANTS
  fat = fat
  dev = dev
  p1 = p1
  p2 = p2
  NoFile = NoFile
  RootFs = fat
  Procs = {p1, p2}
  MaxFds = 2
  Mounts <- MCMounts
  Disks = {fat}
  Nodes <- MCTree
  Dirs <- MCDirs
  Devices <- MCDevices
  Size <- MCSize
  Bucket <- MCBucket
  Requests <- MCRequests
  Sizes = {0, 1, 3}
  MaxOpeners = 2
  MaxOffset = 1
CHECK_DEADLOCK FALSE
SYMMETRY MCSymmetry
INVARIANTS SharedDescriptor OpenersCoverFiles
PROPERTIES ExistingPathOpens FdKeepsItsFile
