\* FAT32 volumes of real size, files of up to three clusters, directories of
\* up to four files; every block access may fail.
SPECIFICATION Spec
CONSTANTS
    Disks <- SoundDisks
    Names <- SomeNames
    Offsets <- SomeOffsets
    Sizes <- SomeBuffers
    MaxBlocks = 5
CHECK_DEADLOCK FALSE
INVARIANTS
    ReadReturnsFile
    CacheCoherent
    LookupAndListAgree
