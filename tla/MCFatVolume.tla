---------------------------- MODULE MCFatVolume ----------------------------
(* FatVolume for TLC. *)
EXTENDS FatVolume

(* FAT32 volumes of 8 and 2 sectors per cluster whose data begins on a     *)
(* block, and one with a cluster too few for FAT32.                              *)
Volume(per_cluster, fats, per_fat, total) ==
    [sectors_per_cluster |-> per_cluster, reserved_sectors |-> 32, fat_count |-> fats,
     root_entries |-> 0, total_sectors |-> 0, sectors_per_fat |-> 0,
     total_sectors_large |-> total, sectors_per_fat32 |-> per_fat, root_cluster |-> 2]
Wide == Volume(8, 2, 516, 32 + 1032 + 8 * 65600)
Narrow == Volume(2, 1, 512, 32 + 512 + 2 * 65525 + 1)
Small == Volume(8, 2, 516, 32 + 1032 + 8 * 65525 - 1)

File(parts, short, read_only, letter, deleted, cluster) ==
    [parts |-> parts, short |-> short, read_only |-> read_only, letter |-> letter,
     deleted |-> deleted, cluster |-> cluster, size |-> cluster * 10]
Label == File(<<>>, "VOLUME", FALSE, TRUE, FALSE, 0)
Plain == File(<<>>, "HELLO", FALSE, TRUE, FALSE, 3)
Long == File(<<"readme">>, "README~1", FALSE, TRUE, FALSE, 7)
Gone == File(<<"gone">>, "GONE~1", FALSE, TRUE, TRUE, 5)
Digits == File(<<"1.txt">>, "1", FALSE, FALSE, FALSE, 6)

Disk(b, c, n, d) == [boot |-> b, chain |-> c, size |-> n, dir |-> d]

(* Chains within a block of the FAT, over its sector and block boundaries  *)
(* (128 entries to a sector), backwards, and too short for the size.       *)
SoundDisks ==
    {Disk(Wide, <<129, 65560, 1025>>, 9000, <<Label, Plain, Gone, Long>>),
     Disk(Narrow, <<3, 4, 5, 256>>, 4096, <<Gone, Long, Digits, Plain>>),
     Disk(Narrow, <<1025, 3>>, 9000, <<>>),
     Disk(Wide, <<4>>, 1, <<Digits>>),
     Disk(Small, <<3>>, 10, <<Plain>>)}
SomeOffsets == {0, 1000, 4096, 8191}
SomeBuffers == {0, 100, 8192}

SomeNames == {<<"HELLO">>, <<"readme">>, <<"gone">>}

=============================================================================
