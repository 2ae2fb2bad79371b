----------------------------- MODULE MCPageTable -----------------------------
(***************************************************************************)
(* PageTable for TLC: tables of four entries, 64 virtual pages of two      *)
(* bytes.  Memory, in pages: 1 the trap frame's address, 4 the UART, 5 a   *)
(* device, 16 to 19 the kernel image and stack, 24 to 63 the allocator's   *)
(* pages.  The user's stack is at 62, 63.  As in the link script, rodata    *)
(* begins in the last page of the code and bss in the last page of data.   *)
(* The mapped heap ends before the allocator's last two pages, where the   *)
(* flattened device tree may lie.                                          *)
(***************************************************************************)
EXTENDS PageTable

R(start, end, bits) == [start |-> start, end |-> end, bits |-> bits]

MCFrames == 24..63
MCDefaults == <<R(48, 124, {"R", "W"}),
                R(32, 35, {"R", "X"}),     \* text
                R(35, 37, {"R", "X"}),     \* rodata
                R(38, 39, {"R", "W"}),     \* data
                R(39, 40, {"R", "W"}),     \* bss and stack
                R(8, 10, {"R", "W"})>>     \* UART
MCDevices == {R(9, 12, {"R", "W"}), R(124, 127, {"R", "W"})}
MCImage == <<R(32, 35, {"R", "X", "U"}),
             R(38, 39, {"R", "W", "U"}),
             R(39, 40, {"R", "W", "U"}),
             R(35, 37, {"R", "U"})>>

=============================================================================
