----------------------------- MODULE MCLibrary -----------------------------
(***************************************************************************)
(* The modules of the library Utils for TLC.  They share no state: a       *)
(* behaviour exercises one of them, chosen at the start, and leaves the    *)
(* variables of the others alone.                                          *)
(***************************************************************************)
EXTENDS Ownership, KernelLog, Strings, TLC

CONSTANTS Parts   \* "ownership", "log", "strings": the modules exercised

VARIABLE part

Init ==
    /\ part \in Parts
    /\ OwnershipInit /\ LogInit /\ StringsInit
    /\ part # "ownership" => used = "list"

Next ==
    /\ UNCHANGED part
    /\ \/ part = "ownership" /\ OwnershipNext /\ UNCHANGED <<klog, strings>>
       \/ part = "log" /\ LogNext /\ UNCHANGED <<ownership, strings>>
       \/ part = "strings" /\ StringsNext /\ UNCHANGED <<ownership, klog>>

Spec == Init /\ [][Next]_<<part, ownership, klog, strings>>

-----------------------------------------------------------------------------
(* A text with a brace to escape before a number in each base; a backslash *)
(* and a string; a text of only a brace; all the shapes the kernel logs.   *)
SomeMessages ==
    {<<<<"\n">>>>,
     <<<<"{">>, [number |-> 0, base |-> 10], <<"}", "}">>>>,
     <<<<"\\">>, [text |-> <<"{">>], <<":">>, [number |-> 10, base |-> 2], <<"}">>>>,
     <<<<>>, [number |-> 30, base |-> 16], <<"-">>, [number |-> 12, base |-> 10], <<"\\", "{">>>>}

SomeLiterals == {<<>>, <<"/">>, <<"a">>, <<"A">>}

Symmetric == Permutations(Objects) \cup Permutations(Vars)

=============================================================================
