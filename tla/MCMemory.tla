------------------------------ MODULE MCMemory ------------------------------
(***************************************************************************)
(* The kernel's two allocators for TLC.  They share no state: a behaviour  *)
(* exercises the heap or the pages and leaves the other's variables alone. *)
(***************************************************************************)
EXTENDS KernelHeap, PageAllocator

CONSTANTS Parts   \* "heap", "pages": the allocators exercised

VARIABLE part

AllocatorsInit ==
    /\ part \in Parts
    /\ Init /\ PagesInit
    /\ part # "pages" => \A i \in Reach \ Table : page[i] = "Free"

AllocatorsNext ==
    /\ UNCHANGED part
    /\ \/ part = "heap" /\ Next /\ UNCHANGED pageVars
       \/ part = "pages" /\ PagesNext /\ UNCHANGED vars

AllocatorsSpec ==
    /\ AllocatorsInit /\ [][AllocatorsNext]_<<part, vars, pageVars>>
    /\ Fairness

=============================================================================
