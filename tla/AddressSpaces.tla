---------------------------- MODULE AddressSpaces ----------------------------
(***************************************************************************)
(* What the memory manager promises about address spaces: each one is a    *)
(* flat function from virtual pages to translations, mapping a page        *)
(* changes the translation of that page in that space and of nothing else, *)
(* and a new space translates nothing.  PageTable implements this with     *)
(* three levels of tables in shared memory.                                *)
(***************************************************************************)
EXTENDS Integers

CONSTANTS
    Names,      \* names of address spaces
    First,      \* the kernel's address space
    Pages,      \* virtual pages
    Rights      \* rights a translation can carry

VARIABLE space  \* address space |-> virtual page |-> translation

(* A translation, and its absence. *)
Translation == [valid : BOOLEAN, ppn : Nat, rights : SUBSET Rights]
Absent == [valid |-> FALSE, ppn |-> 0, rights |-> {}]
Blank == [p \in Pages |-> Absent]

Init == space = [s \in {First} |-> Blank]

(* A new address space. *)
Create(s) ==
    /\ s \notin DOMAIN space
    /\ space' = [t \in DOMAIN space \cup {s} |-> IF t = s THEN Blank ELSE space[t]]

(* Page p of space s is mapped.  A page that is mapped again keeps the     *)
(* rights it had.                                                          *)
Map(s, p) ==
    LET new == space'[s][p]
    IN  /\ space' = [space EXCEPT ![s][p] = new]
        /\ new \in Translation
        /\ new.valid
        /\ space[s][p].rights \subseteq new.rights

Next ==
    \/ \E s \in Names : Create(s)
    \/ \E s \in DOMAIN space, p \in Pages : Map(s, p)

Spec == Init /\ [][Next]_space

=============================================================================
