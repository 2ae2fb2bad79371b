--------------------------- MODULE ThreadContexts ---------------------------
(***************************************************************************)
(* What a context switch promises: every thread owns a context, the        *)
(* register file and the program counter, which only its own instructions  *)
(* and the answers to the system calls it makes change, whoever has the    *)
(* hart in between.                                                        *)
(***************************************************************************)
EXTENDS Naturals

CONSTANTS
    Threads,     \* the threads that can be created
    Nobody,      \* the hart runs the kernel
    Files,       \* register files the user programs can produce
    Pcs,         \* program counters, in instructions
    Fresh,       \* the register file of a new thread
    Results      \* values a system call can return

VARIABLES
    made,    \* the threads created
    ctx,     \* their contexts
    on,      \* the thread on the hart
    asking   \* the thread whose system call the kernel is at, or Nobody

vars == <<made, ctx, on, asking>>

Init ==
    /\ made = {}
    /\ ctx \in [Threads -> [regs : {Fresh}, pc : Pcs]]
    /\ on = Nobody
    /\ asking = Nobody

(* A thread is created with a fresh register file at its entry point. *)
Create(t) ==
    /\ on = Nobody
    /\ t \notin made
    /\ made' = made \cup {t}
    /\ \E p \in Pcs : ctx' = [ctx EXCEPT ![t] = [regs |-> Fresh, pc |-> p]]
    /\ UNCHANGED <<on, asking>>

(* The thread on the hart executes. *)
Compute ==
    /\ on \in Threads
    /\ \E f \in Files, p \in Pcs : ctx' = [ctx EXCEPT ![on] = [regs |-> f, pc |-> p]]
    /\ UNCHANGED <<made, on, asking>>

(* A trap takes the hart away from the thread; it may be a system call. *)
Leave ==
    /\ on \in Threads
    /\ on' = Nobody
    /\ asking' \in {on, Nobody}
    /\ UNCHANGED <<made, ctx>>

(* The kernel answers the system call thread t is at: once, and no thread  *)
(* that did not call.                                                      *)
Answer(t) ==
    /\ on = Nobody
    /\ t \in made /\ asking = t
    /\ asking' = Nobody
    /\ \E v \in Results :
         ctx' = [ctx EXCEPT ![t].regs["a0"] = v, ![t].pc = @ + 1]
    /\ UNCHANGED <<made, on>>

(* The call blocks: it is not answered, and the thread will be at it again. *)
PutOff ==
    /\ asking # Nobody
    /\ asking' = Nobody
    /\ UNCHANGED <<made, ctx, on>>

(* A thread gets the hart, no call being left open. *)
Resume(t) ==
    /\ on = Nobody /\ asking = Nobody
    /\ t \in made
    /\ on' = t
    /\ UNCHANGED <<made, ctx, asking>>

Next ==
    \/ Compute
    \/ Leave
    \/ PutOff
    \/ \E t \in Threads : Create(t) \/ Answer(t) \/ Resume(t)

Spec == Init /\ [][Next]_vars

=============================================================================
