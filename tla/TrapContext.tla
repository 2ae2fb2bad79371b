---------------------------- MODULE TrapContext ----------------------------
(***************************************************************************)
(* Trap entry, context switch and return to user mode (trap.S), with the   *)
(* parts of the kernel they rest on: the trap frames, the hart's kernel    *)
(* frame, the address spaces of satp and prepare_for_switch.               *)
(*                                                                         *)
(* Every numbered block of m_trap_vector is one action.  A block reaches a *)
(* trap frame through a base pointer, and the pointer only works under the *)
(* right page table: the alias 0x1000 is mapped in the process tables, a   *)
(* different frame in each, and the frame's real address only in the       *)
(* kernel's table.  All process tables share ASID 1, so a translation of   *)
(* the alias left in the TLB would be the previous thread's.               *)
(*                                                                         *)
(* Interrupts stay off from trap entry to sret.  Which thread schedule()   *)
(* picks is KernelCore's subject: here it is any thread.  sstatus is saved *)
(* and restored wherever sepc is, and is not modelled apart.               *)
(***************************************************************************)
EXTENDS Naturals

CONSTANTS
    Threads,     \* the threads create_initial_processes can make
    Nobody,      \* current_process_id before the first schedule()
    UserFiles,   \* register files the user programs can produce
    UserResults, \* values a system call can put into a0
    MaxPc        \* bound on the program counters, in instructions

(* The registers the trap path treats differently: the stack and thread    *)
(* pointers, the temporaries it uses, the argument register, and one for   *)
(* all the others (s0) and for the floating-point file (f).                *)
Regs == {"sp", "tp", "t0", "t2", "t4", "t5", "t6", "a0", "s0", "f"}
Pcs == 0..MaxPc

(* Words that are pointers; user values are words of another kind. *)
Alias == <<"alias", "">>            \* TRAP_FRAME_ALIAS, 0x1000
Real(t) == <<"real", t>>            \* the kernel address of t's frame
HartFrame == <<"hart", "">>         \* the hart's KernelTrapFrame
StackTop == <<"stack", "">>         \* the top of the hart's kernel stack
Junk == <<"junk", "">>              \* a register nobody relies on
Zero == <<"zero", "">>
UserStack == <<"ustack", "">>       \* STACK_ADDRESS

(* Values of satp: the kernel's root table with ASID 0, a process's with 1. *)
KernelTable == <<"kernel", "">>
Table(t) == <<"process", t>>

FreshFile == [r \in Regs |-> IF r = "sp" THEN UserStack ELSE Zero]
KernelFile == [r \in Regs |-> CASE r = "sp" -> StackTop
                                [] r = "tp" -> HartFrame
                                [] OTHER    -> Junk]

Causes == {"software", "timer", "external", "call", "other"}

ASSUME ContextAssumption ==
    /\ Nobody \notin Threads
    /\ MaxPc \in Nat \ {0}
    /\ \A f \in UserFiles :
         /\ DOMAIN f = Regs
         /\ \A v \in UserResults : [f EXCEPT !["a0"] = v] \in UserFiles

VARIABLES
    step,      \* the block about to execute
    regs,      \* the hart's registers
    upc,       \* the program counter in user mode
    satp, sscratch, sepc, scause,
    frame,     \* the threads' TrapFrames
    tlb,       \* threads whose translation of the alias the TLB may hold (ASID 1)
    current,   \* current_process_id of the hart's KernelTrapFrame
    live       \* threads created

csrs == <<satp, sscratch, sepc, scause>>
vars == <<step, regs, upc, satp, sscratch, sepc, scause, frame, tlb, current, live>>

(* The frames an access through pointer w can touch under table s with     *)
(* the translations c cached.  None: the access faults.                    *)
Touches(w, s, c) ==
    IF s = KernelTable
    THEN {t \in live : w = Real(t)}
    ELSE {t \in live : w = Alias /\ (s = Table(t) \/ t \in c)}

Reaches(w) == Touches(w, satp, tlb)

(* Mutated form: nothing is flushed. *)
FencedNot(c) == c

(* sfence.vma: nothing stays cached. *)
Fenced(c) == {}

-----------------------------------------------------------------------------
(* Boot.                                                                   *)

(* System::System and hart_init have run: the kernel frame is in tp and in *)
(* sscratch, and paging is on.                                             *)
Init ==
    /\ step = "boot"
    /\ regs = KernelFile
    /\ upc = 0
    /\ satp = KernelTable
    /\ sscratch = HartFrame
    /\ sepc = 0
    /\ scause = "other"
    /\ frame = [t \in Threads |->
                  [regs |-> FreshFile, sepc |-> 0, scause |-> "other", satp |-> KernelTable,
                   k_sp |-> Zero, k_tp |-> Zero, k_addr |-> Zero]]
    /\ tlb = {}
    /\ current = Nobody
    /\ live = {}

(* initialize_thread: the frame of a new thread with entry point p. *)
InitializeThread(t, p) ==
    [regs |-> FreshFile, sepc |-> p, scause |-> "other", satp |-> Table(t),
     k_sp |-> Zero, k_tp |-> Zero, k_addr |-> Real(t)]

(* create_dummy_process: the thread's frame, mapped at the alias in the    *)
(* new process's table.                                                    *)
CreateProcess(t, p) ==
    /\ step = "boot"
    /\ t \notin live
    /\ frame' = [frame EXCEPT ![t] = InitializeThread(t, p)]
    /\ live' = live \cup {t}
    /\ UNCHANGED <<step, regs, upc, csrs, tlb, current>>

(* Mutated form: the thread pointer is not packed. *)
PrepareForSwitchStack(f, t) == [f EXCEPT ![t].k_sp = StackTop]

(* prepare_for_switch: pack the hart's stack and kernel frame for t's next *)
(* trap.                                                                   *)
PrepareForSwitch(f, t) == [f EXCEPT ![t].k_sp = StackTop, ![t].k_tp = regs["tp"]]

(* start_scheduling and switch_to_user: the first thread's frame is        *)
(* reached by its real address up to the change of satp, by the alias      *)
(* after it.                                                               *)
SwitchToUser(t) ==
    /\ step = "boot"
    /\ t \in live
    /\ LET f == PrepareForSwitch(frame, t)
           root == f[t].satp
       IN  \E u \in Touches(Alias, root, Fenced(tlb)) :
             /\ frame' = [f EXCEPT ![t].satp = satp]
             /\ regs' = f[u].regs
             /\ upc' = f[t].sepc
             /\ sepc' = f[t].sepc
             /\ satp' = root
    /\ tlb' = {t}
    /\ sscratch' = Alias
    /\ current' = t
    /\ step' = "user"
    /\ UNCHANGED <<scause, live>>

-----------------------------------------------------------------------------
(* User mode.                                                              *)

(* The user program executes: its registers and pc become anything. *)
UserStep ==
    /\ step = "user"
    /\ regs' \in UserFiles
    /\ upc' \in Pcs
    /\ UNCHANGED <<step, csrs, frame, tlb, current, live>>

(* The hardware's part of a trap, for any cause at any instruction. *)
Trap(cause) ==
    /\ step = "user"
    /\ cause = "call" => upc < MaxPc
    /\ sepc' = upc
    /\ scause' = cause
    /\ step' = "save"
    /\ UNCHANGED <<regs, upc, satp, sscratch, frame, tlb, current, live>>

-----------------------------------------------------------------------------
(* m_trap_vector, entry.                                                   *)

(* Mutated form: x31 is saved like the others, after the swap. *)
SaveContextAfterSwap ==
    /\ step = "save"
    /\ \E t \in Reaches(sscratch) :
         /\ frame' = [frame EXCEPT ![t].regs = [regs EXCEPT !["t6"] = sscratch],
                                   ![t].sepc = sepc, ![t].scause = scause]
         /\ tlb' = tlb \cup {t}
    /\ regs' = [regs EXCEPT !["t6"] = sscratch, !["t0"] = Junk]
    /\ sscratch' = regs["t6"]
    /\ step' = "enter"
    /\ UNCHANGED <<upc, satp, sepc, scause, current, live>>

(* Blocks 1 and 2: swap t6 with sscratch, save x0..x30 through t6, then    *)
(* the user's t6 from sscratch, the floating-point file and the CSRs.      *)
SaveContext ==
    /\ step = "save"
    /\ \E t \in Reaches(sscratch) :
         /\ frame' = [frame EXCEPT ![t].regs = regs, ![t].sepc = sepc,
                                   ![t].scause = scause]
         /\ tlb' = tlb \cup {t}
    /\ regs' = [regs EXCEPT !["t6"] = sscratch, !["t0"] = Junk]
    /\ sscratch' = regs["t6"]
    /\ step' = "enter"
    /\ UNCHANGED <<upc, satp, sepc, scause, current, live>>

(* Blocks 3 and 4: fetch the frame's kernel address while the alias still  *)
(* works, exchange the frame's dual slot with satp, and fence unless both  *)
(* were equal.                                                             *)
EnterKernel ==
    /\ step = "enter"
    /\ \E t \in Reaches(regs["t6"]) :
         /\ regs' = [regs EXCEPT !["t2"] = frame[t].k_addr, !["t4"] = frame[t].satp,
                                 !["t5"] = satp]
         /\ frame' = [frame EXCEPT ![t].satp = satp]
         /\ satp' = frame[t].satp
         /\ tlb' = IF frame[t].satp = satp THEN tlb ELSE Fenced(tlb)
    /\ step' = "load"
    /\ UNCHANGED <<upc, sscratch, sepc, scause, current, live>>

(* Blocks 5 to 7: through the real pointer, load the kernel's stack and    *)
(* thread pointers; the frame is the argument of handle_interrupt.         *)
LoadKernel ==
    /\ step = "load"
    /\ \E t \in Reaches(regs["t2"]) :
         regs' = [regs EXCEPT !["t6"] = regs["t2"], !["a0"] = regs["t2"],
                              !["sp"] = frame[t].k_sp, !["tp"] = frame[t].k_tp]
    /\ step' = "handle"
    /\ UNCHANGED <<upc, csrs, frame, tlb, current, live>>

-----------------------------------------------------------------------------
(* handle_interrupt, by the cause saved in the frame passed to it.  The    *)
(* compiled code may leave anything in the registers but sp and tp.        *)

(* handle_interrupt returns the frame of thread t. *)
ReturnFrame(t) ==
    /\ regs' = [r \in Regs |-> IF r \in {"sp", "tp"} THEN regs[r]
                               ELSE IF r = "a0" THEN Real(t) ELSE Junk]
    /\ step' = "return"
    /\ UNCHANGED <<upc, csrs, tlb, live>>

(* The handlers that return the frame they were given: software and        *)
(* external interrupts, and causes without a handler.                      *)
HandleSame ==
    /\ step = "handle"
    /\ \E t \in Reaches(regs["a0"]) :
         /\ frame[t].scause \in {"software", "external", "other"}
         /\ ReturnFrame(t)
    /\ UNCHANGED <<frame, current>>

(* schedule() and prepare_for_switch: thread n is next. *)
Switch(n) ==
    /\ frame' = PrepareForSwitch(frame, n)
    /\ current' = n
    /\ ReturnFrame(n)

(* handle_timer_interrupt, and a system call that blocks: sepc stays on    *)
(* the ecall, and another thread is picked.                                *)
HandleSwitch(n) ==
    /\ step = "handle"
    /\ n \in live
    /\ \E t \in Reaches(regs["a0"]) : frame[t].scause \in {"timer", "call"}
    /\ Switch(n)

(* handle_system_call of a call that does not block: the result goes into  *)
(* the current thread's frame, sepc of the frame passed moves past the     *)
(* ecall.  exit is such a call: its thread goes on.                        *)
HandleCall(v) ==
    /\ step = "handle"
    /\ \E t \in Reaches(regs["a0"]) :
         /\ frame[t].scause = "call"
         /\ frame' = [[frame EXCEPT ![current].regs["a0"] = v] EXCEPT ![t].sepc = @ + 1]
         /\ ReturnFrame(t)
    /\ UNCHANGED current

-----------------------------------------------------------------------------
(* m_trap_vector, return.                                                  *)

(* Block 8: the CSRs of the frame returned. *)
RestoreCsrs ==
    /\ step = "return"
    /\ \E t \in Reaches(regs["a0"]) : sepc' = frame[t].sepc
    /\ regs' = [regs EXCEPT !["t6"] = regs["a0"]]
    /\ step' = "leave"
    /\ UNCHANGED <<upc, satp, sscratch, scause, frame, tlb, current, live>>

(* Blocks 9 and 10: exchange satp with the dual slot, fence, and go on     *)
(* through the alias.                                                      *)
LeaveKernel ==
    /\ step = "leave"
    /\ \E t \in Reaches(regs["t6"]) :
         /\ frame' = [frame EXCEPT ![t].satp = satp]
         /\ satp' = frame[t].satp
         /\ regs' = [regs EXCEPT !["t4"] = frame[t].satp, !["t5"] = satp, !["t6"] = Alias]
    /\ tlb' = Fenced(tlb)
    /\ step' = "restore"
    /\ UNCHANGED <<upc, sscratch, sepc, scause, current, live>>

(* Block 11: the floating-point file and the registers through the alias,  *)
(* t0 and t6 last, the alias into sscratch, and sret.                      *)
RestoreContext ==
    /\ step = "restore"
    /\ \E t \in Reaches(regs["t6"]) :
         /\ regs' = frame[t].regs
         /\ tlb' = tlb \cup {t}
    /\ sscratch' = regs["t6"]
    /\ upc' = sepc
    /\ step' = "user"
    /\ UNCHANGED <<satp, sepc, scause, frame, current, live>>

Next ==
    \/ \E t \in Threads : \/ \E p \in Pcs : CreateProcess(t, p)
                          \/ SwitchToUser(t)
                          \/ HandleSwitch(t)
    \/ \E cause \in Causes : Trap(cause)
    \/ \E v \in UserResults : HandleCall(v)
    \/ UserStep \/ SaveContext \/ EnterKernel \/ LoadKernel
    \/ HandleSame \/ RestoreCsrs \/ LeaveKernel \/ RestoreContext

Spec == Init /\ [][Next]_vars

-----------------------------------------------------------------------------
(* Properties. *)

(* Type correctness of the hart, its CSRs and the trap frames. *)
TypeOK ==
    /\ step \in {"boot", "user", "save", "enter", "load", "handle", "return",
                 "leave", "restore"}
    /\ DOMAIN regs = Regs
    /\ upc \in Nat /\ sepc \in Nat
    /\ scause \in Causes
    /\ satp \in {KernelTable} \cup {Table(t) : t \in Threads}
    /\ current \in Threads \cup {Nobody}
    /\ live \subseteq Threads /\ tlb \subseteq Threads
    /\ \A t \in Threads : /\ DOMAIN frame[t].regs = Regs
                          /\ frame[t].sepc \in Nat
                          /\ frame[t].scause \in Causes

(* The pointer through which the block at step s reaches the frame. *)
Base ==
    CASE step = "save"                            -> sscratch
      [] step = "load"                            -> regs["t2"]
      [] step \in {"handle", "return"}            -> regs["a0"]
      [] OTHER                                    -> regs["t6"]

(* No block of the trap path faults or touches a frame other than the      *)
(* current thread's, whatever the TLB holds: the pointer it uses is mapped *)
(* by the table active at that block.  And the dual slot of each frame     *)
(* holds the table that the next exchange has to install: the kernel's     *)
(* while the thread has the hart, the thread's own at all other times.     *)
OwnFrameReached ==
    /\ step \notin {"boot", "user"} => Reaches(Base) = {current}
    /\ \A t \in live :
         frame[t].satp = IF t = current /\ step \in {"user", "save", "enter", "restore"}
                         THEN KernelTable ELSE Table(t)

(* C++ code runs on the kernel's table, on the hart's stack and with the   *)
(* hart's kernel frame in tp, and handle_interrupt gets the frame of the   *)
(* thread the bookkeeping calls current.                                   *)
HandlerEnvironment ==
    step \in {"handle", "return"} =>
        /\ satp = KernelTable
        /\ regs["sp"] = StackTop
        /\ regs["tp"] = HartFrame
        /\ regs["a0"] = Real(current)

-----------------------------------------------------------------------------
(* The refinement of ThreadContexts.                                       *)

(* Thread t's context: on the hart until SaveContext, in its frame after. *)
OnHart(t) == step \in {"user", "save"} /\ current = t
Context ==
    [t \in Threads |->
       IF OnHart(t) THEN [regs |-> regs, pc |-> IF step = "user" THEN upc ELSE sepc]
       ELSE [regs |-> frame[t].regs, pc |-> frame[t].sepc]]

(* The current thread's call is open from its trap until handle_interrupt  *)
(* has answered it or picked another thread.                               *)
Asking ==
    IF step \in {"save", "enter", "load", "handle"} /\ scause = "call" THEN current ELSE Nobody

Contexts == INSTANCE ThreadContexts
              WITH Files <- UserFiles, Fresh <- FreshFile, Results <- UserResults,
                   made <- live, ctx <- Context,
                   on <- IF step = "user" THEN current ELSE Nobody, asking <- Asking

(* The trap path implements private contexts: what a thread finds in its   *)
(* registers after a trap is what it had before it, up to the result of    *)
(* its own system call, however many threads ran in between.  Only a       *)
(* thread that trapped by an ecall gets a result, and only one; a call     *)
(* that blocks leaves pc and registers as they were, to be made again.     *)
ContextsKept == Contexts!Spec

=============================================================================
