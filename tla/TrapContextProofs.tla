-------------------------- MODULE TrapContextProofs --------------------------
(***************************************************************************)
(* Proofs about TrapContext for any set of threads, any register files of  *)
(* the user programs and any bound on the program counters: every block of *)
(* the trap path reaches the current thread's frame, handlers run in the   *)
(* kernel's environment, and the trap path implements ThreadContexts.      *)
(***************************************************************************)
EXTENDS TrapContext, TLAPS

FrameFields == {"regs", "sepc", "scause", "satp", "k_sp", "k_tp", "k_addr"}

\* There is a frame for every thread, and it has all its fields.
FrameShape ==
  /\ DOMAIN frame = Threads
  /\ \A t \in Threads : DOMAIN frame[t] = FrameFields

\* The blocks that run under the current thread's page table.
OnProcessTable == {"user", "save", "enter", "restore"}

\* Which table is active, and what the TLB may hold under it: at most the
\* current thread's alias, and nothing from the change of table on.
TableInv ==
  /\ IF step \in OnProcessTable THEN satp = Table(current) ELSE satp = KernelTable
  /\ IF step \in {"user", "save", "enter"} THEN tlb \subseteq {current} ELSE tlb = {}

\* Who is current.
CurrentInv == IF step = "boot" THEN current = Nobody ELSE current \in live

\* What the frames hold for the next trap: the table to be exchanged with
\* satp, the frame's own address, and the hart's stack and kernel frame in the
\* current thread's.
SlotInv ==
  /\ \A t \in live :
       frame[t].satp = IF t = current /\ step \in OnProcessTable
                       THEN KernelTable ELSE Table(t)
  /\ \A t \in live : frame[t].k_addr = Real(t)
  /\ step # "boot" => frame[current].k_sp = StackTop /\ frame[current].k_tp = HartFrame

\* The registers each block relies on, and the cause in the frame.
PointerInv ==
  /\ step = "boot" => regs["tp"] = HartFrame
  /\ step \in {"user", "save"} => sscratch = Alias
  /\ step \in {"enter", "restore"} => regs["t6"] = Alias
  /\ step = "load" => regs["t2"] = Real(current)
  /\ step \in {"handle", "return"} =>
       regs["sp"] = StackTop /\ regs["tp"] = HartFrame /\ regs["a0"] = Real(current)
  /\ step = "leave" => regs["t6"] = Real(current)
  /\ step \in {"leave", "restore"} => sepc = frame[current].sepc
  /\ step \in {"enter", "load", "handle"} => frame[current].scause = scause

(* The inductive invariant. *)
TrapInv ==
  /\ TypeOK
  /\ FrameShape
  /\ TableInv
  /\ CurrentInv
  /\ SlotInv
  /\ PointerInv

-----------------------------------------------------------------------------
(* What a base pointer reaches. *)

\* Under the kernel's table a frame's real address reaches that frame alone.
LEMMA RealReaches ==
  ASSUME NEW t \in live, NEW c
  PROVE  Touches(Real(t), KernelTable, c) = {t}
  BY DEF Touches, Real, KernelTable

\* Under a thread's table the alias reaches that thread's frame, unless the
\* TLB still holds another's translation.
LEMMA AliasReaches ==
  ASSUME NEW t \in live, NEW c, c \subseteq {t}
  PROVE  Touches(Alias, Table(t), c) = {t}
  BY DEF Touches, Alias, KernelTable, Table

LEMMA TablesDiffer ==
  ASSUME NEW t
  PROVE  Table(t) # KernelTable
  BY DEF Table, KernelTable

\* Each block reaches the current thread's frame, whatever it reaches it by.
LEMMA BaseReaches ==
  ASSUME TrapInv, step \notin {"boot", "user"}
  PROVE  /\ current \in live /\ current \in Threads
         /\ Reaches(Base) = {current}
  <1>1. current \in live /\ current \in Threads
    BY DEF TrapInv, CurrentInv, TypeOK
  <1>2. CASE step \in {"save", "enter", "restore"}
    <2>1. Base = Alias
      BY <1>2 DEF Base, TrapInv, PointerInv
    <2>2. satp = Table(current) /\ tlb \subseteq {current}
      BY <1>2 DEF TrapInv, TableInv, OnProcessTable
    <2> QED BY <1>1, <2>1, <2>2, AliasReaches DEF Reaches
  <1>3. CASE step \in {"load", "handle", "return", "leave"}
    <2>1. Base = Real(current)
      BY <1>3 DEF Base, TrapInv, PointerInv
    <2>2. satp = KernelTable
      BY <1>3 DEF TrapInv, TableInv, OnProcessTable
    <2> QED BY <1>1, <2>1, <2>2, RealReaches DEF Reaches
  <1> QED BY <1>1, <1>2, <1>3 DEF TrapInv, TypeOK

LEMMA InvImplies ==
  ASSUME TrapInv
  PROVE  OwnFrameReached /\ HandlerEnvironment
  <1>1. OwnFrameReached
    BY BaseReaches DEF OwnFrameReached, TrapInv, SlotInv, OnProcessTable
  <1>2. HandlerEnvironment
    BY DEF HandlerEnvironment, TrapInv, TableInv, PointerInv, OnProcessTable
  <1> QED BY <1>1, <1>2

-----------------------------------------------------------------------------
LEMMA TrapInit ==
  ASSUME Init
  PROVE  TrapInv
  <1> USE DEF Init
  <1>1. TypeOK
    BY ContextAssumption DEF TypeOK, Causes, KernelFile, FreshFile
  <1>2. FrameShape
    BY DEF FrameShape, FrameFields
  <1>3. TableInv /\ CurrentInv /\ SlotInv
    BY DEF TableInv, CurrentInv, SlotInv, OnProcessTable
  <1>4. PointerInv
    BY DEF PointerInv, KernelFile, Regs
  <1> QED BY <1>1, <1>2, <1>3, <1>4 DEF TrapInv

LEMMA CreateKeeps ==
  ASSUME TrapInv, NEW t \in Threads, NEW p \in Pcs, CreateProcess(t, p)
  PROVE  TrapInv'
  <1> USE DEF TrapInv, CreateProcess, csrs
  <1>1. frame' = [u \in Threads |-> IF u = t THEN InitializeThread(t, p) ELSE frame[u]]
    BY DEF FrameShape
  <1>2. DOMAIN InitializeThread(t, p) = FrameFields
        /\ InitializeThread(t, p).satp = Table(t)
        /\ InitializeThread(t, p).k_addr = Real(t)
        /\ InitializeThread(t, p).regs = FreshFile
        /\ InitializeThread(t, p).sepc = p
        /\ InitializeThread(t, p).scause = "other"
    BY DEF InitializeThread, FrameFields
  <1>3. FrameShape'
    BY <1>1, <1>2 DEF FrameShape
  <1>4. TypeOK'
    <2>1. p \in Nat /\ DOMAIN FreshFile = Regs
      BY ContextAssumption DEF Pcs, FreshFile
    <2> QED BY <1>1, <1>2, <2>1 DEF TypeOK, Causes
  <1>5. TableInv' /\ CurrentInv' /\ PointerInv'
    BY DEF TableInv, CurrentInv, PointerInv, OnProcessTable
  <1>6. SlotInv'
    <2>1. current = Nobody /\ step' = "boot"
      BY DEF CurrentInv
    <2> QED BY <1>1, <1>2, <2>1 DEF SlotInv, OnProcessTable, TypeOK
  <1> QED BY <1>3, <1>4, <1>5, <1>6

\* prepare_for_switch packs the hart's stack and kernel frame and touches
\* nothing else.
LEMMA PrepareEffect ==
  ASSUME FrameShape, NEW n \in Threads
  PROVE  /\ DOMAIN PrepareForSwitch(frame, n) = Threads
         /\ \A u \in Threads :
              /\ DOMAIN PrepareForSwitch(frame, n)[u] = FrameFields
              /\ PrepareForSwitch(frame, n)[u].regs = frame[u].regs
              /\ PrepareForSwitch(frame, n)[u].sepc = frame[u].sepc
              /\ PrepareForSwitch(frame, n)[u].scause = frame[u].scause
              /\ PrepareForSwitch(frame, n)[u].satp = frame[u].satp
              /\ PrepareForSwitch(frame, n)[u].k_addr = frame[u].k_addr
         /\ PrepareForSwitch(frame, n)[n].k_sp = StackTop
         /\ PrepareForSwitch(frame, n)[n].k_tp = regs["tp"]
  BY DEF PrepareForSwitch, FrameShape, FrameFields

\* What SwitchToUser does: the first thread's own context is loaded.
LEMMA SwitchToUserEffect ==
  ASSUME TrapInv, NEW t \in Threads, SwitchToUser(t)
  PROVE  /\ regs' = frame[t].regs /\ upc' = frame[t].sepc /\ sepc' = frame[t].sepc
         /\ satp' = Table(t)
         /\ FrameShape'
         /\ \A u \in Threads : /\ frame'[u].regs = frame[u].regs
                               /\ frame'[u].sepc = frame[u].sepc
                               /\ frame'[u].scause = frame[u].scause
                               /\ frame'[u].k_addr = frame[u].k_addr
                               /\ u # t => frame'[u].satp = frame[u].satp
         /\ frame'[t].satp = KernelTable
         /\ frame'[t].k_sp = StackTop /\ frame'[t].k_tp = HartFrame
  <1> DEFINE f == PrepareForSwitch(frame, t)
  <1>1. /\ DOMAIN f = Threads
        /\ \A u \in Threads :
             /\ DOMAIN f[u] = FrameFields
             /\ f[u].regs = frame[u].regs
             /\ f[u].sepc = frame[u].sepc
             /\ f[u].scause = frame[u].scause
             /\ f[u].satp = frame[u].satp
             /\ f[u].k_addr = frame[u].k_addr
        /\ f[t].k_sp = StackTop
        /\ f[t].k_tp = regs["tp"]
    BY PrepareEffect DEF TrapInv
  <1>2. PICK u \in Touches(Alias, f[t].satp, Fenced(tlb)) :
          /\ frame' = [f EXCEPT ![t].satp = satp]
          /\ regs' = f[u].regs
          /\ upc' = f[t].sepc
          /\ sepc' = f[t].sepc
          /\ satp' = f[t].satp
    BY DEF SwitchToUser
  <1>3. t \in live /\ step = "boot"
    BY DEF SwitchToUser
  <1>4. current # t /\ satp = KernelTable /\ regs["tp"] = HartFrame
    BY <1>3, ContextAssumption DEF TrapInv, CurrentInv, TableInv, PointerInv, OnProcessTable
  <1>5. f[t].satp = Table(t)
    BY <1>1, <1>3, <1>4 DEF TrapInv, SlotInv
  <1>6. u = t
    BY <1>2, <1>3, <1>5, AliasReaches DEF Fenced
  <1> HIDE DEF f
  <1>7. /\ DOMAIN frame' = Threads
        /\ \A w \in Threads : DOMAIN frame'[w] = FrameFields
    BY <1>1, <1>2
  <1>8. /\ \A w \in Threads : /\ frame'[w].regs = f[w].regs
                              /\ frame'[w].sepc = f[w].sepc
                              /\ frame'[w].scause = f[w].scause
                              /\ frame'[w].k_addr = f[w].k_addr
                              /\ w # t => frame'[w].satp = f[w].satp
        /\ frame'[t].satp = satp
        /\ frame'[t].k_sp = f[t].k_sp /\ frame'[t].k_tp = f[t].k_tp
    BY <1>1, <1>2 DEF FrameFields
  <1> QED BY <1>1, <1>2, <1>4, <1>5, <1>6, <1>7, <1>8 DEF FrameShape

LEMMA SwitchToUserKeeps ==
  ASSUME TrapInv, NEW t \in Threads, SwitchToUser(t)
  PROVE  TrapInv'
  <1> USE DEF TrapInv
  <1>1. /\ step = "boot" /\ step' = "user" /\ t \in live /\ live' = live
        /\ tlb' = {t} /\ sscratch' = Alias /\ current' = t /\ scause' = scause
    BY DEF SwitchToUser
  <1>2. current # t
    BY <1>1, ContextAssumption DEF CurrentInv
  <1>3. TypeOK' /\ FrameShape'
    BY <1>1, SwitchToUserEffect DEF TypeOK
  <1>4. TableInv' /\ CurrentInv' /\ PointerInv'
    BY <1>1, SwitchToUserEffect DEF TableInv, CurrentInv, PointerInv, OnProcessTable
  <1>5. SlotInv'
    BY <1>1, <1>2, SwitchToUserEffect DEF SlotInv, OnProcessTable, TypeOK
  <1> QED BY <1>3, <1>4, <1>5

LEMMA UserStepKeeps ==
  ASSUME TrapInv, UserStep
  PROVE  TrapInv'
  <1> USE DEF TrapInv, UserStep, csrs
  <1>1. TypeOK'
    BY ContextAssumption DEF TypeOK, Pcs
  <1>2. FrameShape' /\ TableInv' /\ CurrentInv' /\ SlotInv' /\ PointerInv'
    BY DEF FrameShape, TableInv, CurrentInv, SlotInv, PointerInv, OnProcessTable
  <1> QED BY <1>1, <1>2

LEMMA TrapKeeps ==
  ASSUME TrapInv, NEW cause \in Causes, Trap(cause)
  PROVE  TrapInv'
  <1> USE DEF TrapInv, Trap
  <1>1. TypeOK'
    BY DEF TypeOK
  <1>2. FrameShape' /\ TableInv' /\ CurrentInv' /\ SlotInv' /\ PointerInv'
    BY DEF FrameShape, TableInv, CurrentInv, SlotInv, PointerInv, OnProcessTable
  <1> QED BY <1>1, <1>2

\* Saving fills the registers, sepc and scause of the current thread's frame.
LEMMA SaveEffect ==
  ASSUME TrapInv, SaveContext
  PROVE  /\ current \in live /\ current \in Threads
         /\ tlb' = tlb \cup {current}
         /\ FrameShape'
         /\ \A u \in Threads : /\ frame'[u].satp = frame[u].satp
                               /\ frame'[u].k_addr = frame[u].k_addr
                               /\ frame'[u].k_sp = frame[u].k_sp
                               /\ frame'[u].k_tp = frame[u].k_tp
                               /\ u # current => frame'[u] = frame[u]
         /\ frame'[current].regs = regs /\ frame'[current].sepc = sepc
         /\ frame'[current].scause = scause
  <1>1. step = "save"
    BY DEF SaveContext
  <1>2. current \in live /\ current \in Threads /\ Reaches(sscratch) = {current}
    BY <1>1, BaseReaches DEF Base
  <1>3. /\ frame' = [frame EXCEPT ![current].regs = regs, ![current].sepc = sepc,
                                  ![current].scause = scause]
        /\ tlb' = tlb \cup {current}
    BY <1>2 DEF SaveContext
  <1> QED BY <1>2, <1>3 DEF TrapInv, FrameShape, FrameFields

LEMMA SaveKeeps ==
  ASSUME TrapInv, SaveContext
  PROVE  TrapInv'
  <1> USE DEF TrapInv, SaveContext
  <1>1. "t6" \in DOMAIN regs /\ DOMAIN regs = Regs
    BY DEF TypeOK, Regs
  <1>2. regs'["t6"] = sscratch /\ DOMAIN regs' = Regs
    BY <1>1
  <1>3. TypeOK' /\ FrameShape'
    BY <1>2, SaveEffect DEF TypeOK
  <1>4. TableInv' /\ CurrentInv' /\ PointerInv'
    BY <1>2, SaveEffect DEF TableInv, CurrentInv, PointerInv, OnProcessTable
  <1>5. SlotInv'
    BY SaveEffect DEF SlotInv, OnProcessTable, TypeOK, CurrentInv
  <1> QED BY <1>3, <1>4, <1>5

\* The exchange of satp with the dual slot on entry.
LEMMA EnterEffect ==
  ASSUME TrapInv, EnterKernel
  PROVE  /\ current \in live /\ current \in Threads
         /\ satp' = KernelTable /\ tlb' = {}
         /\ regs'["t2"] = Real(current) /\ DOMAIN regs' = Regs
         /\ FrameShape'
         /\ \A u \in Threads : /\ frame'[u].regs = frame[u].regs
                               /\ frame'[u].sepc = frame[u].sepc
                               /\ frame'[u].scause = frame[u].scause
                               /\ frame'[u].k_addr = frame[u].k_addr
                               /\ frame'[u].k_sp = frame[u].k_sp
                               /\ frame'[u].k_tp = frame[u].k_tp
                               /\ u # current => frame'[u].satp = frame[u].satp
         /\ frame'[current].satp = Table(current)
  <1>1. step = "enter"
    BY DEF EnterKernel
  <1>2. current \in live /\ current \in Threads /\ Reaches(regs["t6"]) = {current}
    BY <1>1, BaseReaches DEF Base
  <1>3. /\ regs' = [regs EXCEPT !["t2"] = frame[current].k_addr,
                                !["t4"] = frame[current].satp, !["t5"] = satp]
        /\ frame' = [frame EXCEPT ![current].satp = satp]
        /\ satp' = frame[current].satp
        /\ tlb' = IF frame[current].satp = satp THEN tlb ELSE Fenced(tlb)
    BY <1>2 DEF EnterKernel
  <1>4. frame[current].satp = KernelTable /\ frame[current].k_addr = Real(current)
        /\ satp = Table(current)
    BY <1>1, <1>2 DEF TrapInv, SlotInv, TableInv, OnProcessTable
  <1>5. satp' = KernelTable /\ tlb' = {}
    BY <1>3, <1>4, TablesDiffer DEF Fenced
  <1>6. regs'["t2"] = Real(current) /\ DOMAIN regs' = Regs
    <2>1. DOMAIN regs = Regs /\ "t2" \in Regs
      BY DEF TrapInv, TypeOK, Regs
    <2> QED BY <1>3, <1>4, <2>1
  <1> QED BY <1>2, <1>3, <1>4, <1>5, <1>6 DEF TrapInv, FrameShape, FrameFields

LEMMA EnterKeeps ==
  ASSUME TrapInv, EnterKernel
  PROVE  TrapInv'
  <1> USE DEF TrapInv
  <1>1. /\ step = "enter" /\ step' = "load" /\ live' = live /\ current' = current
        /\ sscratch' = sscratch /\ upc' = upc /\ sepc' = sepc /\ scause' = scause
    BY DEF EnterKernel
  <1>2. TypeOK' /\ FrameShape'
    BY <1>1, EnterEffect DEF TypeOK
  <1>3. TableInv' /\ CurrentInv' /\ PointerInv'
    BY <1>1, EnterEffect DEF TableInv, CurrentInv, PointerInv, OnProcessTable
  <1>4. SlotInv'
    BY <1>1, EnterEffect DEF SlotInv, OnProcessTable, TypeOK
  <1> QED BY <1>2, <1>3, <1>4

LEMMA LoadKeeps ==
  ASSUME TrapInv, LoadKernel
  PROVE  TrapInv'
  <1> USE DEF TrapInv
  <1>1. /\ step = "load" /\ step' = "handle"
        /\ UNCHANGED <<upc, csrs, frame, tlb, current, live>>
    BY DEF LoadKernel
  <1>2. current \in live /\ current \in Threads /\ Reaches(regs["t2"]) = {current}
    BY <1>1, BaseReaches DEF Base
  <1>3. regs' = [regs EXCEPT !["t6"] = regs["t2"], !["a0"] = regs["t2"],
                             !["sp"] = frame[current].k_sp, !["tp"] = frame[current].k_tp]
    BY <1>2 DEF LoadKernel
  <1>4. DOMAIN regs = Regs /\ {"sp", "tp", "a0", "t6"} \subseteq Regs
    BY DEF TypeOK, Regs
  <1>5. /\ DOMAIN regs' = Regs /\ regs'["a0"] = Real(current)
        /\ regs'["sp"] = StackTop /\ regs'["tp"] = HartFrame
    BY <1>1, <1>3, <1>4 DEF PointerInv, SlotInv
  <1>6. TypeOK' /\ FrameShape'
    BY <1>1, <1>5 DEF TypeOK, FrameShape, csrs
  <1>7. TableInv' /\ CurrentInv' /\ SlotInv' /\ PointerInv'
    BY <1>1, <1>5 DEF TableInv, CurrentInv, SlotInv, PointerInv, OnProcessTable, csrs
  <1> QED BY <1>6, <1>7

\* What handle_interrupt leaves in the registers.
LEMMA ReturnEffect ==
  ASSUME TrapInv, step = "handle", NEW t, ReturnFrame(t)
  PROVE  /\ DOMAIN regs' = Regs /\ regs'["a0"] = Real(t)
         /\ regs'["sp"] = StackTop /\ regs'["tp"] = HartFrame
         /\ step' = "return" /\ UNCHANGED <<upc, csrs, tlb, live>>
  <1>1. {"sp", "tp", "a0"} \subseteq Regs
    BY DEF Regs
  <1>2. regs["sp"] = StackTop /\ regs["tp"] = HartFrame
    BY DEF TrapInv, PointerInv
  <1> QED BY <1>1, <1>2 DEF ReturnFrame

LEMMA HandleSameKeeps ==
  ASSUME TrapInv, HandleSame
  PROVE  TrapInv'
  <1> USE DEF TrapInv
  <1>1. step = "handle" /\ UNCHANGED <<frame, current>>
    BY DEF HandleSame
  <1>2. current \in live /\ current \in Threads /\ Reaches(regs["a0"]) = {current}
    BY <1>1, BaseReaches DEF Base
  <1>3. ReturnFrame(current)
    BY <1>2 DEF HandleSame
  <1>4. /\ DOMAIN regs' = Regs /\ regs'["a0"] = Real(current)
        /\ regs'["sp"] = StackTop /\ regs'["tp"] = HartFrame
        /\ step' = "return" /\ UNCHANGED <<upc, csrs, tlb, live>>
    BY <1>1, <1>3, ReturnEffect
  <1>5. TypeOK' /\ FrameShape'
    BY <1>1, <1>4 DEF TypeOK, FrameShape, csrs
  <1>6. TableInv' /\ CurrentInv' /\ SlotInv' /\ PointerInv'
    BY <1>1, <1>4 DEF TableInv, CurrentInv, SlotInv, PointerInv, OnProcessTable, csrs
  <1> QED BY <1>5, <1>6

LEMMA HandleSwitchKeeps ==
  ASSUME TrapInv, NEW n \in Threads, HandleSwitch(n)
  PROVE  TrapInv'
  <1> USE DEF TrapInv
  <1>1. /\ step = "handle" /\ n \in live /\ current' = n
        /\ frame' = PrepareForSwitch(frame, n) /\ ReturnFrame(n)
    BY DEF HandleSwitch, Switch
  <1>2. /\ DOMAIN regs' = Regs /\ regs'["a0"] = Real(n)
        /\ regs'["sp"] = StackTop /\ regs'["tp"] = HartFrame
        /\ step' = "return" /\ UNCHANGED <<upc, csrs, tlb, live>>
    BY <1>1, ReturnEffect
  <1>3. regs["tp"] = HartFrame
    BY <1>1 DEF PointerInv
  <1>4. TypeOK' /\ FrameShape'
    BY <1>1, <1>2, PrepareEffect DEF TypeOK, FrameShape, csrs
  <1>5. TableInv' /\ CurrentInv' /\ PointerInv'
    BY <1>1, <1>2 DEF TableInv, CurrentInv, PointerInv, OnProcessTable, csrs
  <1>6. SlotInv'
    BY <1>1, <1>2, <1>3, PrepareEffect DEF SlotInv, OnProcessTable, TypeOK
  <1> QED BY <1>4, <1>5, <1>6

\* A call that does not block: the result and the next instruction go into
\* the current thread's frame.
LEMMA CallEffect ==
  ASSUME TrapInv, NEW v \in UserResults, HandleCall(v)
  PROVE  /\ step = "handle" /\ current \in live /\ current \in Threads
         /\ ReturnFrame(current) /\ current' = current
         /\ FrameShape'
         /\ \A u \in Threads : /\ frame'[u].satp = frame[u].satp
                               /\ frame'[u].scause = frame[u].scause
                               /\ frame'[u].k_addr = frame[u].k_addr
                               /\ frame'[u].k_sp = frame[u].k_sp
                               /\ frame'[u].k_tp = frame[u].k_tp
                               /\ u # current => frame'[u] = frame[u]
         /\ frame'[current].regs = [frame[current].regs EXCEPT !["a0"] = v]
         /\ frame'[current].sepc = frame[current].sepc + 1
  <1>1. step = "handle" /\ current' = current
    BY DEF HandleCall
  <1>2. current \in live /\ current \in Threads /\ Reaches(regs["a0"]) = {current}
    BY <1>1, BaseReaches DEF Base
  <1> DEFINE f == [frame EXCEPT ![current].regs["a0"] = v]
  <1>3. /\ frame' = [f EXCEPT ![current].sepc = @ + 1]
        /\ ReturnFrame(current)
    BY <1>2 DEF HandleCall
  <1>4. /\ DOMAIN f = Threads
        /\ \A u \in Threads : DOMAIN f[u] = FrameFields
        /\ \A u \in Threads : /\ f[u].satp = frame[u].satp
                              /\ f[u].sepc = frame[u].sepc
                              /\ f[u].scause = frame[u].scause
                              /\ f[u].k_addr = frame[u].k_addr
                              /\ f[u].k_sp = frame[u].k_sp
                              /\ f[u].k_tp = frame[u].k_tp
                              /\ u # current => f[u] = frame[u]
        /\ f[current].regs = [frame[current].regs EXCEPT !["a0"] = v]
    BY <1>2 DEF TrapInv, FrameShape, FrameFields
  <1> HIDE DEF f
  <1>5. /\ FrameShape'
        /\ \A u \in Threads : /\ frame'[u].satp = f[u].satp
                              /\ frame'[u].scause = f[u].scause
                              /\ frame'[u].k_addr = f[u].k_addr
                              /\ frame'[u].k_sp = f[u].k_sp
                              /\ frame'[u].k_tp = f[u].k_tp
                              /\ u # current => frame'[u] = f[u]
        /\ frame'[current].regs = f[current].regs
        /\ frame'[current].sepc = f[current].sepc + 1
    BY <1>2, <1>3, <1>4 DEF FrameShape, FrameFields
  <1> QED BY <1>1, <1>2, <1>3, <1>4, <1>5

LEMMA CallKeeps ==
  ASSUME TrapInv, NEW v \in UserResults, HandleCall(v)
  PROVE  TrapInv'
  <1> USE DEF TrapInv
  <1>1. /\ DOMAIN regs' = Regs /\ regs'["a0"] = Real(current)
        /\ regs'["sp"] = StackTop /\ regs'["tp"] = HartFrame
        /\ step' = "return" /\ UNCHANGED <<upc, csrs, tlb, live>>
    BY CallEffect, ReturnEffect
  <1>2. ASSUME NEW u \in Threads
        PROVE  DOMAIN frame'[u].regs = Regs /\ frame'[u].sepc \in Nat
    <2>1. DOMAIN frame[u].regs = Regs /\ frame[u].sepc \in Nat
      BY DEF TypeOK
    <2>2. CASE u # current
      BY <2>1, <2>2, CallEffect
    <2>3. CASE u = current
      <3>1. frame'[u].regs = [frame[u].regs EXCEPT !["a0"] = v]
            /\ frame'[u].sepc = frame[u].sepc + 1
        BY <2>3, CallEffect
      <3>2. DOMAIN [frame[u].regs EXCEPT !["a0"] = v] = DOMAIN frame[u].regs
        OBVIOUS
      <3> QED BY <2>1, <3>1, <3>2
    <2> QED BY <2>2, <2>3
  <1>3. TypeOK' /\ FrameShape'
    BY <1>1, <1>2, CallEffect DEF TypeOK, csrs
  <1>4. step = "handle" /\ current' = current /\ current \in live
    BY CallEffect
  <1>5. TableInv' /\ CurrentInv'
    BY <1>1, <1>4 DEF TableInv, CurrentInv, OnProcessTable, csrs
  <1>6. PointerInv'
    BY <1>1, <1>4, CallEffect DEF PointerInv, OnProcessTable, csrs
  <1>7. SlotInv'
    <2>1. live \subseteq Threads /\ live' = live /\ current' = current /\ current \in Threads
          /\ step = "handle" /\ step' = "return"
      BY <1>1, <1>4 DEF TypeOK
    <2>2. \A t \in Threads : /\ frame'[t].satp = frame[t].satp
                             /\ frame'[t].k_addr = frame[t].k_addr
                             /\ frame'[t].k_sp = frame[t].k_sp
                             /\ frame'[t].k_tp = frame[t].k_tp
      BY CallEffect
    <2> QED BY <2>1, <2>2 DEF SlotInv, OnProcessTable
  <1> QED BY <1>3, <1>5, <1>6, <1>7

LEMMA RestoreCsrsKeeps ==
  ASSUME TrapInv, RestoreCsrs
  PROVE  TrapInv'
  <1> USE DEF TrapInv
  <1>1. /\ step = "return" /\ step' = "leave"
        /\ UNCHANGED <<upc, satp, sscratch, scause, frame, tlb, current, live>>
        /\ regs' = [regs EXCEPT !["t6"] = regs["a0"]]
    BY DEF RestoreCsrs
  <1>2. current \in live /\ current \in Threads /\ Reaches(regs["a0"]) = {current}
    BY <1>1, BaseReaches DEF Base
  <1>3. sepc' = frame[current].sepc
    BY <1>2 DEF RestoreCsrs
  <1>4. DOMAIN regs' = Regs /\ regs'["t6"] = Real(current)
    <2>1. DOMAIN regs = Regs /\ "t6" \in Regs
      BY DEF TypeOK, Regs
    <2> QED BY <1>1, <2>1 DEF PointerInv
  <1>5. TypeOK' /\ FrameShape'
    BY <1>1, <1>2, <1>3, <1>4 DEF TypeOK, FrameShape
  <1>6. TableInv' /\ CurrentInv' /\ SlotInv' /\ PointerInv'
    BY <1>1, <1>3, <1>4 DEF TableInv, CurrentInv, SlotInv, PointerInv, OnProcessTable
  <1> QED BY <1>5, <1>6

\* The exchange of satp with the dual slot on return.
LEMMA LeaveEffect ==
  ASSUME TrapInv, LeaveKernel
  PROVE  /\ current \in live /\ current \in Threads
         /\ satp' = Table(current) /\ tlb' = {}
         /\ regs'["t6"] = Alias /\ DOMAIN regs' = Regs
         /\ FrameShape'
         /\ \A u \in Threads : /\ frame'[u].regs = frame[u].regs
                               /\ frame'[u].sepc = frame[u].sepc
                               /\ frame'[u].scause = frame[u].scause
                               /\ frame'[u].k_addr = frame[u].k_addr
                               /\ frame'[u].k_sp = frame[u].k_sp
                               /\ frame'[u].k_tp = frame[u].k_tp
                               /\ u # current => frame'[u].satp = frame[u].satp
         /\ frame'[current].satp = KernelTable
  <1>1. step = "leave"
    BY DEF LeaveKernel
  <1>2. current \in live /\ current \in Threads /\ Reaches(regs["t6"]) = {current}
    BY <1>1, BaseReaches DEF Base
  <1>3. /\ regs' = [regs EXCEPT !["t4"] = frame[current].satp, !["t5"] = satp,
                                !["t6"] = Alias]
        /\ frame' = [frame EXCEPT ![current].satp = satp]
        /\ satp' = frame[current].satp
        /\ tlb' = {}
    BY <1>2 DEF LeaveKernel, Fenced
  <1>4. frame[current].satp = Table(current) /\ satp = KernelTable
    BY <1>1, <1>2 DEF TrapInv, SlotInv, TableInv, OnProcessTable
  <1>5. regs'["t6"] = Alias /\ DOMAIN regs' = Regs
    <2>1. DOMAIN regs = Regs /\ "t6" \in Regs
      BY DEF TrapInv, TypeOK, Regs
    <2> QED BY <1>3, <2>1
  <1> QED BY <1>2, <1>3, <1>4, <1>5 DEF TrapInv, FrameShape, FrameFields

LEMMA LeaveKeeps ==
  ASSUME TrapInv, LeaveKernel
  PROVE  TrapInv'
  <1> USE DEF TrapInv
  <1>1. /\ step = "leave" /\ step' = "restore" /\ live' = live /\ current' = current
        /\ sscratch' = sscratch /\ upc' = upc /\ sepc' = sepc /\ scause' = scause
    BY DEF LeaveKernel
  <1>2. TypeOK' /\ FrameShape'
    BY <1>1, LeaveEffect DEF TypeOK
  <1>3. TableInv' /\ CurrentInv' /\ PointerInv'
    BY <1>1, LeaveEffect DEF TableInv, CurrentInv, PointerInv, OnProcessTable
  <1>4. SlotInv'
    BY <1>1, LeaveEffect DEF SlotInv, OnProcessTable, TypeOK
  <1> QED BY <1>2, <1>3, <1>4

\* sret: the registers are the current thread's, as its frame has them.
LEMMA RestoreEffect ==
  ASSUME TrapInv, RestoreContext
  PROVE  /\ current \in live /\ current \in Threads
         /\ regs' = frame[current].regs /\ upc' = frame[current].sepc
         /\ sscratch' = Alias /\ tlb' = tlb \cup {current}
  <1>1. step = "restore"
    BY DEF RestoreContext
  <1>2. current \in live /\ current \in Threads /\ Reaches(regs["t6"]) = {current}
    BY <1>1, BaseReaches DEF Base
  <1>3. regs["t6"] = Alias /\ sepc = frame[current].sepc
    BY <1>1 DEF TrapInv, PointerInv
  <1> QED BY <1>2, <1>3 DEF RestoreContext

LEMMA RestoreKeeps ==
  ASSUME TrapInv, RestoreContext
  PROVE  TrapInv'
  <1> USE DEF TrapInv
  <1>1. /\ step = "restore" /\ step' = "user"
        /\ UNCHANGED <<satp, sepc, scause, frame, current, live>>
    BY DEF RestoreContext
  <1>2. TypeOK' /\ FrameShape'
    BY <1>1, RestoreEffect DEF TypeOK, FrameShape
  <1>3. TableInv' /\ CurrentInv' /\ SlotInv' /\ PointerInv'
    BY <1>1, RestoreEffect DEF TableInv, CurrentInv, SlotInv, PointerInv, OnProcessTable
  <1> QED BY <1>2, <1>3

LEMMA StutterKeeps ==
  ASSUME TrapInv, UNCHANGED vars
  PROVE  TrapInv'
  BY DEF vars, TrapInv, TypeOK, FrameShape, TableInv, CurrentInv, SlotInv, PointerInv

LEMMA NextKeeps ==
  ASSUME TrapInv, [Next]_vars
  PROVE  TrapInv'
  BY CreateKeeps, SwitchToUserKeeps, HandleSwitchKeeps, TrapKeeps, CallKeeps,
     UserStepKeeps, SaveKeeps, EnterKeeps, LoadKeeps, HandleSameKeeps,
     RestoreCsrsKeeps, LeaveKeeps, RestoreKeeps, StutterKeeps DEF Next

LEMMA TrapInvariant == Spec => []TrapInv
  <1>1. Init => TrapInv
    BY TrapInit
  <1>2. TrapInv /\ [Next]_vars => TrapInv'
    BY NextKeeps
  <1> QED BY <1>1, <1>2, PTL DEF Spec

\* Every block of m_trap_vector reaches the frame of the current thread and no
\* other through the base pointer it uses, for any number of threads and any
\* sequence of switches, and the dual slot of every frame holds the table the
\* next exchange has to install.
THEOREM OwnFrameAlwaysReached == Spec => []OwnFrameReached
  <1>1. TrapInv => OwnFrameReached
    BY InvImplies
  <1> QED BY <1>1, TrapInvariant, PTL

\* handle_interrupt always runs on the kernel's table, the hart's stack and
\* the hart's kernel frame, with the current thread's frame as its argument.
THEOREM HandlersInKernel == Spec => []HandlerEnvironment
  <1>1. TrapInv => HandlerEnvironment
    BY InvImplies
  <1> QED BY <1>1, TrapInvariant, PTL

\* The hart, its CSRs and the trap frames keep their types.
THEOREM TypesKept == Spec => []TypeOK
  <1>1. TrapInv => TypeOK
    BY DEF TrapInv
  <1> QED BY <1>1, TrapInvariant, PTL

-----------------------------------------------------------------------------
(* The trap path implements ThreadContexts.                                *)

LEMMA ContextAt ==
  ASSUME NEW t \in Threads
  PROVE  Context[t] = IF step \in {"user", "save"} /\ current = t
                      THEN [regs |-> regs, pc |-> IF step = "user" THEN upc ELSE sepc]
                      ELSE [regs |-> frame[t].regs, pc |-> frame[t].sepc]
  BY DEF Context, OnHart

\* Contexts are unchanged when each thread's is.
LEMMA ContextSame ==
  ASSUME \A t \in Threads : Context'[t] = Context[t]
  PROVE  Context' = Context
  BY DEF Context

\* One context changes when all the others are unchanged.
LEMMA ContextUpdate ==
  ASSUME NEW t \in Threads, NEW c, Context'[t] = c,
         \A u \in Threads : u # t => Context'[u] = Context[u]
  PROVE  Context' = [Context EXCEPT ![t] = c]
  BY DEF Context

LEMMA RefineInit ==
  ASSUME Init
  PROVE  Contexts!Init
  <1>1. 0 \in Pcs
    BY ContextAssumption DEF Pcs
  <1>2. Context = [t \in Threads |-> [regs |-> FreshFile, pc |-> 0]]
    BY DEF Init, Context, OnHart
  <1>3. Context \in [Threads -> [regs : {FreshFile}, pc : Pcs]]
    BY <1>1, <1>2
  <1> QED BY <1>3 DEF Init, Contexts!Init, Asking

LEMMA RefineCreate ==
  ASSUME TrapInv, NEW t \in Threads, NEW p \in Pcs, CreateProcess(t, p)
  PROVE  Contexts!Create(t)
  <1>1. step = "boot" /\ step' = "boot" /\ t \notin live /\ live' = live \cup {t}
    BY DEF CreateProcess
  <1>2. frame' = [u \in Threads |-> IF u = t THEN InitializeThread(t, p) ELSE frame[u]]
    BY DEF CreateProcess, TrapInv, FrameShape
  <1>3. InitializeThread(t, p).regs = FreshFile /\ InitializeThread(t, p).sepc = p
    BY DEF InitializeThread
  <1>4. Context' = [Context EXCEPT ![t] = [regs |-> FreshFile, pc |-> p]]
    BY <1>1, <1>2, <1>3 DEF Context, OnHart
  <1> QED BY <1>1, <1>4 DEF Contexts!Create, Asking

LEMMA RefineSwitchToUser ==
  ASSUME TrapInv, NEW t \in Threads, SwitchToUser(t)
  PROVE  Contexts!Resume(t)
  <1>1. /\ step = "boot" /\ step' = "user" /\ t \in live /\ live' = live /\ current' = t
    BY DEF SwitchToUser
  <1>2. Context' = Context
    BY <1>1, SwitchToUserEffect DEF Context, OnHart
  <1> QED BY <1>1, <1>2 DEF Contexts!Resume, Asking

LEMMA RefineUserStep ==
  ASSUME TrapInv, UserStep
  PROVE  Contexts!Compute
  <1>1. step = "user" /\ UNCHANGED <<step, frame, current, live>>
        /\ regs' \in UserFiles /\ upc' \in Pcs
    BY DEF UserStep
  <1>2. current \in Threads
    BY <1>1 DEF TrapInv, CurrentInv, TypeOK
  <1>3. Context' = [Context EXCEPT ![current] = [regs |-> regs', pc |-> upc']]
    BY <1>1, <1>2 DEF Context, OnHart
  <1> QED BY <1>1, <1>2, <1>3 DEF Contexts!Compute, Asking

LEMMA RefineTrap ==
  ASSUME TrapInv, NEW cause \in Causes, Trap(cause)
  PROVE  Contexts!Leave
  <1>1. step = "user" /\ step' = "save" /\ UNCHANGED <<regs, frame, current, live>>
        /\ sepc' = upc
    BY DEF Trap
  <1>2. current \in Threads
    BY <1>1 DEF TrapInv, CurrentInv, TypeOK
  <1>3. Context' = Context
    BY <1>1 DEF Context, OnHart
  <1> QED BY <1>1, <1>2, <1>3 DEF Contexts!Leave, Asking

LEMMA RefineCall ==
  ASSUME TrapInv, NEW v \in UserResults, HandleCall(v)
  PROVE  current \in Threads /\ Contexts!Answer(current)
  <1>1. /\ step = "handle" /\ step' = "return" /\ live' = live
        /\ current' = current /\ current \in live /\ current \in Threads
    BY CallEffect, ReturnEffect
  <1>2. \A u \in Threads : Context[u] = [regs |-> frame[u].regs, pc |-> frame[u].sepc]
    BY <1>1, ContextAt
  <1>3. \A u \in Threads : Context'[u] = [regs |-> frame'[u].regs, pc |-> frame'[u].sepc]
    BY <1>1 DEF Context, OnHart
  <1>4. Context'[current] = [regs |-> [frame[current].regs EXCEPT !["a0"] = v],
                             pc |-> frame[current].sepc + 1]
    BY <1>1, <1>3, CallEffect
  <1>5. \A u \in Threads : u # current => Context'[u] = Context[u]
    <2>1. \A u \in Threads : u # current => frame'[u] = frame[u]
      BY CallEffect
    <2> QED BY <1>2, <1>3, <2>1
  <1>6. Context' = [Context EXCEPT ![current] =
                      [regs |-> [frame[current].regs EXCEPT !["a0"] = v],
                       pc |-> frame[current].sepc + 1]]
    BY <1>1, <1>4, <1>5, ContextUpdate
  <1>7. Context' = [Context EXCEPT ![current].regs["a0"] = v, ![current].pc = @ + 1]
    <2>1. current \in DOMAIN Context
      BY <1>1 DEF Context
    <2>2. Context[current] = [regs |-> frame[current].regs, pc |-> frame[current].sepc]
      BY <1>1, <1>2
    <2> DEFINE C == Context
               R == frame[current].regs
               P == frame[current].sepc
               D == [C EXCEPT ![current].regs["a0"] = v]
               S == [R EXCEPT !["a0"] = v]
    <2>3. current \in DOMAIN C /\ C[current] = [regs |-> R, pc |-> P]
      BY <2>1, <2>2
    <2> HIDE DEF C, R, P
    <2>4. [C EXCEPT ![current].regs["a0"] = v, ![current].pc = @ + 1]
            = [D EXCEPT ![current].pc = P + 1]
      BY <2>3
    <2>5. DOMAIN D = DOMAIN C /\ D = [C EXCEPT ![current] = [C[current] EXCEPT !.regs["a0"] = v]]
      BY <2>3
    <2>6. [C[current] EXCEPT !.regs["a0"] = v] = [regs |-> S, pc |-> P]
      BY <2>3
    <2>7. D[current] = [regs |-> S, pc |-> P]
      BY <2>3, <2>5, <2>6
    <2>8. ASSUME NEW X, NEW Q
          PROVE  [[regs |-> X, pc |-> P] EXCEPT !.pc = Q] = [regs |-> X, pc |-> Q]
      OBVIOUS
    <2> HIDE DEF D, S
    <2>9. [D EXCEPT ![current].pc = P + 1] = [D EXCEPT ![current] = [D[current] EXCEPT !.pc = P + 1]]
      BY <2>3, <2>5
    <2>10. [D[current] EXCEPT !.pc = P + 1] = [regs |-> S, pc |-> P + 1]
      BY <2>7, <2>8
    <2>11. [D EXCEPT ![current] = [regs |-> S, pc |-> P + 1]]
             = [C EXCEPT ![current] = [regs |-> S, pc |-> P + 1]]
      BY <2>5
    <2>12. [C EXCEPT ![current].regs["a0"] = v, ![current].pc = @ + 1]
             = [C EXCEPT ![current] = [regs |-> S, pc |-> P + 1]]
      BY <2>4, <2>9, <2>10, <2>11
    <2> QED BY <1>6, <2>12 DEF C, R, P, S
  <1>8. Asking = current /\ Asking' = Nobody
    <2>1. scause = "call"
      <3>1. Reaches(regs["a0"]) = {current}
        BY <1>1, BaseReaches DEF Base
      <3> QED BY <1>1, <3>1 DEF HandleCall, TrapInv, PointerInv
    <2> QED BY <1>1, <2>1 DEF Asking
  <1> QED BY <1>1, <1>7, <1>8 DEF Contexts!Answer

LEMMA RefineRestore ==
  ASSUME TrapInv, RestoreContext
  PROVE  current \in Threads /\ Contexts!Resume(current)
  <1>1. step = "restore" /\ step' = "user" /\ UNCHANGED <<frame, current, live>>
    BY DEF RestoreContext
  <1>2. Context' = Context
    BY <1>1, RestoreEffect DEF Context, OnHart
  <1> QED BY <1>1, <1>2, RestoreEffect DEF Contexts!Resume, Asking

LEMMA RefineSave ==
  ASSUME TrapInv, SaveContext
  PROVE  UNCHANGED Contexts!vars
  <1>1. step = "save" /\ step' = "enter" /\ UNCHANGED <<current, live, scause>>
    BY DEF SaveContext
  <1>2. Context' = Context
    BY <1>1, SaveEffect DEF Context, OnHart
  <1> QED BY <1>1, <1>2 DEF Contexts!vars, Asking

\* A call that blocks, or a timer interrupt: another thread is next, and the
\* call, if it was one, is not answered.
LEMMA RefineSwitch ==
  ASSUME TrapInv, NEW n \in Threads, HandleSwitch(n)
  PROVE  Contexts!PutOff \/ UNCHANGED Contexts!vars
  <1>1. step = "handle" /\ ReturnFrame(n) /\ frame' = PrepareForSwitch(frame, n)
    BY DEF HandleSwitch, Switch
  <1>2. step' = "return" /\ live' = live
    BY <1>1 DEF ReturnFrame
  <1>3. Context' = Context
    BY <1>1, <1>2, PrepareEffect DEF Context, OnHart, TrapInv
  <1>4. current # Nobody
    BY <1>1, ContextAssumption DEF TrapInv, CurrentInv, TypeOK
  <1>5. CASE scause = "call"
    BY <1>1, <1>2, <1>3, <1>4, <1>5 DEF Asking, Contexts!PutOff
  <1>6. CASE scause # "call"
    BY <1>1, <1>2, <1>3, <1>6 DEF Asking, Contexts!vars
  <1> QED BY <1>5, <1>6

\* The blocks between saving and restoring change no context and answer no
\* call.
LEMMA RefineKernel ==
  ASSUME TrapInv, step \notin {"boot", "user", "save"}, step' \notin {"user", "save"},
         live' = live, Asking' = Asking,
         \A u \in Threads : frame'[u].regs = frame[u].regs /\ frame'[u].sepc = frame[u].sepc
  PROVE  UNCHANGED Contexts!vars
  <1>1. Context' = Context
    BY DEF Context, OnHart
  <1> QED BY <1>1 DEF Contexts!vars

LEMMA RefineNext ==
  ASSUME TrapInv, [Next]_vars
  PROVE  [Contexts!Next]_(Contexts!vars)
  <1>1. ASSUME NEW t \in Threads, NEW p \in Pcs, CreateProcess(t, p)
        PROVE  Contexts!Next
    BY <1>1, RefineCreate DEF Contexts!Next
  <1>2. ASSUME NEW t \in Threads, SwitchToUser(t)
        PROVE  Contexts!Next
    BY <1>2, RefineSwitchToUser DEF Contexts!Next
  <1>3. ASSUME NEW t \in Threads, HandleSwitch(t)
        PROVE  [Contexts!Next]_(Contexts!vars)
    BY <1>3, RefineSwitch DEF Contexts!Next
  <1>4. ASSUME NEW cause \in Causes, Trap(cause)
        PROVE  Contexts!Next
    BY <1>4, RefineTrap DEF Contexts!Next
  <1>5. ASSUME NEW v \in UserResults, HandleCall(v)
        PROVE  Contexts!Next
    BY <1>5, RefineCall DEF Contexts!Next
  <1>6. CASE UserStep
    BY <1>6, RefineUserStep DEF Contexts!Next
  <1>7. CASE SaveContext
    BY <1>7, RefineSave
  <1>8. CASE EnterKernel
    BY <1>8, EnterEffect, RefineKernel DEF EnterKernel, Asking
  <1>9. CASE LoadKernel
    BY <1>9, RefineKernel DEF LoadKernel, Asking, csrs
  <1>10. CASE HandleSame
    <2>1. step = "handle" /\ UNCHANGED <<frame, current>>
      BY <1>10 DEF HandleSame
    <2>2. Reaches(regs["a0"]) = {current}
      BY <2>1, BaseReaches DEF Base
    <2>3. scause # "call" /\ ReturnFrame(current)
      BY <1>10, <2>1, <2>2 DEF HandleSame, TrapInv, PointerInv
    <2>4. step' = "return" /\ live' = live
      BY <2>3 DEF ReturnFrame
    <2>5. Asking' = Asking
      BY <2>1, <2>3, <2>4 DEF Asking
    <2> QED BY <2>1, <2>4, <2>5, RefineKernel
  <1>11. CASE RestoreCsrs
    BY <1>11, RefineKernel DEF RestoreCsrs, Asking
  <1>12. CASE LeaveKernel
    BY <1>12, LeaveEffect, RefineKernel DEF LeaveKernel, Asking
  <1>13. CASE RestoreContext
    BY <1>13, RefineRestore DEF Contexts!Next
  <1>14. CASE UNCHANGED vars
    BY <1>14 DEF vars, Contexts!vars, Context, OnHart, Asking
  <1> QED BY <1>1, <1>2, <1>3, <1>4, <1>5, <1>6, <1>7, <1>8, <1>9, <1>10, <1>11,
             <1>12, <1>13, <1>14 DEF Next

\* The trap path implements private contexts: for any number of threads, a
\* thread finds in its registers after a trap what it had before it, up to
\* the result of its own system call; only a thread that made one gets a
\* result, and one that blocks is at its call again.
THEOREM TrapPathKeepsContexts == Spec => ContextsKept
  <1>1. Init => Contexts!Init
    BY RefineInit
  <1>2. TrapInv /\ [Next]_vars => [Contexts!Next]_(Contexts!vars)
    BY RefineNext
  <1> QED BY <1>1, <1>2, TrapInvariant, PTL DEF Spec, ContextsKept, Contexts!Spec

=============================================================================
