----------------------------- MODULE KernelCore -----------------------------
(***************************************************************************)
(* The single-hart core of MatteOS: trap dispatch, the round-robin         *)
(* scheduler, the read system call on /dev/tty0, the console device and    *)
(* its NS16550A UART driver.                                               *)
(*                                                                         *)
(* The kernel runs with sstatus.SIE = 0 from trap entry to sret, so every  *)
(* trap handler is one atomic step; what interleaves with the handlers is  *)
(* the user programs, the timer and the UART.  A thread is named by the    *)
(* pid of its process (create_dummy_process gives each process the single  *)
(* thread 0 and the next value of m_pid_counter, which starts at 1).       *)
(***************************************************************************)
EXTENDS Integers, FiniteSets, SequencesExt

CONSTANTS
    NumThreads,   \* processes made by create_initial_processes
    Readers,      \* pids that run console_main; the others run dummy_process_main
    Chars,        \* characters a key can send, the carriage return excepted
    CR,           \* '\r', the character that ends a line
    NUL,          \* the terminator to_cstring() puts after a line
    BufSize,      \* size the reader passes to Sys$read (512 in console_main)
    FifoDepth,    \* receive FIFO of the UART (16 on a 16550A)
    MaxTyped      \* bound on the number of characters ever typed

Pids == 1..NumThreads

ASSUME CoreAssumption ==
    /\ NumThreads \in Nat \ {0}
    /\ Readers \subseteq Pids
    /\ BufSize \in Nat \ {0}
    /\ FifoDepth \in Nat \ {0}
    /\ MaxTyped \in Nat
    /\ CR \notin Chars

(***************************************************************************)
(* dummy_process_main never reads the terminal, so some thread never       *)
(* blocks.                                                                 *)
(***************************************************************************)
ASSUME SomeWorker == Readers # Pids

VARIABLES
    mode,       \* "boot" before start_scheduling, "user", or "spin" in schedule()
    current,    \* KernelTrapFrame::current_process_id
    runQueue,   \* ProcessManager::m_run_queue
    state,      \* Thread::m_state
    pc,         \* TrapFrame::sepc, as a point of the thread's program
    gp0,        \* TrapFrame::regs[GP0], the result of a system call
    ubuf,       \* the reader's buffer in user memory
    armed,      \* a timer deadline is programmed through the SBI
    fifo,       \* UART receive FIFO (hardware)
    buffer,     \* NS16550ADriver::m_buffer
    lines,      \* NS16550ADriver::m_lines
    requests,   \* ConsoleDevice::m_requests, each context by the pid assigned to it
    typed,      \* number of characters typed so far
    delivered   \* history: the texts copied to user buffers, in order

sched   == <<mode, current, runQueue, state>>
frames  == <<pc, gp0, ubuf>>
console == <<fifo, buffer, lines, requests>>
vars    == <<mode, current, runQueue, state, pc, gp0, ubuf, armed,
             fifo, buffer, lines, requests, typed, delivered>>

-----------------------------------------------------------------------------
(* The user programs, as the points between which control moves.           *)

ReaderPoints == {"open", "opened", "fail", "spin", "cmd", "read", "got"}
WorkerPoints == {"work"}
Points == ReaderPoints \cup WorkerPoints

(* Points whose next instruction is a system call other than open or read. *)
PlainCalls == {"fail", "cmd", "work"}

(* Mutated form: every process is created with console_main. *)
EntryPointConsoleOnly(t) == "open"

EntryPoint(t) == IF t \in Readers THEN "open" ELSE "work"

(* The instruction after the ecall at point p. *)
AfterCall(p) ==
    CASE p = "open" -> "opened"
      [] p = "fail" -> "spin"
      [] p = "cmd"  -> "read"
      [] p = "read" -> "got"
      [] OTHER      -> p

(* The user-mode branch taken on the result r of a call. *)
Branch(p, r) ==
    CASE p = "opened" -> IF r < 0 THEN "fail" ELSE "cmd"
      [] p = "got"    -> IF r > 0 THEN "cmd" ELSE "read"
      [] OTHER        -> p

-----------------------------------------------------------------------------
(* LinkedQueue and Scheduler.                                              *)

(* Index of the element k places behind the head of the circular queue. *)
Behind(k) == IF k + 1 <= NumThreads THEN k + 1 ELSE k + 1 - NumThreads

(* Mutated form: the element popped goes back to the head. *)
RotateLeftInPlace(q, k) == q

(* The queue after k calls of rotate_left. *)
RotateLeft(q, k) ==
    [i \in Pids |-> IF i + k <= NumThreads THEN q[i + k] ELSE q[i + k - NumThreads]]

(* k is the number of rotations after which schedule() finds a Running head. *)
Picks(st, k) ==
    /\ st[runQueue[Behind(k)]] = "Running"
    /\ \A j \in Pids : j < k => st[runQueue[Behind(j)]] # "Running"

(* schedule() and prepare_for_switch() on the thread states st: rotate until *)
(* the head is Running.  When no thread is, the loop never ends, and no      *)
(* interrupt can end it because the hart is in a trap handler.               *)
Schedule(st) ==
    \/ \E k \in Pids :
         /\ Picks(st, k)
         /\ runQueue' = RotateLeft(runQueue, k)
         /\ current' = runQueue[Behind(k)]
         /\ mode' = "user"
    \/ /\ \A t \in Pids : st[t] # "Running"
       /\ mode' = "spin"
       /\ UNCHANGED <<runQueue, current>>

-----------------------------------------------------------------------------
Init ==
    /\ mode = "boot"
    /\ current = 0
    /\ runQueue = [i \in Pids |-> i]
    /\ state = [t \in Pids |-> "Running"]
    /\ pc = [t \in Pids |-> EntryPoint(t)]
    /\ gp0 = [t \in Pids |-> 0]
    /\ ubuf = [t \in Pids |-> <<>>]
    /\ armed = FALSE
    /\ fifo = <<>>
    /\ buffer = <<>>
    /\ lines = <<>>
    /\ requests = <<>>
    /\ typed = 0
    /\ delivered = <<>>

(* The thread that get_current_thread() finds executes in user mode. *)
Executes(t) == mode = "user" /\ current = t

(* ProcessManager::block, and unblock of each thread in waiting. *)
Block(t) == [state EXCEPT ![t] = "Blocked"]
Unblock(waiting) == [t \in Pids |-> IF t \in waiting THEN "Running" ELSE state[t]]

(* A blocked Request: its context, to which the caller's pid is assigned,  *)
(* waits in m_requests.                                                    *)
Blocked(t) == Append(requests, t)

(* kmain's last call: arm the timer, pick a thread, enter user mode. *)
StartScheduling ==
    /\ mode = "boot"
    /\ armed' = TRUE
    /\ Schedule(state)
    /\ UNCHANGED <<state, frames, console, typed, delivered>>

(* A key press reaches the UART's FIFO (hardware; the emulated line holds *)
(* the sender back while the FIFO is full).                               *)
KeyPress(c) ==
    /\ typed < MaxTyped
    /\ Len(fifo) < FifoDepth
    /\ fifo' = Append(fifo, c)
    /\ typed' = typed + 1
    /\ UNCHANGED <<sched, frames, armed, buffer, lines, requests, delivered>>

(* The running program branches on the result register. *)
UserBranch(t) ==
    /\ Executes(t)
    /\ pc[t] \in {"opened", "got"}
    /\ pc' = [pc EXCEPT ![t] = Branch(@, gp0[t])]
    /\ ubuf' = [ubuf EXCEPT ![t] = IF pc[t] = "got" /\ gp0[t] <= 0 THEN <<>> ELSE @]
    /\ UNCHANGED <<sched, gp0, armed, console, typed, delivered>>

(* handle_system_call for a call that does not block: the result goes into *)
(* GP0 of the caller's frame, sepc moves past the ecall and the caller's   *)
(* frame is restored.                                                      *)
ReturnToCaller(t, result) ==
    /\ gp0' = [gp0 EXCEPT ![t] = result]
    /\ pc' = [pc EXCEPT ![t] = AfterCall(@)]
    /\ UNCHANGED <<sched, armed>>

(* Sys$open of /dev/tty0: a descriptor, or -1 when the lookup fails. *)
SysOpen(t) ==
    /\ Executes(t)
    /\ pc[t] = "open"
    /\ \E fd \in {-1, 0} : ReturnToCaller(t, fd)
    /\ UNCHANGED <<ubuf, console, typed, delivered>>

(* The calls that neither block nor touch the console input: dbgln, dmesg, *)
(* stats, ls, mem, the dummy process's file calls, and write, which always *)
(* fails.  console_main clears its buffer after the command's call.        *)
SysPlain(t) ==
    /\ Executes(t)
    /\ pc[t] \in PlainCalls
    /\ \E result \in {-1, 0} : ReturnToCaller(t, result)
    /\ ubuf' = [ubuf EXCEPT ![t] = IF pc[t] = "cmd" THEN <<>> ELSE @]
    /\ UNCHANGED <<console, typed, delivered>>

(* What DevInode::read copies of a line into a buffer of BufSize bytes. *)
Copied(line) ==
    LET text == Append(line, NUL)
    IN  IF Len(text) <= BufSize THEN text ELSE SubSeq(text, 1, BufSize)

(* Mutated form: the length returned is the line's, not the copied text's. *)
SysReadLineUncut(t) ==
    /\ Executes(t)
    /\ pc[t] = "read"
    /\ lines # <<>>
    /\ lines' = Tail(lines)
    /\ ubuf' = [ubuf EXCEPT ![t] = Copied(Head(lines))]
    /\ delivered' = Append(delivered, Copied(Head(lines)))
    /\ ReturnToCaller(t, Len(Head(lines)) + 1)
    /\ UNCHANGED <<fifo, buffer, requests, typed>>

(* Sys$read with a complete line in the driver: the line is popped, copied *)
(* and its length returned.                                                *)
SysReadLine(t) ==
    /\ Executes(t)
    /\ pc[t] = "read"
    /\ lines # <<>>
    /\ lines' = Tail(lines)
    /\ ubuf' = [ubuf EXCEPT ![t] = Copied(Head(lines))]
    /\ delivered' = Append(delivered, Copied(Head(lines)))
    /\ ReturnToCaller(t, Len(Copied(Head(lines))))
    /\ UNCHANGED <<fifo, buffer, requests, typed>>

(* Mutated form: the context is not added to m_requests. *)
SysReadBlockUnregistered(t) ==
    /\ Executes(t)
    /\ pc[t] = "read"
    /\ lines = <<>>
    /\ state' = Block(t)
    /\ Schedule(state')
    /\ UNCHANGED <<frames, armed, console, typed, delivered>>

(* Sys$read with no line: the request's context is queued at the device    *)
(* and given the caller's pid, the caller becomes Blocked, and another     *)
(* thread is picked.  sepc stays on the ecall: the call will be made again *)
(* when the thread next runs.  The timer keeps its earlier deadline.       *)
SysReadBlock(t) ==
    /\ Executes(t)
    /\ pc[t] = "read"
    /\ lines = <<>>
    /\ requests' = Blocked(t)
    /\ state' = Block(t)
    /\ Schedule(state')
    /\ UNCHANGED <<frames, armed, fifo, buffer, lines, typed, delivered>>

(* handle_timer_interrupt: pick the next thread, then re-arm the timer. *)
TimerInterrupt ==
    /\ mode = "user"
    /\ armed
    /\ Schedule(state)
    /\ armed' = TRUE
    /\ UNCHANGED <<state, frames, console, typed, delivered>>

(* Mutated form: the newest line goes to the front of m_lines. *)
LinesAfterLifo(c) == IF c = CR THEN <<buffer>> \o lines ELSE lines

(* NS16550ADriver::handle_interrupt on character c: the lines afterwards. *)
LinesAfter(c) == IF c = CR THEN Append(lines, buffer) ELSE lines

(* Mutated form: m_requests is not reset after the waiters are woken. *)
WakeWaitersKeep(available) ==
    /\ state' = Unblock({t \in Pids : available /\ \E i \in DOMAIN requests : requests[i] = t})
    /\ UNCHANGED requests

(* ConsoleDevice::handle_interrupt, after the driver: with a line there,   *)
(* every thread waiting in m_requests is made Running and the list is      *)
(* emptied.                                                                *)
WakeWaiters(available) ==
    /\ state' = Unblock({t \in Pids : available /\ \E i \in DOMAIN requests : requests[i] = t})
    /\ requests' = IF available THEN <<>> ELSE requests

(* handle_external_interrupt: claim, delegate to the console, complete.    *)
(* One character is taken per interrupt; while more are in the FIFO the    *)
(* line stays raised and the interrupt is taken again.                     *)
ExternalInterrupt ==
    /\ mode = "user"
    /\ fifo # <<>>
    /\ fifo' = Tail(fifo)
    /\ lines' = LinesAfter(Head(fifo))
    /\ buffer' = IF Head(fifo) = CR THEN <<>> ELSE Append(buffer, Head(fifo))
    /\ WakeWaiters(lines' # <<>>)
    /\ UNCHANGED <<mode, current, runQueue, frames, armed, typed, delivered>>

(* One step of thread t's program. *)
ThreadStep(t) ==
    \/ UserBranch(t)
    \/ SysOpen(t)
    \/ SysPlain(t)
    \/ SysReadLine(t)
    \/ SysReadBlock(t)

Next ==
    \/ StartScheduling
    \/ TimerInterrupt
    \/ ExternalInterrupt
    \/ \E t \in Pids : ThreadStep(t)
    \/ \E c \in Chars \cup {CR} : KeyPress(c)

Spec == Init /\ [][Next]_vars

(***************************************************************************)
(* Fairness.  The hart does not stop, so boot ends and a pending enabled   *)
(* interrupt is taken; a dispatched thread owns the hart for 100 ms, long  *)
(* enough for an instruction, so a thread dispatched again and again       *)
(* executes again and again (strong fairness per thread).  Nobody is       *)
(* obliged to type.                                                        *)
(***************************************************************************)
Fairness ==
    /\ WF_vars(StartScheduling)
    /\ WF_vars(TimerInterrupt)
    /\ WF_vars(ExternalInterrupt)
    /\ \A t \in Pids : SF_vars(ThreadStep(t))

FairSpec == Spec /\ Fairness

-----------------------------------------------------------------------------
(* Properties. *)

(* Type correctness of the state the handlers keep. *)
TypeOK ==
    /\ mode \in {"boot", "user", "spin"}
    /\ current \in Pids \cup {0}
    /\ runQueue \in [Pids -> Pids]
    /\ state \in [Pids -> {"Running", "Blocked"}]
    /\ pc \in [Pids -> Points]
    /\ gp0 \in [Pids -> Int]
    /\ ubuf \in [Pids -> Seq(Chars \cup {NUL})]
    /\ armed \in BOOLEAN
    /\ fifo \in Seq(Chars \cup {CR})
    /\ buffer \in Seq(Chars)
    /\ lines \in Seq(Seq(Chars))
    /\ requests \in Seq(Pids)
    /\ typed \in Nat
    /\ delivered \in Seq(Seq(Chars \cup {NUL}))

(* The thread whose registers are on the hart is the head of the run queue *)
(* and is Running: block, unblock and schedule() never leave a Blocked     *)
(* thread executing user code.                                             *)
CurrentRunnable ==
    mode = "user" => /\ current = runQueue[1]
                     /\ state[current] = "Running"

(* No wake-up can be lost: a thread is Blocked exactly while one, and only *)
(* one, of the contexts in ConsoleDevice::m_requests names it, and its     *)
(* sepc is still on the read call that has to be made again.               *)
BlockedIsWaiting ==
    /\ \A t \in Pids :
         state[t] = "Blocked" => /\ pc[t] = "read"
                                 /\ \E i \in DOMAIN requests : requests[i] = t
    /\ \A i \in DOMAIN requests : state[requests[i]] = "Blocked"
    /\ \A i, j \in DOMAIN requests : requests[i] = requests[j] => i = j

(* Nobody waits at the console while a line is ready to be read. *)
NoReadyLineMissed == requests # <<>> => lines = <<>>

(* Both together: no interleaving of reads, blocks and interrupts leaves a *)
(* thread asleep that nothing will wake, or asleep beside a ready line.    *)
WakeupsKept == BlockedIsWaiting /\ NoReadyLineMissed

(* schedule() always finds a Running thread: the hart never loops in the   *)
(* scheduler with interrupts off, which nothing could end.                 *)
NeverSpins == mode # "spin"

(* schedule() returns, and to a thread that may run. *)
DispatchesRunnable == NeverSpins /\ CurrentRunnable

(* A reader about to use the result of its read has the length of its own  *)
(* buffer's text in GP0, however many threads ran and read in between.     *)
ResultMatchesBuffer ==
    \A t \in Pids : pc[t] = "got" => gp0[t] = Len(ubuf[t]) /\ gp0[t] > 0

(* The characters typed and not yet read, wherever the kernel keeps them:  *)
(* complete lines in m_lines, the rest in m_buffer, the newest in the FIFO.*)
Ended(ls) == [i \in 1..Len(ls) |-> Append(ls[i], CR)]
Unread == FlattenSeq(Ended(lines)) \o buffer \o fifo

Terminal == INSTANCE ConsoleStream WITH stream <- Unread, output <- delivered

(* The UART driver, the console device and the retried read call together  *)
(* implement the terminal of ConsoleStream: no character or line is lost,  *)
(* doubled or reordered between the key press and the user buffer.         *)
ImplementsTerminal == Terminal!Spec

(* A carriage return typed leads to one more line read, whoever reads it,  *)
(* once some console process has opened the terminal.                      *)
Listening == \E t \in Readers : pc[t] \in {"cmd", "read", "got"}
LinesTyped ==
    Len(delivered) + Len(lines) + Cardinality({i \in DOMAIN fifo : fifo[i] = CR})
EveryLineRead ==
    \A n \in 1..MaxTyped : Listening /\ LinesTyped >= n ~> Len(delivered) >= n

(* Round robin starves nobody: every thread is, again and again, either on *)
(* the hart or waiting for a line.                                         *)
NoStarvation ==
    \A t \in Pids : []<>(mode = "user" /\ (current = t \/ state[t] = "Blocked"))

=============================================================================
