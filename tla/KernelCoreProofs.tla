-------------------------- MODULE KernelCoreProofs --------------------------
(***************************************************************************)
(* The safety invariants of KernelCore, for every number of processes,     *)
(* every set of console processes that leaves out one process, and every   *)
(* buffer and FIFO size; and the containers under its run queue and lines: *)
(* LinkedChains implements ElementSequences, for any set of cells.         *)
(***************************************************************************)
EXTENDS KernelCore, LinkedChains, SequenceFacts, FiniteSetTheorems, FunctionTheorems

(* Each thread stays inside the program it was created with, so the thread *)
(* that keeps the hart busy can never reach the read call.                 *)
OwnProgram ==
    \A t \in Pids : IF t \in Readers THEN pc[t] \in ReaderPoints
                                     ELSE pc[t] \in WorkerPoints

(* The inductive invariant.  CurrentRunnable is what makes a caller of     *)
(* Sys$read absent from m_requests, BlockedIsWaiting and OwnProgram are    *)
(* what leaves schedule() a thread to pick.                                *)
Safe ==
    /\ TypeOK
    /\ OwnProgram
    /\ CurrentRunnable
    /\ BlockedIsWaiting
    /\ NoReadyLineMissed
    /\ NeverSpins
    /\ ResultMatchesBuffer

-----------------------------------------------------------------------------
(* What DevInode::read copies is a non-empty text. *)
LEMMA CopiedType ==
    ASSUME NEW line \in Seq(Chars)
    PROVE  /\ Copied(line) \in Seq(Chars \cup {NUL})
           /\ Len(Copied(line)) \in Nat \ {0}
<1> DEFINE text == Append(line, NUL)
<1>1. /\ text \in Seq(Chars \cup {NUL})
      /\ Len(text) = Len(line) + 1
      /\ Len(line) \in Nat
  OBVIOUS
<1>2. CASE Len(text) <= BufSize
  BY <1>1, <1>2 DEF Copied
<1>3. CASE ~(Len(text) <= BufSize)
  <2>1. Copied(line) = SubSeq(text, 1, BufSize)
    BY <1>3 DEF Copied
  <2>2. BufSize \in Nat \ {0} /\ BufSize <= Len(text)
    BY <1>1, <1>3, CoreAssumption
  <2> HIDE DEF text
  <2>3. /\ SubSeq(text, 1, BufSize) \in Seq(Chars \cup {NUL})
        /\ Len(SubSeq(text, 1, BufSize)) = BufSize
    BY <1>1, <2>2
  <2> QED
    BY <2>1, <2>2, <2>3
<1> QED
  BY <1>2, <1>3

(* A rotation of the run queue is a run queue whose head is the element k  *)
(* places behind the old head.                                             *)
LEMMA Rotation ==
    ASSUME TypeOK, NEW k \in Pids
    PROVE  /\ Behind(k) \in Pids
           /\ RotateLeft(runQueue, k) \in [Pids -> Pids]
           /\ RotateLeft(runQueue, k)[1] = runQueue[Behind(k)]
<1>1. Behind(k) \in Pids
  BY CoreAssumption DEF Pids, Behind
<1>2. ASSUME NEW i \in Pids
      PROVE  RotateLeft(runQueue, k)[i] \in Pids
  <2>1. CASE i + k <= NumThreads
    <3>1. i + k \in Pids
      BY <2>1, CoreAssumption DEF Pids
    <3> QED
      BY <2>1, <3>1 DEF TypeOK, RotateLeft
  <2>2. CASE ~(i + k <= NumThreads)
    <3>1. i + k - NumThreads \in Pids
      BY <2>2, CoreAssumption DEF Pids
    <3> QED
      BY <2>2, <3>1 DEF TypeOK, RotateLeft
  <2> QED
    BY <2>1, <2>2
<1>3. RotateLeft(runQueue, k)[1] = runQueue[Behind(k)]
  <2>1. 1 \in Pids /\ 1 + k = k + 1
    BY CoreAssumption DEF Pids
  <2> QED
    <3>1. CASE 1 + k <= NumThreads
      BY <2>1, <3>1, CoreAssumption DEF RotateLeft, Behind, Pids
    <3>2. CASE ~(1 + k <= NumThreads)
      BY <2>1, <3>2, CoreAssumption DEF RotateLeft, Behind, Pids
    <3> QED
      BY <3>1, <3>2
<1>4. RotateLeft(runQueue, k) \in [Pids -> Pids]
  BY <1>2 DEF RotateLeft
<1> QED
  BY <1>1, <1>3, <1>4

(* Some thread is never Blocked: the dummy process has no read call. *)
LEMMA WorkerRuns ==
    ASSUME Safe
    PROVE  \E t \in Pids : t \notin Readers /\ state[t] = "Running"
<1>1. PICK t \in Pids : t \notin Readers
  BY SomeWorker, CoreAssumption
<1>2. pc[t] = "work"
  BY <1>1 DEF Safe, OwnProgram, WorkerPoints
<1> QED
  BY <1>1, <1>2 DEF Safe, TypeOK, BlockedIsWaiting

(* schedule() leaves a Running thread at the head of the queue. *)
LEMMA Scheduling ==
    ASSUME TypeOK, NEW st \in [Pids -> {"Running", "Blocked"}],
           NEW w \in Pids, st[w] = "Running", Schedule(st)
    PROVE  /\ mode' = "user"
           /\ current' \in Pids
           /\ runQueue' \in [Pids -> Pids]
           /\ current' = runQueue'[1]
           /\ st[current'] = "Running"
<1>1. PICK k \in Pids : /\ Picks(st, k)
                        /\ runQueue' = RotateLeft(runQueue, k)
                        /\ current' = runQueue[Behind(k)]
                        /\ mode' = "user"
  BY DEF Schedule
<1>2. /\ Behind(k) \in Pids
      /\ RotateLeft(runQueue, k) \in [Pids -> Pids]
      /\ RotateLeft(runQueue, k)[1] = runQueue[Behind(k)]
  BY Rotation
<1>3. runQueue[Behind(k)] \in Pids
  BY <1>2 DEF TypeOK
<1> QED
  BY <1>1, <1>2, <1>3 DEF Picks

-----------------------------------------------------------------------------
(* kmain hands over a state in which the invariants hold. *)
LEMMA InitSafe == Init => Safe
<1> SUFFICES ASSUME Init PROVE Safe
  OBVIOUS
<1>1. TypeOK
  <2>1. /\ runQueue \in [Pids -> Pids]
        /\ state \in [Pids -> {"Running", "Blocked"}]
        /\ gp0 \in [Pids -> Int]
    BY DEF Init
  <2>2. pc \in [Pids -> Points]
    BY DEF Init, EntryPoint, Points, ReaderPoints, WorkerPoints
  <2>3. ubuf \in [Pids -> Seq(Chars \cup {NUL})]
    BY DEF Init
  <2>4. /\ fifo \in Seq(Chars \cup {CR})
        /\ buffer \in Seq(Chars)
        /\ lines \in Seq(Seq(Chars))
        /\ requests \in Seq(Pids)
        /\ delivered \in Seq(Seq(Chars \cup {NUL}))
    BY DEF Init
  <2>5. /\ mode \in {"boot", "user", "spin"}
        /\ current \in Pids \cup {0}
        /\ armed \in BOOLEAN
        /\ typed \in Nat
    BY DEF Init
  <2> QED
    BY <2>1, <2>2, <2>3, <2>4, <2>5 DEF TypeOK
<1>2. OwnProgram
  BY DEF Init, OwnProgram, EntryPoint, ReaderPoints, WorkerPoints
<1> QED
  BY <1>1, <1>2 DEF Init, Safe, CurrentRunnable, BlockedIsWaiting,
    NoReadyLineMissed, NeverSpins, ResultMatchesBuffer, EntryPoint

(* A step that only picks another thread keeps the invariants. *)
LEMMA SwitchSafe ==
    ASSUME Safe, Schedule(state), armed' = TRUE,
           UNCHANGED <<state, frames, console, typed, delivered>>
    PROVE  Safe'
<1>1. PICK w \in Pids : state[w] = "Running"
  BY WorkerRuns
<1>2. /\ mode' = "user"
      /\ current' \in Pids
      /\ runQueue' \in [Pids -> Pids]
      /\ current' = runQueue'[1]
      /\ state[current'] = "Running"
  BY <1>1, Scheduling DEF Safe, TypeOK
<1>3. TypeOK'
  BY <1>2 DEF Safe, TypeOK, frames, console
<1>4. CurrentRunnable' /\ NeverSpins'
  BY <1>2 DEF CurrentRunnable, NeverSpins
<1>5. BlockedIsWaiting'
  BY DEF Safe, BlockedIsWaiting, frames, console
<1>6. OwnProgram' /\ NoReadyLineMissed' /\ ResultMatchesBuffer'
  BY DEF Safe, OwnProgram, NoReadyLineMissed, ResultMatchesBuffer, frames, console
<1> QED
  BY <1>3, <1>4, <1>5, <1>6 DEF Safe

(* A key press only fills the FIFO. *)
LEMMA KeyPressSafe ==
    ASSUME Safe, NEW c \in Chars \cup {CR}, KeyPress(c)
    PROVE  Safe'
<1>1. TypeOK'
  BY DEF Safe, TypeOK, KeyPress, sched, frames
<1>2. CurrentRunnable' /\ NeverSpins'
  BY DEF Safe, KeyPress, CurrentRunnable, NeverSpins, sched
<1>3. BlockedIsWaiting' /\ NoReadyLineMissed'
  BY DEF Safe, KeyPress, BlockedIsWaiting, NoReadyLineMissed, sched, frames
<1>4. OwnProgram' /\ ResultMatchesBuffer'
  BY DEF Safe, KeyPress, OwnProgram, ResultMatchesBuffer, frames
<1> QED
  BY <1>1, <1>2, <1>3, <1>4 DEF Safe

(* The branch after a call stays in the reader's program. *)
LEMMA UserBranchSafe ==
    ASSUME Safe, NEW t \in Pids, UserBranch(t)
    PROVE  Safe'
<1>1. /\ t \in Readers
      /\ gp0[t] \in Int
      /\ Branch(pc[t], gp0[t]) \in {"fail", "cmd", "read"}
  BY DEF Safe, TypeOK, OwnProgram, UserBranch, Executes, WorkerPoints, Branch
<1>2. pc' = [pc EXCEPT ![t] = Branch(pc[t], gp0[t])]
  BY DEF UserBranch
<1>3. TypeOK'
  <2>1. pc' \in [Pids -> Points]
    BY <1>1, <1>2 DEF Safe, TypeOK, Points, ReaderPoints
  <2>2. ubuf' \in [Pids -> Seq(Chars \cup {NUL})]
    BY DEF Safe, TypeOK, UserBranch
  <2> QED
    BY <2>1, <2>2 DEF Safe, TypeOK, UserBranch, sched, console
<1>4. OwnProgram'
  BY <1>1, <1>2 DEF Safe, TypeOK, OwnProgram, ReaderPoints
<1>5. BlockedIsWaiting'
  BY <1>1, <1>2 DEF Safe, TypeOK, BlockedIsWaiting, UserBranch, sched, console
<1>6. ResultMatchesBuffer'
  BY <1>1, <1>2 DEF Safe, TypeOK, ResultMatchesBuffer, UserBranch
<1>7. CurrentRunnable' /\ NoReadyLineMissed' /\ NeverSpins'
  BY DEF Safe, UserBranch, CurrentRunnable, NoReadyLineMissed, NeverSpins,
    sched, console
<1> QED
  BY <1>3, <1>4, <1>5, <1>6, <1>7 DEF Safe

(* A call that does not block and does not read keeps the invariants. *)
LEMMA PlainSafe ==
    ASSUME Safe, NEW t \in Pids, SysOpen(t) \/ SysPlain(t)
    PROVE  Safe'
<1>1. PICK r \in {-1, 0} : ReturnToCaller(t, r)
  BY DEF SysOpen, SysPlain
<1>2. /\ mode = "user" /\ current = t
      /\ pc[t] \in {"open", "fail", "cmd", "work"}
      /\ UNCHANGED <<sched, armed, console, typed, delivered>>
  BY <1>1 DEF SysOpen, SysPlain, Executes, PlainCalls, ReturnToCaller
<1>3. /\ gp0' = [gp0 EXCEPT ![t] = r]
      /\ pc' = [pc EXCEPT ![t] = AfterCall(pc[t])]
  BY <1>1 DEF ReturnToCaller
<1>4. /\ AfterCall(pc[t]) \in {"opened", "spin", "read", "work"}
      /\ AfterCall(pc[t]) = "work" <=> pc[t] = "work"
  BY <1>2 DEF AfterCall
<1>5. \/ ubuf' = ubuf
      \/ ubuf' = [ubuf EXCEPT ![t] = <<>>]
      \/ ubuf' = [ubuf EXCEPT ![t] = ubuf[t]]
  BY DEF SysOpen, SysPlain
<1>6. TypeOK'
  <2>1. pc' \in [Pids -> Points]
    BY <1>3, <1>4 DEF Safe, TypeOK, Points, ReaderPoints, WorkerPoints
  <2>2. gp0' \in [Pids -> Int]
    BY <1>3 DEF Safe, TypeOK
  <2>3. ubuf' \in [Pids -> Seq(Chars \cup {NUL})]
    <3> <<>> \in Seq(Chars \cup {NUL})
      OBVIOUS
    <3> ubuf \in [Pids -> Seq(Chars \cup {NUL})]
      BY DEF Safe, TypeOK
    <3> QED
      BY <1>5
  <2> QED
    BY <1>2, <2>1, <2>2, <2>3 DEF Safe, TypeOK, sched, console
<1>7. OwnProgram'
  BY <1>2, <1>3, <1>4 DEF Safe, TypeOK, OwnProgram, ReaderPoints, WorkerPoints
<1>8. BlockedIsWaiting'
  <2>1. state[t] # "Blocked"
    BY <1>2 DEF Safe, CurrentRunnable
  <2> QED
    BY <1>2, <1>3, <2>1 DEF Safe, TypeOK, BlockedIsWaiting, sched, console
<1>9. ResultMatchesBuffer'
  BY <1>3, <1>4, <1>5 DEF Safe, TypeOK, ResultMatchesBuffer
<1>10. CurrentRunnable' /\ NoReadyLineMissed' /\ NeverSpins'
  BY <1>2 DEF Safe, CurrentRunnable, NoReadyLineMissed, NeverSpins, sched, console
<1> QED
  BY <1>6, <1>7, <1>8, <1>9, <1>10 DEF Safe

(* A read that finds a line: nobody was waiting, the caller gets the text. *)
LEMMA ReadLineSafe ==
    ASSUME Safe, NEW t \in Pids, SysReadLine(t)
    PROVE  Safe'
<1> DEFINE text == Copied(Head(lines))
<1>1. /\ mode = "user" /\ current = t
      /\ pc[t] = "read"
      /\ lines # <<>>
      /\ lines' = Tail(lines)
      /\ ubuf' = [ubuf EXCEPT ![t] = text]
      /\ delivered' = Append(delivered, text)
      /\ gp0' = [gp0 EXCEPT ![t] = Len(text)]
      /\ pc' = [pc EXCEPT ![t] = "got"]
      /\ UNCHANGED <<sched, armed, fifo, buffer, requests, typed>>
  BY DEF SysReadLine, Executes, ReturnToCaller, AfterCall
<1>2. /\ Head(lines) \in Seq(Chars)
      /\ lines' \in Seq(Seq(Chars))
  BY <1>1 DEF Safe, TypeOK
<1>3. /\ text \in Seq(Chars \cup {NUL})
      /\ Len(text) \in Nat \ {0}
  BY <1>2, CopiedType
<1>4. t \in Readers
  BY <1>1 DEF Safe, OwnProgram, WorkerPoints
<1>5. requests = <<>>
  BY <1>1 DEF Safe, NoReadyLineMissed
<1> HIDE DEF text
<1>6. TypeOK'
  <2>1. delivered' \in Seq(Seq(Chars \cup {NUL}))
    BY <1>1, <1>3 DEF Safe, TypeOK
  <2>2. ubuf' \in [Pids -> Seq(Chars \cup {NUL})]
    BY <1>1, <1>3 DEF Safe, TypeOK
  <2>3. gp0' \in [Pids -> Int] /\ pc' \in [Pids -> Points]
    BY <1>1, <1>3 DEF Safe, TypeOK, Points, ReaderPoints
  <2> QED
    BY <1>1, <1>2, <2>1, <2>2, <2>3 DEF Safe, TypeOK, sched
<1>7. OwnProgram'
  BY <1>1, <1>4 DEF Safe, TypeOK, OwnProgram, ReaderPoints
<1>8. BlockedIsWaiting'
  <2>1. state[t] # "Blocked"
    BY <1>1 DEF Safe, CurrentRunnable
  <2> QED
    BY <1>1, <2>1 DEF Safe, TypeOK, BlockedIsWaiting, sched
<1>9. ResultMatchesBuffer'
  BY <1>1, <1>3 DEF Safe, TypeOK, ResultMatchesBuffer
<1>10. CurrentRunnable' /\ NoReadyLineMissed' /\ NeverSpins'
  BY <1>1, <1>5 DEF Safe, CurrentRunnable, NoReadyLineMissed, NeverSpins, sched
<1> QED
  BY <1>6, <1>7, <1>8, <1>9, <1>10 DEF Safe

(* A read that blocks: the caller was Running, so it is not yet among the  *)
(* waiters, and the dummy process is left to run.                          *)
LEMMA ReadBlockSafe ==
    ASSUME Safe, NEW t \in Pids, SysReadBlock(t)
    PROVE  Safe'
<1>1. /\ mode = "user" /\ current = t
      /\ pc[t] = "read"
      /\ lines = <<>>
      /\ requests' = Append(requests, t)
      /\ state' = [state EXCEPT ![t] = "Blocked"]
      /\ Schedule(state')
      /\ UNCHANGED <<frames, armed, fifo, buffer, lines, typed, delivered>>
  BY DEF SysReadBlock, Executes, Blocked, Block
<1>2. state' \in [Pids -> {"Running", "Blocked"}]
  BY <1>1 DEF Safe, TypeOK
<1>3. PICK w \in Pids : state'[w] = "Running"
  <2>1. PICK w \in Pids : w \notin Readers /\ state[w] = "Running"
    BY WorkerRuns
  <2>2. w # t
    BY <1>1, <2>1 DEF Safe, OwnProgram, WorkerPoints
  <2> QED
    BY <1>1, <2>1, <2>2 DEF Safe, TypeOK
<1>4. /\ mode' = "user"
      /\ current' \in Pids
      /\ runQueue' \in [Pids -> Pids]
      /\ current' = runQueue'[1]
      /\ state'[current'] = "Running"
  BY <1>1, <1>2, <1>3, Scheduling DEF Safe
<1>5. requests \in Seq(Pids) /\ state[t] = "Running"
  BY <1>1 DEF Safe, TypeOK, CurrentRunnable
<1>6. TypeOK'
  <2>1. requests' \in Seq(Pids)
    BY <1>1, <1>5
  <2> QED
    BY <1>1, <1>2, <1>4, <2>1 DEF Safe, TypeOK, frames
<1>7. BlockedIsWaiting'
  <2>1. \A i \in DOMAIN requests : requests[i] # t
    BY <1>5 DEF Safe, BlockedIsWaiting
  <2>2. /\ DOMAIN requests' = 1..(Len(requests) + 1)
        /\ DOMAIN requests = 1..Len(requests)
        /\ Len(requests) \in Nat
        /\ requests'[Len(requests) + 1] = t
        /\ \A i \in DOMAIN requests : requests'[i] = requests[i]
    BY <1>1, <1>5
  <2>3. ASSUME NEW u \in Pids, state'[u] = "Blocked"
        PROVE  pc'[u] = "read" /\ \E i \in DOMAIN requests' : requests'[i] = u
    <3>1. CASE u = t
      BY <1>1, <2>2, <3>1 DEF frames
    <3>2. CASE u # t
      <4>1. state[u] = "Blocked"
        BY <1>1, <2>3, <3>2 DEF Safe, TypeOK
      <4>2. pc[u] = "read" /\ \E i \in DOMAIN requests : requests[i] = u
        BY <4>1 DEF Safe, BlockedIsWaiting
      <4> QED
        BY <1>1, <2>2, <4>2 DEF frames
    <3> QED
      BY <3>1, <3>2
  <2>4. ASSUME NEW i \in DOMAIN requests'
        PROVE  state'[requests'[i]] = "Blocked"
    <3>1. CASE i = Len(requests) + 1
      BY <1>1, <2>2, <3>1 DEF Safe, TypeOK
    <3>2. CASE i # Len(requests) + 1
      <4>1. i \in DOMAIN requests /\ requests[i] \in Pids
        BY <1>5, <2>2, <3>2
      <4>2. state[requests[i]] = "Blocked"
        BY <4>1 DEF Safe, BlockedIsWaiting
      <4> QED
        BY <1>1, <2>1, <2>2, <4>1, <4>2 DEF Safe, TypeOK
    <3> QED
      BY <3>1, <3>2
  <2>5. ASSUME NEW i \in DOMAIN requests', NEW j \in DOMAIN requests',
               requests'[i] = requests'[j]
        PROVE  i = j
    BY <2>1, <2>2, <2>5 DEF Safe, BlockedIsWaiting
  <2> QED
    BY <2>3, <2>4, <2>5 DEF BlockedIsWaiting
<1>8. CurrentRunnable' /\ NoReadyLineMissed' /\ NeverSpins'
  BY <1>1, <1>4 DEF CurrentRunnable, NoReadyLineMissed, NeverSpins
<1>9. OwnProgram' /\ ResultMatchesBuffer'
  BY <1>1 DEF Safe, OwnProgram, ResultMatchesBuffer, frames
<1> QED
  BY <1>6, <1>7, <1>8, <1>9 DEF Safe

(* An arriving character: with a line there all waiters leave the list at  *)
(* once, without one nothing the waiters depend on changes.                *)
LEMMA ExternalSafe ==
    ASSUME Safe, ExternalInterrupt
    PROVE  Safe'
<1>1. /\ mode = "user"
      /\ fifo # <<>>
      /\ fifo' = Tail(fifo)
      /\ lines' = LinesAfter(Head(fifo))
      /\ buffer' = IF Head(fifo) = CR THEN <<>> ELSE Append(buffer, Head(fifo))
      /\ WakeWaiters(lines' # <<>>)
      /\ UNCHANGED <<mode, current, runQueue, frames, armed, typed, delivered>>
  BY DEF ExternalInterrupt
<1>2. Head(fifo) \in Chars \cup {CR} /\ fifo' \in Seq(Chars \cup {CR})
  BY <1>1 DEF Safe, TypeOK
<1>3. buffer' \in Seq(Chars) /\ lines' \in Seq(Seq(Chars))
  BY <1>1, <1>2 DEF Safe, TypeOK, LinesAfter
<1>4. CASE lines' # <<>>
  <2>1. /\ requests' = <<>>
        /\ \A t \in Pids : state'[t] = IF \E i \in DOMAIN requests : requests[i] = t
                                       THEN "Running" ELSE state[t]
        /\ state' \in [Pids -> {"Running", "Blocked"}]
    BY <1>1, <1>4 DEF WakeWaiters, Unblock, Safe, TypeOK
  <2>2. \A t \in Pids : state'[t] = "Running"
    <3> SUFFICES ASSUME NEW t \in Pids PROVE state'[t] = "Running"
      OBVIOUS
    <3>1. state[t] = "Running" \/ \E i \in DOMAIN requests : requests[i] = t
      BY DEF Safe, TypeOK, BlockedIsWaiting
    <3> QED
      BY <2>1, <3>1
  <2>3. TypeOK'
    BY <1>1, <1>2, <1>3, <2>1 DEF Safe, TypeOK, frames
  <2>4. BlockedIsWaiting' /\ NoReadyLineMissed'
    BY <2>1, <2>2 DEF BlockedIsWaiting, NoReadyLineMissed
  <2>5. CurrentRunnable' /\ NeverSpins'
    <3>1. 1 \in Pids
      BY CoreAssumption DEF Pids
    <3>2. current = runQueue[1] /\ runQueue[1] \in Pids
      BY <1>1, <3>1 DEF Safe, TypeOK, CurrentRunnable
    <3> QED
      BY <1>1, <2>2, <3>2 DEF CurrentRunnable, NeverSpins
  <2> QED
    BY <1>1, <2>3, <2>4, <2>5
    DEF Safe, OwnProgram, ResultMatchesBuffer, frames
<1>5. CASE lines' = <<>>
  <2>1. requests' = requests /\ state' = state
    BY <1>1, <1>5 DEF WakeWaiters, Unblock, Safe, TypeOK
  <2>2. TypeOK'
    BY <1>1, <1>2, <1>3, <2>1 DEF Safe, TypeOK, frames
  <2>3. BlockedIsWaiting' /\ NoReadyLineMissed'
    BY <1>1, <1>5, <2>1 DEF Safe, BlockedIsWaiting, NoReadyLineMissed, frames
  <2>4. CurrentRunnable' /\ NeverSpins'
    BY <1>1, <2>1 DEF Safe, CurrentRunnable, NeverSpins
  <2> QED
    BY <1>1, <2>2, <2>3, <2>4
    DEF Safe, OwnProgram, ResultMatchesBuffer, frames
<1> QED
  BY <1>4, <1>5

(* Every step keeps the inductive invariant. *)
LEMMA NextSafe == Safe /\ [Next]_vars => Safe'
<1> SUFFICES ASSUME Safe, [Next]_vars PROVE Safe'
  OBVIOUS
<1>1. CASE StartScheduling
  BY <1>1, SwitchSafe DEF StartScheduling
<1>2. CASE TimerInterrupt
  BY <1>2, SwitchSafe DEF TimerInterrupt
<1>3. CASE ExternalInterrupt
  BY <1>3, ExternalSafe
<1>4. ASSUME NEW t \in Pids, ThreadStep(t) PROVE Safe'
  BY <1>4, UserBranchSafe, PlainSafe, ReadLineSafe, ReadBlockSafe DEF ThreadStep
<1>5. ASSUME NEW c \in Chars \cup {CR}, KeyPress(c) PROVE Safe'
  BY <1>5, KeyPressSafe
<1>6. CASE UNCHANGED vars
  BY <1>6 DEF Safe, TypeOK, OwnProgram, CurrentRunnable, BlockedIsWaiting,
    NoReadyLineMissed, NeverSpins, ResultMatchesBuffer, vars
<1> QED
  BY <1>1, <1>2, <1>3, <1>4, <1>5, <1>6 DEF Next

-----------------------------------------------------------------------------
(* The invariants together are kept by every behaviour of the kernel. *)
THEOREM AlwaysSafe == Spec => []Safe
BY InitSafe, NextSafe, PTL DEF Spec

(* The kernel's data keeps its types under every interleaving of traps. *)
THEOREM TypeCorrect == Spec => []TypeOK
<1>1. Safe => TypeOK
  BY DEF Safe
<1> QED
  BY <1>1, AlwaysSafe, PTL

(* No wake-up is lost: a thread blocked in Sys$read is always in the list  *)
(* of the console device, exactly once, and will make its call again.      *)
THEOREM NoLostWakeup == Spec => []WakeupsKept
<1>1. Safe => WakeupsKept
  BY DEF Safe, WakeupsKept
<1> QED
  BY <1>1, AlwaysSafe, PTL

(* The scheduler always returns, and to a thread that may run, as long as  *)
(* one process never reads the terminal.                                   *)
THEOREM SchedulerReturns == Spec => []DispatchesRunnable
<1>1. Safe => DispatchesRunnable
  BY DEF Safe, DispatchesRunnable
<1> QED
  BY <1>1, AlwaysSafe, PTL

(* The result a reader acts on is the length of the text in its buffer. *)
THEOREM ReadResult == Spec => []ResultMatchesBuffer
<1>1. Safe => ResultMatchesBuffer
  BY DEF Safe
<1> QED
  BY <1>1, AlwaysSafe, PTL
-----------------------------------------------------------------------------
(* The path from the key press to the user buffer, as a terminal.          *)

(* m_lines with one line more. *)
LEMMA EndedType ==
    ASSUME NEW ls \in Seq(Seq(Chars))
    PROVE  /\ Ended(ls) \in Seq(Seq(Chars \cup {CR}))
           /\ Len(Ended(ls)) = Len(ls)
           /\ \A i \in 1..Len(ls) : Ended(ls)[i] = Append(ls[i], CR)
<1>1. Len(ls) \in Nat /\ \A i \in 1..Len(ls) : ls[i] \in Seq(Chars)
  OBVIOUS
<1>2. \A x \in Seq(Chars) : Append(x, CR) \in Seq(Chars \cup {CR})
  OBVIOUS
<1>3. \A i \in 1..Len(ls) : Append(ls[i], CR) \in Seq(Chars \cup {CR})
  BY <1>1, <1>2
<1> QED
  BY <1>1, <1>3, IsASeq DEF Ended

LEMMA EndedAppend ==
    ASSUME NEW ls \in Seq(Seq(Chars)), NEW b \in Seq(Chars)
    PROVE  Ended(Append(ls, b)) = Append(Ended(ls), Append(b, CR))
<1> DEFINE ms == Append(ls, b)
           lhs == Ended(ms)
           c == Append(b, CR)
           rhs == Append(Ended(ls), c)
<1>1. /\ ms \in Seq(Seq(Chars)) /\ Len(ls) \in Nat /\ Len(ms) = Len(ls) + 1
      /\ ms[Len(ls) + 1] = b /\ \A i \in 1..Len(ls) : ms[i] = ls[i]
  OBVIOUS
<1>2. c \in Seq(Chars \cup {CR})
  OBVIOUS
<1> HIDE DEF ms, c
<1>3. /\ lhs \in Seq(Seq(Chars \cup {CR})) /\ Len(lhs) = Len(ls) + 1
      /\ \A i \in 1..(Len(ls) + 1) : lhs[i] = Append(ms[i], CR)
  BY <1>1, EndedType
<1>4. /\ Ended(ls) \in Seq(Seq(Chars \cup {CR})) /\ Len(Ended(ls)) = Len(ls)
      /\ \A i \in 1..Len(ls) : Ended(ls)[i] = Append(ls[i], CR)
  BY EndedType
<1> HIDE DEF lhs
<1>5. /\ rhs \in Seq(Seq(Chars \cup {CR})) /\ Len(rhs) = Len(ls) + 1
      /\ rhs[Len(ls) + 1] = c /\ \A i \in 1..Len(ls) : rhs[i] = Ended(ls)[i]
  BY <1>1, <1>2, <1>4
<1> HIDE DEF rhs
<1>6. ASSUME NEW i \in 1..(Len(ls) + 1) PROVE lhs[i] = rhs[i]
  <2>1. CASE i = Len(ls) + 1
    BY <1>1, <1>3, <1>5, <2>1 DEF c
  <2>2. CASE i # Len(ls) + 1
    <3>1. i \in 1..Len(ls)
      BY <1>1, <2>2
    <3> QED
      BY <1>1, <1>3, <1>4, <1>5, <3>1
  <2> QED
    BY <2>1, <2>2
<1>7. lhs = rhs
  BY <1>3, <1>5, <1>6, SeqEqual
<1> QED
  BY <1>7 DEF lhs, rhs, ms, c

(* m_lines without its first line. *)
LEMMA EndedTail ==
    ASSUME NEW ls \in Seq(Seq(Chars)), ls # <<>>
    PROVE  /\ Head(Ended(ls)) = Append(Head(ls), CR)
           /\ Tail(Ended(ls)) = Ended(Tail(ls))
           /\ Ended(ls) # <<>>
<1> DEFINE ms == Tail(ls)
           lhs == Tail(Ended(ls))
           rhs == Ended(ms)
<1>1. /\ ms \in Seq(Seq(Chars)) /\ Len(ls) \in Nat \ {0} /\ Len(ms) = Len(ls) - 1
      /\ Head(ls) = ls[1] /\ \A i \in 1..(Len(ls) - 1) : ms[i] = ls[i + 1]
  OBVIOUS
<1> HIDE DEF ms
<1>2. /\ Ended(ls) \in Seq(Seq(Chars \cup {CR})) /\ Len(Ended(ls)) = Len(ls)
      /\ \A i \in 1..Len(ls) : Ended(ls)[i] = Append(ls[i], CR)
  BY EndedType
<1>3. Ended(ls) # <<>>
  BY <1>1, <1>2
<1>4. /\ lhs \in Seq(Seq(Chars \cup {CR})) /\ Len(lhs) = Len(ls) - 1
      /\ \A i \in 1..(Len(ls) - 1) : lhs[i] = Ended(ls)[i + 1]
  BY <1>1, <1>2, <1>3
<1>5. /\ rhs \in Seq(Seq(Chars \cup {CR})) /\ Len(rhs) = Len(ls) - 1
      /\ \A i \in 1..(Len(ls) - 1) : rhs[i] = Append(ms[i], CR)
  BY <1>1, EndedType
<1> HIDE DEF lhs, rhs
<1>6. ASSUME NEW i \in 1..(Len(ls) - 1) PROVE lhs[i] = rhs[i]
  <2>1. i + 1 \in 1..Len(ls)
    BY <1>1
  <2> QED
    BY <1>1, <1>2, <1>4, <1>5, <2>1
<1>7. lhs = rhs
  BY <1>4, <1>5, <1>6, SeqEqual
<1>8. Head(Ended(ls)) = Append(Head(ls), CR)
  BY <1>1, <1>2, <1>3
<1> QED
  BY <1>3, <1>7, <1>8 DEF lhs, rhs, ms

(* Three pieces joined; a line, its carriage return and what follows. *)
Pieces(a, b, d) == (a \o b) \o d
Line(l, rest) == Append(l, CR) \o rest

(* A character more behind the last of three pieces. *)
LEMMA PiecesLonger ==
    ASSUME NEW S, NEW a \in Seq(S), NEW b \in Seq(S), NEW d \in Seq(S), NEW c \in S
    PROVE  Pieces(a, b, Append(d, c)) = Append(Pieces(a, b, d), c)
  BY DEF Pieces

(* Where the characters of the pieces are. *)
PiecesAt(a, b, d, s) ==
    /\ Len(s) = Len(a) + Len(b) + Len(d)
    /\ \A i \in 1..Len(a) : s[i] = a[i]
    /\ \A i \in 1..Len(b) : s[Len(a) + i] = b[i]
    /\ \A i \in 1..Len(d) : s[Len(a) + Len(b) + i] = d[i]

LEMMA PiecesJoined ==
    ASSUME NEW S, NEW a \in Seq(S), NEW b \in Seq(S), NEW d \in Seq(S)
    PROVE  Pieces(a, b, d) \in Seq(S) /\ PiecesAt(a, b, d, Pieces(a, b, d))
  BY DEF Pieces, PiecesAt

(* A character moves from the last of three pieces to the second. *)
LEMMA PiecesMove ==
    ASSUME NEW S, NEW a \in Seq(S), NEW b \in Seq(S), NEW d \in Seq(S), d # <<>>
    PROVE  Pieces(a, Append(b, Head(d)), Tail(d)) = Pieces(a, b, d)
<1> DEFINE b2 == Append(b, Head(d))
           d2 == Tail(d)
           lhs == Pieces(a, b2, d2)
           rhs == Pieces(a, b, d)
<1>1. Len(a) \in Nat /\ Len(b) \in Nat /\ Len(d) \in Nat \ {0} /\ Head(d) = d[1] /\ d[1] \in S
  OBVIOUS
<1>2. /\ b2 \in Seq(S) /\ Len(b2) = Len(b) + 1 /\ b2[Len(b) + 1] = d[1]
      /\ \A i \in 1..Len(b) : b2[i] = b[i]
  BY <1>1
<1>3. /\ d2 \in Seq(S) /\ Len(d2) = Len(d) - 1
      /\ \A i \in 1..(Len(d) - 1) : d2[i] = d[i + 1]
  BY <1>1
<1> HIDE DEF b2, d2
<1>8. lhs \in Seq(S) /\ PiecesAt(a, b2, d2, lhs)
  BY <1>2, <1>3, PiecesJoined
<1>9. rhs \in Seq(S) /\ PiecesAt(a, b, d, rhs)
  BY PiecesJoined
<1> HIDE DEF lhs, rhs
<1>4. /\ Len(lhs) = Len(a) + Len(b) + Len(d)
      /\ \A i \in 1..Len(a) : lhs[i] = a[i]
      /\ \A i \in 1..(Len(b) + 1) : lhs[Len(a) + i] = b2[i]
      /\ \A i \in 1..(Len(d) - 1) : lhs[Len(a) + Len(b) + 1 + i] = d2[i]
  BY <1>1, <1>2, <1>3, <1>8 DEF PiecesAt
<1>5. /\ Len(rhs) = Len(a) + Len(b) + Len(d)
      /\ \A i \in 1..Len(a) : rhs[i] = a[i]
      /\ \A i \in 1..Len(b) : rhs[Len(a) + i] = b[i]
      /\ \A i \in 1..Len(d) : rhs[Len(a) + Len(b) + i] = d[i]
  BY <1>9 DEF PiecesAt
<1>6. ASSUME NEW i \in 1..(Len(a) + Len(b) + Len(d)) PROVE lhs[i] = rhs[i]
  <2>1. CASE i <= Len(a)
    BY <1>1, <1>4, <1>5, <2>1
  <2>2. CASE Len(a) < i /\ i <= Len(a) + Len(b)
    <3> DEFINE m == i - Len(a)
    <3>1. m \in 1..Len(b) /\ m \in 1..(Len(b) + 1) /\ Len(a) + m = i
      BY <1>1, <2>2
    <3> HIDE DEF m
    <3> QED
      BY <1>2, <1>4, <1>5, <3>1
  <2>3. CASE i = Len(a) + Len(b) + 1
    <3>1. Len(b) + 1 \in 1..(Len(b) + 1) /\ 1 \in 1..Len(d) /\ i = Len(a) + (Len(b) + 1)
      BY <1>1, <2>3
    <3> QED
      BY <1>2, <1>4, <1>5, <2>3, <3>1
  <2>4. CASE Len(a) + Len(b) + 1 < i
    <3> DEFINE m == i - (Len(a) + Len(b) + 1)
    <3>1. m \in 1..(Len(d) - 1) /\ m + 1 \in 1..Len(d) /\ Len(a) + Len(b) + 1 + m = i
          /\ Len(a) + Len(b) + (m + 1) = i
      BY <1>1, <2>4
    <3> HIDE DEF m
    <3>2. lhs[i] = d2[m] /\ rhs[i] = d[m + 1]
      BY <1>4, <1>5, <3>1
    <3> QED
      BY <1>3, <3>1, <3>2
  <2> QED
    BY <1>1, <2>1, <2>2, <2>3, <2>4
<1>7. lhs = rhs
  BY <1>4, <1>5, <1>6, <1>8, <1>9, SeqEqual
<1> QED
  BY <1>7 DEF lhs, rhs, b2, d2

(* The front of a stream that begins with the line l. *)
BeginsWith(s, l, rest) ==
    /\ Len(l) + 1 \in DOMAIN s
    /\ s[Len(l) + 1] = CR
    /\ \A i \in 1..Len(l) : s[i] # CR
    /\ SubSeq(s, 1, Len(l)) = l
    /\ SubSeq(s, Len(l) + 2, Len(s)) = rest

LEMMA FirstLine ==
    ASSUME NEW l \in Seq(Chars), NEW rest \in Seq(Chars \cup {CR})
    PROVE  BeginsWith(Line(l, rest), l, rest)
<1> DEFINE s == Line(l, rest)
<1>1. Len(l) \in Nat /\ Len(rest) \in Nat /\ \A i \in 1..Len(l) : l[i] \in Chars
  OBVIOUS
<1>2. /\ s \in Seq(Chars \cup {CR}) /\ Len(s) = Len(l) + 1 + Len(rest)
      /\ DOMAIN s = 1..Len(s)
  BY DEF Line
<1>3. \A i \in 1..Len(l) : s[i] = l[i]
  BY DEF Line
<1>4. s[Len(l) + 1] = CR
  BY DEF Line
<1>5. \A i \in 1..Len(rest) : s[Len(l) + 1 + i] = rest[i]
  BY DEF Line
<1> HIDE DEF s
<1>6. \A i \in 1..Len(l) : s[i] # CR
  BY <1>1, <1>3, CoreAssumption
<1>7. SubSeq(s, 1, Len(l)) = l
  BY <1>1, <1>2, <1>3
<1>8. SubSeq(s, Len(l) + 2, Len(s)) = rest
  BY <1>1, <1>2, <1>5
<1>9. BeginsWith(s, l, rest)
  BY <1>1, <1>2, <1>4, <1>6, <1>7, <1>8 DEF BeginsWith
<1> QED
  BY <1>9 DEF s

(* The pieces of the stream are sequences of characters. *)
LEMMA UnreadType ==
    ASSUME TypeOK
    PROVE  /\ FlattenSeq(Ended(lines)) \in Seq(Chars \cup {CR})
           /\ buffer \in Seq(Chars \cup {CR})
           /\ fifo \in Seq(Chars \cup {CR})
           /\ Unread \in Seq(Chars \cup {CR})
<1>1. lines \in Seq(Seq(Chars)) /\ fifo \in Seq(Chars \cup {CR})
  BY DEF TypeOK
<1>2. buffer \in Seq(Chars \cup {CR})
  BY DEF TypeOK
<1>3. FlattenSeq(Ended(lines)) \in Seq(Chars \cup {CR})
  BY <1>1, EndedType, FlattenType
<1>4. Unread \in Seq(Chars \cup {CR})
  BY <1>1, <1>2, <1>3, JoinType DEF Unread
<1> QED
  BY <1>1, <1>2, <1>3, <1>4

(* A key press types one character. *)
LEMMA KeyPressTypes ==
    ASSUME TypeOK, NEW c \in Chars \cup {CR}, KeyPress(c)
    PROVE  Terminal!Type(c)
<1>1. fifo' = Append(fifo, c) /\ UNCHANGED <<lines, buffer, delivered>>
  BY DEF KeyPress
<1>2. /\ Unread = Pieces(FlattenSeq(Ended(lines)), buffer, fifo)
      /\ Unread' = Pieces(FlattenSeq(Ended(lines)), buffer, Append(fifo, c))
  BY <1>1 DEF Unread, Pieces
<1>3. Unread' = Append(Unread, c)
  <2>1. PICK S : S = Chars \cup {CR}
    OBVIOUS
  <2>2. ASSUME NEW a \in Seq(S), NEW b \in Seq(S), NEW d \in Seq(S), NEW e \in S
        PROVE  Pieces(a, b, Append(d, e)) = Append(Pieces(a, b, d), e)
    BY PiecesLonger
  <2>3. /\ FlattenSeq(Ended(lines)) \in Seq(S) /\ buffer \in Seq(S) /\ fifo \in Seq(S)
        /\ c \in S
    BY <2>1, UnreadType
  <2> QED
    BY <1>2, <2>2, <2>3, Zenon
<1> QED
  BY <1>1, <1>3 DEF Terminal!Type

(* An interrupt moves a character, or a whole line, towards the reader and *)
(* leaves the stream as it is.                                             *)
LEMMA InterruptStutters ==
    ASSUME TypeOK, ExternalInterrupt
    PROVE  UNCHANGED <<Unread, delivered>>
<1> DEFINE F == FlattenSeq(Ended(lines))
<1>1. /\ fifo # <<>> /\ fifo' = Tail(fifo) /\ UNCHANGED delivered
      /\ lines' = LinesAfter(Head(fifo))
      /\ buffer' = IF Head(fifo) = CR THEN <<>> ELSE Append(buffer, Head(fifo))
  BY DEF ExternalInterrupt
<1>2. /\ F \in Seq(Chars \cup {CR}) /\ buffer \in Seq(Chars \cup {CR})
      /\ fifo \in Seq(Chars \cup {CR})
  BY UnreadType
<1>3. Pieces(F, Append(buffer, Head(fifo)), Tail(fifo)) = Pieces(F, buffer, fifo)
  BY <1>1, <1>2, PiecesMove, Zenon
<1>4. CASE Head(fifo) = CR
  <2>1. lines' = Append(lines, buffer) /\ buffer' = <<>>
    BY <1>1, <1>4 DEF LinesAfter
  <2>2. lines \in Seq(Seq(Chars)) /\ buffer \in Seq(Chars)
    BY DEF TypeOK
  <2>3. Append(buffer, CR) \in Seq(Chars \cup {CR}) /\ Ended(lines) \in Seq(Seq(Chars \cup {CR}))
    BY <2>2, EndedType
  <2>4. FlattenSeq(Ended(lines')) = F \o Append(buffer, CR)
    BY <2>1, <2>2, <2>3, EndedAppend, FlattenAppend
  <2>5. F \o Append(buffer, CR) \in Seq(Chars \cup {CR})
    BY <1>2, <2>3, JoinType
  <2>6. (F \o Append(buffer, CR)) \o <<>> = F \o Append(buffer, CR)
    BY <2>5, JoinEmpty
  <2>7. Unread' = Pieces(F, Append(buffer, Head(fifo)), Tail(fifo))
    BY <1>1, <1>4, <2>1, <2>4, <2>6 DEF Unread, Pieces
  <2> QED
    BY <1>1, <1>3, <2>7 DEF Unread, Pieces
<1>5. CASE Head(fifo) # CR
  <2>1. lines' = lines /\ buffer' = Append(buffer, Head(fifo))
    BY <1>1, <1>5 DEF LinesAfter
  <2>2. Unread' = Pieces(F, Append(buffer, Head(fifo)), Tail(fifo))
    BY <1>1, <2>1 DEF Unread, Pieces
  <2> QED
    BY <1>1, <1>3, <2>2 DEF Unread, Pieces
<1> QED
  BY <1>4, <1>5

(* A read that finds a line reads the first line of the stream. *)
LEMMA ReadLineReads ==
    ASSUME TypeOK, NEW t \in Pids, SysReadLine(t)
    PROVE  \E n \in DOMAIN Unread : Terminal!ReadLine(n)
<1> DEFINE l == Head(lines)
           rest == FlattenSeq(Ended(Tail(lines))) \o buffer \o fifo
           n == Len(l) + 1
<1>1. /\ lines # <<>> /\ lines' = Tail(lines) /\ UNCHANGED <<buffer, fifo>>
      /\ delivered' = Append(delivered, Copied(l))
  BY DEF SysReadLine
<1>2. lines \in Seq(Seq(Chars)) /\ l \in Seq(Chars) /\ Tail(lines) \in Seq(Seq(Chars))
  BY <1>1 DEF TypeOK
<1>3. /\ FlattenSeq(Ended(Tail(lines))) \in Seq(Chars \cup {CR})
      /\ buffer \in Seq(Chars \cup {CR}) /\ fifo \in Seq(Chars \cup {CR})
  BY <1>2, UnreadType, EndedType, FlattenType
<1>4. FlattenSeq(Ended(lines)) = Append(l, CR) \o FlattenSeq(Ended(Tail(lines)))
  BY <1>1, <1>2, EndedType, EndedTail, FlattenHead
<1> HIDE DEF l
<1>5. Append(l, CR) \in Seq(Chars \cup {CR})
  BY <1>2
<1>6. Unread = Append(l, CR) \o rest /\ rest \in Seq(Chars \cup {CR})
  <2> HIDE DEF rest
  <2>1. PICK S : S = Chars \cup {CR}
    OBVIOUS
  <2>2. PICK a \in Seq(S) : a = Append(l, CR)
    BY <1>5, <2>1
  <2>3. PICK b \in Seq(S) : b = FlattenSeq(Ended(Tail(lines)))
    BY <1>3, <2>1
  <2>4. PICK c \in Seq(S) : c = buffer
    BY <1>3, <2>1
  <2>5. PICK d \in Seq(S) : d = fifo
    BY <1>3, <2>1
  <2>6. ((a \o b) \o c) \o d = a \o ((b \o c) \o d)
    OBVIOUS
  <2>7. (b \o c) \o d \in Seq(S)
    OBVIOUS
  <2>8. rest = (b \o c) \o d /\ Unread = ((a \o b) \o c) \o d
    BY <1>4, <2>2, <2>3, <2>4, <2>5, Zenon DEF Unread, rest
  <2> QED
    BY <2>1, <2>2, <2>6, <2>7, <2>8, Zenon
<1>7. Unread' = rest
  BY <1>1 DEF Unread
<1> HIDE DEF rest
<1>8. /\ n \in DOMAIN Unread /\ Unread[n] = CR /\ \A i \in 1..Len(l) : Unread[i] # CR
      /\ SubSeq(Unread, 1, Len(l)) = l /\ SubSeq(Unread, Len(l) + 2, Len(Unread)) = rest
  <2>1. Unread = Line(l, rest)
    BY <1>6 DEF Line
  <2> QED
    <3>1. BeginsWith(Unread, l, rest)
      BY <1>2, <1>6, <2>1, FirstLine, Zenon
    <3> QED
      BY <3>1 DEF BeginsWith
<1>9. n - 1 = Len(l) /\ n + 1 = Len(l) + 2
  BY <1>2
<1>10. Terminal!Cut(Append(l, NUL)) = Copied(l)
  BY DEF Terminal!Cut, Copied
<1> HIDE DEF n
<1>11. Terminal!ReadLine(n)
  BY <1>1, <1>7, <1>8, <1>9, <1>10 DEF Terminal!ReadLine
<1> QED
  BY <1>8, <1>11

(* The console path implements the terminal: every line typed is handed to *)
(* a reader once, in order, with its characters in order.                  *)
THEOREM TerminalImplemented == Spec => ImplementsTerminal
<1>1. Init => Terminal!Init
  <2> SUFFICES ASSUME Init PROVE Terminal!Init
    OBVIOUS
  <2>1. lines = <<>> /\ buffer = <<>> /\ fifo = <<>> /\ delivered = <<>>
    BY DEF Init
  <2>2. Ended(lines) = <<>>
    BY <2>1 DEF Ended
  <2>3. FlattenSeq(Ended(lines)) = <<>>
    BY <2>2 DEF FlattenSeq
  <2>4. Unread = <<>>
    BY <2>1, <2>3 DEF Unread
  <2> QED
    BY <2>1, <2>4 DEF Terminal!Init
<1>2. Safe /\ [Next]_vars => [Terminal!Next]_<<Unread, delivered>>
  <2> SUFFICES ASSUME Safe, [Next]_vars PROVE [Terminal!Next]_<<Unread, delivered>>
    OBVIOUS
  <2>1. TypeOK
    BY DEF Safe
  <2>2. ASSUME UNCHANGED <<lines, buffer, fifo, delivered>>
        PROVE  UNCHANGED <<Unread, delivered>>
    BY <2>2 DEF Unread
  <2>3. CASE StartScheduling \/ TimerInterrupt \/ UNCHANGED vars
    BY <2>2, <2>3 DEF StartScheduling, TimerInterrupt, console, vars
  <2>4. CASE ExternalInterrupt
    BY <2>1, <2>4, InterruptStutters
  <2>5. ASSUME NEW t \in Pids, ThreadStep(t) PROVE [Terminal!Next]_<<Unread, delivered>>
    <3>1. CASE SysReadLine(t)
      BY <2>1, <3>1, ReadLineReads DEF Terminal!Next
    <3>2. CASE UserBranch(t) \/ SysOpen(t) \/ SysPlain(t) \/ SysReadBlock(t)
      BY <2>2, <3>2 DEF UserBranch, SysOpen, SysPlain, SysReadBlock, console
    <3> QED
      BY <2>5, <3>1, <3>2 DEF ThreadStep
  <2>6. ASSUME NEW c \in Chars \cup {CR}, KeyPress(c) PROVE Terminal!Next
    BY <2>1, <2>6, KeyPressTypes DEF Terminal!Next
  <2> QED
    BY <2>3, <2>4, <2>5, <2>6 DEF Next
<1> QED
  BY <1>1, <1>2, AlwaysSafe, PTL DEF Spec, ImplementsTerminal, Terminal!Spec

-----------------------------------------------------------------------------
(* LinkedQueue and LinkedList: the invariant of two containers is Sound.   *)
CellOrNil == Cells \cup {Nil}
CellRecords == [elem : Elements, next : CellOrNil, prev : CellOrNil]
EndRecords == [head : CellOrNil, tail : CellOrNil, size : Nat]
IsHeap(h) == h \in [DOMAIN h -> CellRecords] /\ DOMAIN h \subseteq Cells

(* What w is when it lists the cells of a container with ends e, in order. *)
Linked(s, h, e, w) ==
    /\ w \in Seq(Cells) /\ ToSet(w) \subseteq DOMAIN h
    /\ \A i, j \in 1..Len(w) : w[i] = w[j] => i = j
    /\ \A i \in 1..Len(w) : h[w[i]].next = IF i = Len(w) THEN Nil ELSE w[i + 1]
    /\ IF w = <<>> THEN e = Cut ELSE e.head = w[1] /\ e.tail = w[Len(w)]
    /\ s = "list" =>
         /\ e.size = Len(w)
         /\ \A i \in 1..Len(w) : h[w[i]].prev = IF i = 1 THEN Nil ELSE w[i - 1]

(* The cells in use are those of the containers q and p. *)
Pair(s, h, ens, q, p, u, v) ==
    /\ IsHeap(h) /\ ens \in [Chained -> EndRecords]
    /\ Linked(s, h, ens[q], u) /\ Linked(s, h, ens[p], v)
    /\ DOMAIN h = ToSet(u) \cup ToSet(v) /\ ToSet(u) \cap ToSet(v) = {}

Sound == /\ shape \in {"queue", "list"}
         /\ \E u, v : Pair(shape, heap, ends, 1, 2, u, v)

-----------------------------------------------------------------------------
(* Cells on the way: the function that Chain chooses exists, and is given  *)
(* by its recursion.                                                       *)
Onward(h, n, g) ==
    [y \in CellOrNil |->
       IF n = 0 \/ y \notin DOMAIN h THEN <<>> ELSE <<y>> \o g[h[y].next]]
From(h, N, f) == f = [n \in 0..N |-> Onward(h, n, f[n - 1])]

LEMMA CellCount == Cardinality(Cells) \in Nat
  BY ChainsAssumption, FS_CardinalityType

LEMMA FromExists ==
    ASSUME NEW h, NEW N \in Nat
    PROVE  \E f : From(h, N, f)
<1> DEFINE G == {n \in 1..(N + 1) : \E f : From(h, n - 1, f)}
<1>1. ASSUME NEW n \in 1..(N + 1), n = 1 \/ n - 1 \in G PROVE n \in G
  <2>1. CASE n = 1
    <3> DEFINE f == [k \in 0..0 |-> Onward(h, 0, 0)]
    <3>1. \A g1, g2 : Onward(h, 0, g1) = Onward(h, 0, g2)
      BY DEF Onward
    <3>2. f = [k \in 0..0 |-> Onward(h, k, f[k - 1])]
      <4> HIDE DEF f
      <4>1. f = [k \in 0..0 |-> Onward(h, 0, 0)]
        BY DEF f
      <4>2. ASSUME NEW k \in 0..0 PROVE f[k] = Onward(h, k, f[k - 1])
        <5>1. k = 0
          OBVIOUS
        <5>2. f[0] = Onward(h, 0, 0)
          BY <4>1
        <5> QED
          BY <5>1, <5>2, <3>1
      <4>3. f = [k \in 0..0 |-> f[k]]
        BY <4>1
      <4> QED
        BY <4>2, <4>3
    <3>3. From(h, 0, f)
      BY <3>2 DEF From
    <3> HIDE DEF f
    <3> QED
      BY <2>1, <3>3
  <2>2. CASE n # 1
    <3>1. n - 1 \in 1..(N + 1) /\ n - 1 \in Nat /\ n - 2 \in Nat /\ (n - 1) - 1 = n - 2
      BY <2>2
    <3>2. PICK g : From(h, n - 2, g)
      BY <1>1, <2>2, <3>1
    <3> DEFINE f == [k \in 0..(n - 1) |-> IF k = n - 1 THEN Onward(h, k, g[n - 2]) ELSE g[k]]
    <3>3. ASSUME NEW k \in 0..(n - 1) PROVE f[k] = Onward(h, k, f[k - 1])
      <4>1. CASE k = n - 1
        <5>1. k - 1 = n - 2 /\ k - 1 \in 0..(n - 1) /\ k - 1 # n - 1
          BY <3>1, <4>1
        <5>2. f[k - 1] = g[n - 2]
          BY <5>1
        <5>3. f[k] = Onward(h, k, g[n - 2])
          BY <4>1
        <5> QED
          BY <5>2, <5>3
      <4>2. CASE k # n - 1
        <5>1. k \in 0..(n - 2)
          BY <3>1, <4>2
        <5>2. g[k] = Onward(h, k, g[k - 1])
          BY <3>2, <5>1 DEF From
        <5>3. f[k] = g[k]
          BY <4>2
        <5>4. CASE k = 0
          <6>1. \A g1, g2 : Onward(h, 0, g1) = Onward(h, 0, g2)
            BY DEF Onward
          <6> HIDE DEF f
          <6> QED
            BY <5>2, <5>3, <5>4, <6>1
        <5>5. CASE k # 0
          <6>1. k - 1 \in 0..(n - 1) /\ k - 1 # n - 1
            BY <3>1, <4>2, <5>5
          <6>2. f[k - 1] = g[k - 1]
            BY <6>1
          <6> HIDE DEF f
          <6> QED
            BY <5>2, <5>3, <6>2
        <5> QED
          BY <5>4, <5>5
      <4> QED
        BY <4>1, <4>2
    <3>4. f = [k \in 0..(n - 1) |-> f[k]]
      OBVIOUS
    <3> HIDE DEF f
    <3>5. f = [k \in 0..(n - 1) |-> Onward(h, k, f[k - 1])]
      BY <3>3, <3>4
    <3>6. From(h, n - 1, f)
      BY <3>5 DEF From
    <3> QED
      BY <3>6
  <2> QED
    BY <2>1, <2>2
<1>2. \A n \in 1..(N + 1) : n \in G
  <2> HIDE DEF G
  <2>1. N + 1 \in Nat
    OBVIOUS
  <2> QED
    BY <1>1, <2>1, Induction
<1>3. N + 1 \in 1..(N + 1) /\ (N + 1) - 1 = N
  OBVIOUS
<1> QED
  BY <1>2, <1>3

LEMMA ChainFrom ==
    ASSUME NEW h, NEW x
    PROVE  \E f : /\ From(h, Cardinality(Cells), f)
                 /\ Chain(h, x) = IF x = Nil THEN <<>> ELSE f[Cardinality(Cells)][x]
<1> DEFINE N == Cardinality(Cells)
           f == CHOOSE g : From(h, N, g)
<1>1. From(h, N, f)
  BY CellCount, FromExists
<1>2. Chain(h, x) = IF x = Nil THEN <<>> ELSE f[N][x]
  BY DEF Chain, From, Onward, CellOrNil
<1> QED
  BY <1>1, <1>2

(* What is linked is found: the way from the i-th cell is the rest of w.   *)
Rest(w, i) == SubSeq(w, i, Len(w))

LEMMA RestType ==
    ASSUME NEW S, NEW w \in Seq(S), NEW k \in 1..Len(w)
    PROVE  /\ Rest(w, k) \in Seq(S) /\ Len(Rest(w, k)) = Len(w) - k + 1
           /\ \A j \in 1..(Len(w) - k + 1) : Rest(w, k)[j] = w[k + j - 1]
  BY SubSeqProperties DEF Rest

LEMMA RestWhole ==
    ASSUME NEW S, NEW w \in Seq(S), w # <<>>
    PROVE  Rest(w, 1) = w
<1>1. 1 \in 1..Len(w) /\ Len(w) \in Nat /\ Len(w) - 1 + 1 = Len(w)
  OBVIOUS
<1>2. /\ Rest(w, 1) \in Seq(S) /\ Len(Rest(w, 1)) = Len(w) - 1 + 1
      /\ \A j \in 1..(Len(w) - 1 + 1) : Rest(w, 1)[j] = w[1 + j - 1]
  BY <1>1, RestType, Zenon
<1>3. PICK r \in Seq(S) : r = Rest(w, 1)
  BY <1>2
<1>4. \A j \in 1..Len(w) : 1 + j - 1 = j
  OBVIOUS
<1>5. Len(r) = Len(w) /\ \A j \in 1..Len(w) : r[j] = w[j]
  BY <1>1, <1>2, <1>3, <1>4
<1>6. r = w
  BY <1>5, SeqEqual
<1> QED
  BY <1>3, <1>6

LEMMA RestLast ==
    ASSUME NEW S, NEW w \in Seq(S), w # <<>>
    PROVE  Rest(w, Len(w)) = <<w[Len(w)]>> \o <<>>
<1>1. Len(w) \in 1..Len(w) /\ Len(w) \in Nat /\ w[Len(w)] \in S
  OBVIOUS
<1>2. /\ Rest(w, Len(w)) \in Seq(S) /\ Len(Rest(w, Len(w))) = Len(w) - Len(w) + 1
      /\ \A j \in 1..(Len(w) - Len(w) + 1) : Rest(w, Len(w))[j] = w[Len(w) + j - 1]
  BY <1>1, RestType, Zenon
<1>3. PICK r \in Seq(S) : r = Rest(w, Len(w))
  BY <1>2
<1>4. PICK y \in S : y = w[Len(w)]
  BY <1>1
<1>5. Len(r) = 1 /\ r[1] = y
  BY <1>1, <1>2, <1>3, <1>4
<1>6. <<y>> \in Seq(S) /\ Len(<<y>>) = 1 /\ <<y>>[1] = y
  OBVIOUS
<1>7. r = <<y>>
  BY <1>5, <1>6, SeqEqual
<1>8. <<y>> \o <<>> = <<y>>
  BY <1>6, JoinEmpty
<1> QED
  BY <1>3, <1>4, <1>7, <1>8

LEMMA RestStep ==
    ASSUME NEW S, NEW w \in Seq(S), NEW i \in 1..Len(w), i # Len(w)
    PROVE  Rest(w, i) = <<w[i]>> \o Rest(w, i + 1)
<1>1. i + 1 \in 1..Len(w) /\ Len(w) \in Nat /\ i \in Nat /\ w[i] \in S
  OBVIOUS
<1>2. /\ Rest(w, i) \in Seq(S) /\ Len(Rest(w, i)) = Len(w) - i + 1
      /\ \A j \in 1..(Len(w) - i + 1) : Rest(w, i)[j] = w[i + j - 1]
  BY <1>1, RestType, Zenon
<1>3. /\ Rest(w, i + 1) \in Seq(S) /\ Len(Rest(w, i + 1)) = Len(w) - (i + 1) + 1
      /\ \A j \in 1..(Len(w) - (i + 1) + 1) : Rest(w, i + 1)[j] = w[(i + 1) + j - 1]
  BY <1>1, RestType, Zenon
<1>4. PICK b \in Seq(S) : b = Rest(w, i + 1)
  BY <1>3
<1>5. PICK r \in Seq(S) : r = Rest(w, i)
  BY <1>2
<1>6. PICK a \in Seq(S) : a = <<w[i]>> /\ Len(a) = 1 /\ a[1] = w[i]
  <2>1. PICK y \in S : y = w[i]
    BY <1>1
  <2>2. <<y>> \in Seq(S) /\ Len(<<y>>) = 1 /\ <<y>>[1] = y
    OBVIOUS
  <2> QED
    BY <2>1, <2>2
<1>7. /\ Len(b) = Len(w) - i /\ Len(r) = Len(w) - i + 1
      /\ \A j \in 1..(Len(w) - i) : b[j] = w[i + j]
      /\ \A j \in 1..(Len(w) - i + 1) : r[j] = w[i + j - 1]
  <2>1. Len(w) - (i + 1) + 1 = Len(w) - i /\ \A j \in 1..(Len(w) - i) : (i + 1) + j - 1 = i + j
    BY <1>1
  <2> QED
    BY <1>2, <1>3, <1>4, <1>5, <2>1
<1> DEFINE t == a \o b
<1>8. /\ t \in Seq(S) /\ Len(t) = Len(a) + Len(b)
      /\ \A j \in 1 .. Len(a) + Len(b) : t[j] = IF j <= Len(a) THEN a[j] ELSE b[j - Len(a)]
  BY ConcatProperties, Zenon
<1> HIDE DEF t
<1>9. Len(t) = Len(r)
  BY <1>1, <1>6, <1>7, <1>8
<1>10. ASSUME NEW j \in 1..Len(t) PROVE t[j] = r[j]
  <2>1. j \in 1..(Len(w) - i + 1)
    BY <1>7, <1>9
  <2>2. r[j] = w[i + j - 1]
    BY <1>7, <2>1
  <2>3. CASE j = 1
    <3>1. t[1] = a[1] /\ i + 1 - 1 = i
      BY <1>1, <1>6, <1>8, <2>1, <2>3
    <3> QED
      BY <1>6, <2>2, <2>3, <3>1
  <2>4. CASE j # 1
    <3>1. t[j] = b[j - 1]
      BY <1>1, <1>6, <1>7, <1>8, <2>1, <2>4
    <3>2. j - 1 \in 1..(Len(w) - i) /\ i + (j - 1) = i + j - 1
      BY <1>1, <2>1, <2>4
    <3>3. b[j - 1] = w[i + (j - 1)]
      BY <1>7, <3>2
    <3> QED
      BY <2>2, <3>1, <3>2, <3>3
  <2> QED
    BY <2>3, <2>4
<1>11. t = r
  BY <1>8, <1>9, <1>10, SeqEqual
<1> QED
  BY <1>4, <1>5, <1>6, <1>11 DEF t

(* A container has no more cells than there are. *)
LEMMA LinkedLength ==
    ASSUME NEW s, NEW h, NEW e, NEW w, Linked(s, h, e, w)
    PROVE  Len(w) \in Nat /\ Len(w) <= Cardinality(Cells)
<1>1. w \in [1..Len(w) -> Cells] /\ Len(w) \in Nat
  BY DEF Linked
<1>2. w \in Injection(1..Len(w), Cells)
  BY <1>1 DEF Linked, Injection, IsInjective
<1>3. Cardinality(1..Len(w)) <= Cardinality(Cells)
  BY <1>2, FS_Injection, ChainsAssumption
<1>4. Cardinality(1..Len(w)) = Len(w)
  <2>1. Cardinality(1..Len(w)) = IF 1 > Len(w) THEN 0 ELSE Len(w) - 1 + 1
    BY <1>1, FS_Interval
  <2> QED
    BY <1>1, <2>1
<1> QED
  BY <1>1, <1>3, <1>4

LEMMA ChainIs ==
    ASSUME NEW s, NEW h, NEW e, NEW w, IsHeap(h), Linked(s, h, e, w)
    PROVE  Chain(h, e.head) = w
<1> DEFINE N == Cardinality(Cells)
<1>1. PICK f : From(h, N, f) /\ Chain(h, e.head) = IF e.head = Nil THEN <<>> ELSE f[N][e.head]
  BY ChainFrom
<1>2. ASSUME NEW n \in 0..N PROVE f[n] = Onward(h, n, f[n - 1])
  BY <1>1 DEF From
<1>3. ASSUME NEW n \in 0..N PROVE f[n][Nil] = <<>>
  <2>1. Nil \notin DOMAIN h /\ Nil \in CellOrNil
    BY ChainsAssumption DEF IsHeap, Nil, CellOrNil
  <2>2. Onward(h, n, f[n - 1])[Nil] = <<>>
    BY <2>1 DEF Onward
  <2> QED
    BY <1>2, <2>2
<1>4. N \in Nat /\ Len(w) \in Nat /\ Len(w) <= N
  BY CellCount, LinkedLength
<1>5. w \in Seq(Cells) /\ \A i \in 1..Len(w) : w[i] \in DOMAIN h /\ w[i] \in CellOrNil
  BY DEF Linked, ToSet, IsHeap, CellOrNil
<1> DEFINE G == {n \in 1..N : \A i \in 1..Len(w) : Len(w) - i + 1 <= n => f[n][w[i]] = Rest(w, i)}
<1>6. ASSUME NEW n \in 1..N, n = 1 \/ n - 1 \in G PROVE n \in G
  <2> SUFFICES ASSUME NEW i \in 1..Len(w), Len(w) - i + 1 <= n
               PROVE  f[n][w[i]] = Rest(w, i)
    OBVIOUS
  <2>0. n \in 0..N /\ n # 0 /\ n - 1 \in 0..N
    BY <1>4
  <2>1. f[n][w[i]] = <<w[i]>> \o f[n - 1][h[w[i]].next]
    <3>1. Onward(h, n, f[n - 1])[w[i]] = <<w[i]>> \o f[n - 1][h[w[i]].next]
      BY <1>5, <2>0 DEF Onward
    <3> QED
      BY <1>2, <2>0, <3>1
  <2>2. h[w[i]].next = IF i = Len(w) THEN Nil ELSE w[i + 1]
    BY DEF Linked
  <2>3. CASE i = Len(w)
    <3>1. f[n - 1][h[w[i]].next] = <<>>
      BY <1>3, <2>0, <2>2, <2>3
    <3>2. w # <<>>
      BY <1>4, <1>5
    <3>3. Rest(w, i) = <<w[i]>> \o <<>>
      BY <1>5, <2>3, <3>2, RestLast, Zenon
    <3> QED
      BY <2>1, <3>1, <3>3
  <2>4. CASE i # Len(w)
    <3>1. i + 1 \in 1..Len(w) /\ n # 1 /\ Len(w) - (i + 1) + 1 <= n - 1
      BY <1>4, <2>4
    <3>2. f[n - 1][w[i + 1]] = Rest(w, i + 1)
      BY <1>6, <3>1
    <3>3. h[w[i]].next = w[i + 1]
      BY <2>2, <2>4
    <3>4. f[n][w[i]] = <<w[i]>> \o Rest(w, i + 1)
      BY <2>1, <3>2, <3>3, Zenon
    <3>5. Rest(w, i) = <<w[i]>> \o Rest(w, i + 1)
      BY <1>5, <2>4, RestStep, Zenon
    <3> QED
      BY <3>4, <3>5, Zenon
  <2> QED
    BY <2>3, <2>4
<1>7. \A n \in 1..N : n \in G
  <2> HIDE DEF G
  <2> QED
    BY <1>4, <1>6, Induction
<1>8. CASE w = <<>>
  <2>1. e.head = Nil
    BY <1>8 DEF Linked, Cut
  <2> QED
    BY <1>1, <1>8, <2>1
<1>9. CASE w # <<>>
  <2>1. 1 \in 1..Len(w) /\ N \in 1..N /\ Len(w) - 1 + 1 <= N
    BY <1>4, <1>5, <1>9
  <2>2. f[N][w[1]] = Rest(w, 1)
    BY <1>7, <2>1
  <2>3. e.head = w[1] /\ e.head # Nil
    <3>1. e.head = w[1]
      BY <1>9 DEF Linked
    <3>2. w[1] \in Cells
      BY <1>5, <2>1
    <3> QED
      BY <3>1, <3>2, ChainsAssumption DEF Nil
  <2> QED
    BY <1>1, <1>5, <1>9, <2>2, <2>3, RestWhole
<1> QED
  BY <1>8, <1>9
-----------------------------------------------------------------------------
(* What a sound state stands for. *)
Other(q) == 3 - q

LEMMA Two ==
    ASSUME NEW q \in Chained
    PROVE  /\ Other(q) \in Chained /\ Other(q) # q
           /\ \A c \in Chained : c = q \/ c = Other(q)
           /\ Other(Other(q)) = q
           /\ \A c \in Chained : c # q => c = Other(q)
  BY DEF Chained, Other

LEMMA LinkedOrder ==
    ASSUME NEW s, NEW h, NEW e, NEW w, Linked(s, h, e, w)
    PROVE  InOrder(s, h, e, w)
<1>1. w \in Seq(Cells) /\ Len(w) \in Nat
  BY DEF Linked
<1>2. ASSUME w # <<>> PROVE Last(w) = e.tail /\ h[Last(w)].next = Nil
  <2>1. Last(w) = w[Len(w)] /\ Len(w) \in 1..Len(w)
    BY <1>1, <1>2 DEF Last
  <2> QED
    BY <1>2, <2>1 DEF Linked
<1>3. s = "list" => /\ Len(w) = e.size
                    /\ \A i \in 1..Len(w) : h[w[i]].prev = IF i = 1 THEN Nil ELSE w[i - 1]
  BY DEF Linked
<1>4. w = <<>> => e = Cut
  BY DEF Linked
<1> QED
  BY <1>2, <1>3, <1>4 DEF InOrder

(* The contents by the two containers' cells. *)
Both(q, x, y) == [c \in Chained |-> IF c = q THEN x ELSE y]

LEMMA PairContents ==
    ASSUME NEW s, NEW h, NEW ens, NEW q \in Chained, NEW u, NEW v,
           Pair(s, h, ens, q, Other(q), u, v)
    PROVE  ContentsOf(s, h, ens) = Both(q, Elems(h, u), Elems(h, v))
<1> DEFINE w == [c \in Chained |-> Chain(h, ens[c].head)]
<1>0. Other(q) \in Chained /\ Other(q) # q /\ \A c \in Chained : c = q \/ c = Other(q)
  BY Two
<1>1. Chain(h, ens[q].head) = u /\ Chain(h, ens[Other(q)].head) = v
  BY ChainIs DEF Pair
<1>2. w[q] = u /\ w[Other(q)] = v
  BY <1>0, <1>1
<1>8. \A c \in Chained : Chain(h, ens[c].head) = w[c]
  OBVIOUS
<1>9. w = [c \in Chained |-> w[c]]
  OBVIOUS
<1> HIDE DEF w
<1>3. \A c \in Chained : InOrder(s, h, ens[c], w[c])
  <2>1. InOrder(s, h, ens[q], u) /\ InOrder(s, h, ens[Other(q)], v)
    BY LinkedOrder DEF Pair
  <2> QED
    BY <1>0, <1>2, <2>1
<1>4. ToSet(w[1]) \cup ToSet(w[2]) = DOMAIN h /\ ToSet(w[1]) \cap ToSet(w[2]) = {}
  <2>1. (q = 1 /\ Other(q) = 2) \/ (q = 2 /\ Other(q) = 1)
    BY DEF Chained, Other
  <2>2. /\ ToSet(w[q]) \cup ToSet(w[Other(q)]) = DOMAIN h
        /\ ToSet(w[q]) \cap ToSet(w[Other(q)]) = {}
    BY <1>2 DEF Pair
  <2> QED
    BY <2>1, <2>2
<1>6. ContentsOf(s, h, ens) = [c \in Chained |-> Elems(h, w[c])]
  BY <1>3, <1>4 DEF ContentsOf, w
<1>7. ASSUME NEW c \in Chained PROVE Elems(h, w[c]) = IF c = q THEN Elems(h, u) ELSE Elems(h, v)
  BY <1>0, <1>2
<1> QED
  BY <1>6, <1>7 DEF Both

LEMMA PairSwap ==
    ASSUME NEW s, NEW h, NEW ens, NEW q, NEW p, NEW u, NEW v, Pair(s, h, ens, q, p, u, v)
    PROVE  Pair(s, h, ens, p, q, v, u)
  BY DEF Pair

LEMMA SoundPair ==
    ASSUME Sound, NEW q \in Chained
    PROVE  \E u, v : Pair(shape, heap, ends, q, Other(q), u, v)
<1>1. PICK u, v : Pair(shape, heap, ends, 1, 2, u, v)
  BY DEF Sound
<1>2. Pair(shape, heap, ends, 2, 1, v, u)
  BY <1>1, PairSwap
<1>3. (q = 1 /\ Other(q) = 2) \/ (q = 2 /\ Other(q) = 1)
  BY DEF Chained, Other
<1> QED
  BY <1>1, <1>2, <1>3

LEMMA PairSound ==
    ASSUME NEW s, NEW h, NEW ens, NEW q \in Chained, NEW u, NEW v,
           Pair(s, h, ens, q, Other(q), u, v)
    PROVE  \E x, y : Pair(s, h, ens, 1, 2, x, y)
<1>1. Pair(s, h, ens, Other(q), q, v, u)
  BY PairSwap
<1>2. (q = 1 /\ Other(q) = 2) \/ (q = 2 /\ Other(q) = 1)
  BY DEF Chained, Other
<1> QED
  BY <1>1, <1>2

(* A container whose cells are left alone stays linked. *)
LEMMA LinkedKept ==
    ASSUME NEW s, NEW h, NEW e, NEW w, NEW g, Linked(s, h, e, w),
           \A y \in ToSet(w) : y \in DOMAIN g /\ g[y] = h[y]
    PROVE  Linked(s, g, e, w) /\ Elems(g, w) = Elems(h, w)
<1>1. \A i \in 1..Len(w) : w[i] \in ToSet(w) /\ w[i] \in DOMAIN g /\ g[w[i]] = h[w[i]]
  <2>1. w \in Seq(Cells)
    BY DEF Linked
  <2> QED
    BY <2>1 DEF ToSet
<1>2. ToSet(w) \subseteq DOMAIN g
  OBVIOUS
<1>3. Linked(s, g, e, w)
  BY <1>1, <1>2 DEF Linked
<1>4. Elems(g, w) = Elems(h, w)
  BY <1>1 DEF Elems
<1> QED
  BY <1>3, <1>4

(* The elements of a container are a sequence. *)
LEMMA ElemsType ==
    ASSUME NEW s, NEW h, NEW e, NEW w, IsHeap(h), Linked(s, h, e, w)
    PROVE  /\ Elems(h, w) \in Seq(Elements) /\ Len(Elems(h, w)) = Len(w)
           /\ \A i \in 1..Len(w) : Elems(h, w)[i] = h[w[i]].elem
           /\ \A i \in 1..Len(w) : w[i] \in DOMAIN h /\ w[i] \in Cells /\ w[i] # Nil
<1>1. w \in Seq(Cells) /\ Len(w) \in Nat
  BY DEF Linked
<1>2. \A i \in 1..Len(w) : w[i] \in DOMAIN h /\ w[i] \in Cells /\ w[i] # Nil
  BY <1>1, ChainsAssumption DEF Linked, ToSet, Nil
<1>3. \A i \in 1..Len(w) : h[w[i]].elem \in Elements
  BY <1>2 DEF IsHeap, CellRecords
<1> DEFINE r == Elems(h, w)
<1>4. r \in [1..Len(w) -> Elements] /\ \A i \in 1..Len(w) : r[i] = h[w[i]].elem
  BY <1>3 DEF Elems
<1> HIDE DEF r
<1>5. r \in Seq(Elements) /\ Len(r) = Len(w)
  BY <1>1, <1>4
<1> QED
  BY <1>2, <1>4, <1>5 DEF r
-----------------------------------------------------------------------------
(* Appending a cell. *)
Appended(s, h, e, el, x, g, e2) ==
    /\ DOMAIN g = DOMAIN h \cup {x}
    /\ g = [y \in DOMAIN g |-> g[y]]
    /\ g[x] = [elem |-> el, next |-> Nil,
               prev |-> IF s = "list" /\ e.head # Nil THEN e.tail ELSE Nil]
    /\ \A y \in DOMAIN h :
         g[y] = [elem |-> h[y].elem, next |-> IF e.head # Nil /\ y = e.tail THEN x ELSE h[y].next,
                 prev |-> h[y].prev]
    /\ e2 = [head |-> IF e.head = Nil THEN x ELSE e.head, tail |-> x,
             size |-> IF s = "list" THEN e.size + 1 ELSE 0]

(* A cell is a record of its three fields. *)
LEMMA CellFields ==
    ASSUME NEW h, IsHeap(h), NEW y \in DOMAIN h
    PROVE  /\ h[y] = [elem |-> h[y].elem, next |-> h[y].next, prev |-> h[y].prev]
           /\ h[y].elem \in Elements /\ h[y].next \in CellOrNil /\ h[y].prev \in CellOrNil
  BY DEF IsHeap, CellRecords

LEMMA CellUpdate ==
    ASSUME NEW c \in CellRecords, NEW z
    PROVE  /\ [c EXCEPT !.next = z] = [elem |-> c.elem, next |-> z, prev |-> c.prev]
           /\ [c EXCEPT !.prev = z] = [elem |-> c.elem, next |-> c.next, prev |-> z]
  BY DEF CellRecords

IsWith(g, h, x, c) ==
    /\ DOMAIN g = DOMAIN h \cup {x} /\ g = [y \in DOMAIN g |-> g[y]]
    /\ g[x] = c /\ \A y \in DOMAIN h : g[y] = h[y]

LEMMA HeapWith ==
    ASSUME NEW h, NEW x, x \notin DOMAIN h, NEW c
    PROVE  IsWith(With(h, x, c), h, x, c)
  BY DEF With, IsWith

LEMMA AppendIs ==
    ASSUME NEW h, IsHeap(h), NEW e \in EndRecords, e.head # Nil => e.tail \in DOMAIN h,
           NEW el, NEW x, x \notin DOMAIN h
    PROVE  Appended(shape, h, e, el, x, Append0(h, e, el, x).heap, Append0(h, e, el, x).ends)
<1> DEFINE size == IF shape = "list" THEN e.size + 1 ELSE 0
           cell == NewCell(el)
           linked == IF shape = "list" THEN [cell EXCEPT !.prev = e.tail] ELSE cell
<1>0. cell = [elem |-> el, next |-> Nil, prev |-> Nil]
  BY DEF NewCell
<1>1. CASE e.head = Nil
  <2>1. Append0(h, e, el, x) = [heap |-> With(h, x, cell),
                                ends |-> [head |-> x, tail |-> x, size |-> size]]
    BY <1>1 DEF Append0
  <2> DEFINE g == With(h, x, cell)
             e2 == [head |-> x, tail |-> x, size |-> size]
  <2>2. /\ DOMAIN g = DOMAIN h \cup {x} /\ g = [y \in DOMAIN g |-> g[y]]
        /\ g[x] = cell /\ \A y \in DOMAIN h : g[y] = h[y]
    <3> HIDE DEF cell
    <3>1. IsWith(g, h, x, cell)
      BY HeapWith
    <3> HIDE DEF g
    <3> QED
      BY <3>1 DEF IsWith
  <2>3. Append0(h, e, el, x).heap = g /\ Append0(h, e, el, x).ends = e2
    BY <2>1
  <2>4. \A y \in DOMAIN h : g[y] = [elem |-> h[y].elem, next |-> h[y].next, prev |-> h[y].prev]
    BY <2>2, CellFields
  <2>5. e2 = [head |-> x, tail |-> x, size |-> IF shape = "list" THEN e.size + 1 ELSE 0]
    OBVIOUS
  <2> HIDE DEF g, e2
  <2>6. Appended(shape, h, e, el, x, g, e2)
    BY <1>0, <1>1, <2>2, <2>4, <2>5 DEF Appended
  <2> QED
    BY <2>3, <2>6
<1>2. CASE e.head # Nil
  <2> DEFINE k == [h EXCEPT ![e.tail].next = x]
             g == With(k, x, linked)
             e2 == [head |-> e.head, tail |-> x, size |-> size]
  <2>1. Append0(h, e, el, x) = [heap |-> g, ends |-> e2]
    BY <1>2 DEF Append0
  <2>2. DOMAIN k = DOMAIN h
    OBVIOUS
  <2>3. \A y \in DOMAIN h : k[y] = IF y = e.tail THEN [h[e.tail] EXCEPT !.next = x] ELSE h[y]
    BY <1>2
  <2>4. ASSUME NEW y \in DOMAIN h
        PROVE  k[y] = [elem |-> h[y].elem, next |-> IF e.head # Nil /\ y = e.tail THEN x ELSE h[y].next,
                       prev |-> h[y].prev]
    <3> HIDE DEF k
    <3>1. h[y] \in CellRecords
      BY DEF IsHeap
    <3>2. CASE y = e.tail
      <4>1. [h[y] EXCEPT !.next = x] = [elem |-> h[y].elem, next |-> x, prev |-> h[y].prev]
        BY <3>1, CellUpdate
      <4> QED
        BY <1>2, <2>3, <3>2, <4>1
    <3>3. CASE y # e.tail
      BY <2>3, <3>3, CellFields
    <3> QED
      BY <3>2, <3>3
  <2> HIDE DEF k
  <2>5. /\ DOMAIN g = DOMAIN k \cup {x} /\ g = [y \in DOMAIN g |-> g[y]]
        /\ g[x] = linked /\ \A y \in DOMAIN k : g[y] = k[y]
    <3>1. x \notin DOMAIN k
      BY <2>2
    <3> HIDE DEF linked
    <3>2. IsWith(g, k, x, linked)
      BY <3>1, HeapWith
    <3> HIDE DEF g
    <3> QED
      BY <3>2 DEF IsWith
  <2>6. linked = [elem |-> el, next |-> Nil,
                  prev |-> IF shape = "list" /\ e.head # Nil THEN e.tail ELSE Nil]
    BY <1>0, <1>2
  <2>7. e2 = [head |-> e.head, tail |-> x, size |-> IF shape = "list" THEN e.size + 1 ELSE 0]
    OBVIOUS
  <2>8. Append0(h, e, el, x).heap = g /\ Append0(h, e, el, x).ends = e2
    BY <2>1
  <2> HIDE DEF g, e2, linked
  <2>9. Appended(shape, h, e, el, x, g, e2)
    BY <1>2, <2>2, <2>4, <2>5, <2>6, <2>7 DEF Appended
  <2> QED
    BY <2>8, <2>9
<1> QED
  BY <1>1, <1>2

LEMMA EndsOf ==
    ASSUME NEW s, NEW h, IsHeap(h), NEW e, NEW w, Linked(s, h, e, w)
    PROVE  /\ e.head = Nil <=> w = <<>>
           /\ e.head # Nil => /\ e.tail \in ToSet(w) /\ e.tail \in DOMAIN h
                              /\ e.head \in ToSet(w) /\ e.head \in DOMAIN h
<1>1. w \in Seq(Cells)
  BY DEF Linked
<1>2. w = <<>> => e.head = Nil
  BY DEF Linked, Cut
<1>3. w # <<>> => 1 \in 1..Len(w) /\ Len(w) \in 1..Len(w) /\ e.head = w[1] /\ e.tail = w[Len(w)]
  BY <1>1 DEF Linked
<1>4. \A i \in 1..Len(w) : w[i] \in ToSet(w) /\ w[i] \in DOMAIN h /\ w[i] # Nil
  BY <1>1, ElemsType DEF ToSet
<1> QED
  BY <1>2, <1>3, <1>4

(* The sequence with x at the end, element by element. *)
AtEnd(w, x) == Append(w, x)
Follows(S, t, w, x) ==
    /\ t \in Seq(S) /\ Len(t) = Len(w) + 1 /\ t[Len(w) + 1] = x
    /\ \A i \in 1..Len(w) : t[i] = w[i]
    /\ ToSet(t) = ToSet(w) \cup {x}

LEMMA AppendAt ==
    ASSUME NEW S, NEW w \in Seq(S), NEW x \in S
    PROVE  Follows(S, AtEnd(w, x), w, x)
<1>1. /\ Append(w, x) \in Seq(S) /\ Len(Append(w, x)) = Len(w) + 1
      /\ Append(w, x)[Len(w) + 1] = x
      /\ \A i \in 1..Len(w) : Append(w, x)[i] = w[i]
  OBVIOUS
<1>2. PICK t \in Seq(S) : t = Append(w, x)
  BY <1>1
<1>3. /\ Len(w) \in Nat /\ DOMAIN w = 1..Len(w) /\ DOMAIN t = 1..(Len(w) + 1)
      /\ t[Len(w) + 1] = x /\ \A i \in 1..Len(w) : t[i] = w[i]
  BY <1>1, <1>2
<1>4. ToSet(t) = ToSet(w) \cup {x}
  <2>1. \A i \in 1..(Len(w) + 1) : i \in 1..Len(w) \/ i = Len(w) + 1
    BY <1>3
  <2>2. \A i \in 1..Len(w) : i \in 1..(Len(w) + 1)
    BY <1>3
  <2>3. Len(w) + 1 \in 1..(Len(w) + 1)
    BY <1>3
  <2> QED
    BY <1>3, <2>1, <2>2, <2>3 DEF ToSet
<1> QED
  BY <1>1, <1>2, <1>4 DEF Follows, AtEnd

LEMMA LinkedAppend ==
    ASSUME NEW s, NEW h, IsHeap(h), NEW e \in EndRecords, NEW w, Linked(s, h, e, w),
           NEW el \in Elements, NEW x \in Cells, x \notin DOMAIN h,
           NEW g, NEW e2, Appended(s, h, e, el, x, g, e2)
    PROVE  /\ IsHeap(g) /\ e2 \in EndRecords /\ Linked(s, g, e2, AtEnd(w, x))
           /\ Elems(g, AtEnd(w, x)) = AtEnd(Elems(h, w), el)
<1>1. w \in Seq(Cells) /\ Len(w) \in Nat /\ Nil \notin Cells /\ Nil \in CellOrNil /\ x \in CellOrNil
  BY ChainsAssumption DEF Linked, Nil, CellOrNil
<1>2. /\ e.head = Nil <=> w = <<>>
      /\ e.head # Nil => e.tail \in DOMAIN h /\ e.head \in DOMAIN h
  BY EndsOf
<1>3. ASSUME NEW y \in DOMAIN g PROVE g[y] \in CellRecords
  <2>1. CASE y = x
    <3>1. e.head # Nil => e.tail \in CellOrNil
      BY <1>2 DEF IsHeap, CellOrNil
    <3> QED
      BY <1>1, <2>1, <3>1 DEF Appended, CellRecords
  <2>2. CASE y \in DOMAIN h
    <3>1. h[y].elem \in Elements /\ h[y].next \in CellOrNil /\ h[y].prev \in CellOrNil
      BY <2>2, CellFields
    <3> QED
      BY <1>1, <2>2, <3>1 DEF Appended, CellRecords
  <2> QED
    BY <2>1, <2>2 DEF Appended
<1>4. IsHeap(g)
  <2>1. g \in [DOMAIN g -> CellRecords]
    BY <1>3 DEF Appended
  <2> QED
    BY <2>1 DEF Appended, IsHeap
<1>5. e2 \in EndRecords
  <2>1. e.size \in Nat /\ e.head \in CellOrNil
    BY DEF EndRecords
  <2> QED
    BY <1>1, <2>1 DEF Appended, EndRecords
<1>6. PICK t \in Seq(Cells) :
        /\ t = AtEnd(w, x) /\ Len(t) = Len(w) + 1 /\ t[Len(w) + 1] = x
        /\ \A i \in 1..Len(w) : t[i] = w[i]
        /\ ToSet(t) = ToSet(w) \cup {x}
  <2>1. Follows(Cells, AtEnd(w, x), w, x)
    BY <1>1, AppendAt
  <2>2. PICK t : t = AtEnd(w, x) /\ Follows(Cells, t, w, x)
    BY <2>1
  <2> QED
    BY <2>2 DEF Follows
<1>7. \A i \in 1..Len(w) : w[i] \in DOMAIN h /\ w[i] \in Cells /\ w[i] # Nil /\ w[i] # x
  BY ElemsType
<1>8. \A i \in 1..Len(t) : i \in 1..Len(w) \/ i = Len(w) + 1
  BY <1>1, <1>6
<1>9. ToSet(t) \subseteq DOMAIN g
  BY <1>6 DEF Linked, Appended
<1>10. \A i, j \in 1..Len(t) : t[i] = t[j] => i = j
  <2>1. \A i, j \in 1..Len(w) : w[i] = w[j] => i = j
    BY DEF Linked
  <2> QED
    BY <1>6, <1>7, <1>8, <2>1
<1>11. w # <<>> => e.tail = w[Len(w)] /\ e.head = w[1] /\ Len(w) \in 1..Len(w) /\ 1 \in 1..Len(w)
  BY <1>1 DEF Linked
<1>12. ASSUME NEW i \in 1..Len(t)
       PROVE  g[t[i]].next = IF i = Len(t) THEN Nil ELSE t[i + 1]
  <2>1. CASE i = Len(w) + 1
    BY <1>6, <2>1 DEF Appended
  <2>2. CASE i \in 1..Len(w) /\ i = Len(w)
    <3>1. w # <<>> /\ w[i] = e.tail
      BY <1>1, <1>11, <2>2
    <3>2. g[w[i]].next = x
      BY <1>2, <1>7, <2>2, <3>1 DEF Appended
    <3> QED
      BY <1>1, <1>6, <2>2, <3>2
  <2>3. CASE i \in 1..Len(w) /\ i # Len(w)
    <3>1. i + 1 \in 1..Len(w) /\ w # <<>>
      BY <1>1, <2>3
    <3>2. w[i] # e.tail
      BY <1>11, <2>3, <3>1 DEF Linked
    <3>3. g[w[i]].next = h[w[i]].next
      BY <1>7, <2>3, <3>2 DEF Appended
    <3>4. h[w[i]].next = w[i + 1]
      BY <2>3 DEF Linked
    <3> QED
      BY <1>1, <1>6, <2>3, <3>1, <3>3, <3>4
  <2> QED
    BY <1>8, <2>1, <2>2, <2>3
<1>13. e2.head = t[1] /\ e2.tail = t[Len(t)] /\ t # <<>>
  <2>1. e2.tail = x /\ e2.head = IF e.head = Nil THEN x ELSE e.head
    BY DEF Appended
  <2>2. w = <<>> => Len(w) = 0
    OBVIOUS
  <2> QED
    BY <1>1, <1>2, <1>6, <1>11, <2>1, <2>2
<1>14. ASSUME s = "list"
       PROVE  /\ e2.size = Len(t)
              /\ \A i \in 1..Len(t) : g[t[i]].prev = IF i = 1 THEN Nil ELSE t[i - 1]
  <2>1. /\ e.size = Len(w)
        /\ \A i \in 1..Len(w) : h[w[i]].prev = IF i = 1 THEN Nil ELSE w[i - 1]
    BY <1>14 DEF Linked
  <2>2. e2.size = Len(t)
    BY <1>6, <1>14, <2>1 DEF Appended
  <2>3. ASSUME NEW i \in 1..Len(t) PROVE g[t[i]].prev = IF i = 1 THEN Nil ELSE t[i - 1]
    <3>1. CASE i = Len(w) + 1
      <4>1. g[x].prev = IF e.head # Nil THEN e.tail ELSE Nil
        BY <1>14 DEF Appended
      <4>2. CASE w = <<>>
        <5>1. Len(w) = 0
          BY <4>2
        <5> QED
          BY <1>2, <1>6, <3>1, <4>1, <4>2, <5>1
      <4>3. CASE w # <<>>
        <5>1. i # 1 /\ i - 1 = Len(w)
          BY <1>1, <1>11, <3>1, <4>3
        <5> QED
          BY <1>2, <1>6, <1>11, <3>1, <4>1, <4>3, <5>1
      <4> QED
        BY <4>2, <4>3
    <3>2. CASE i \in 1..Len(w)
      <4>1. g[w[i]].prev = h[w[i]].prev
        BY <1>7, <3>2 DEF Appended
      <4>2. i # 1 => i - 1 \in 1..Len(w)
        BY <1>1, <3>2
      <4> QED
        BY <1>6, <2>1, <3>2, <4>1, <4>2
    <3> QED
      BY <1>8, <3>1, <3>2
  <2> QED
    BY <2>2, <2>3
<1>15. Linked(s, g, e2, t)
  BY <1>6, <1>9, <1>10, <1>12, <1>13, <1>14 DEF Linked
<1>16. Elems(g, t) = AtEnd(Elems(h, w), el)
  <2>1. PICK a \in Seq(Elements) : a = Elems(h, w) /\ Len(a) = Len(w) /\ \A i \in 1..Len(w) : a[i] = h[w[i]].elem
    BY ElemsType
  <2>2. PICK b \in Seq(Elements) : b = Elems(g, t) /\ Len(b) = Len(t) /\ \A i \in 1..Len(t) : b[i] = g[t[i]].elem
    BY <1>4, <1>15, ElemsType
  <2>3. PICK c \in Seq(Elements) : c = AtEnd(a, el) /\ Len(c) = Len(a) + 1 /\ c[Len(a) + 1] = el
                                   /\ \A i \in 1..Len(a) : c[i] = a[i]
    <3>1. Follows(Elements, AtEnd(a, el), a, el)
      BY AppendAt
    <3>2. PICK c : c = AtEnd(a, el) /\ Follows(Elements, c, a, el)
      BY <3>1
    <3> QED
      BY <3>2 DEF Follows
  <2>4. ASSUME NEW i \in 1..Len(b) PROVE b[i] = c[i]
    <3>0. i \in 1..Len(t)
      BY <2>2
    <3>1. CASE i = Len(w) + 1
      <4>1. g[x].elem = el
        BY DEF Appended
      <4> QED
        BY <1>6, <2>1, <2>2, <2>3, <3>0, <3>1, <4>1
    <3>2. CASE i \in 1..Len(w)
      <4>1. g[w[i]].elem = h[w[i]].elem
        BY <1>7, <3>2 DEF Appended
      <4> QED
        BY <1>6, <2>1, <2>2, <2>3, <3>0, <3>2, <4>1
    <3> QED
      BY <1>8, <3>0, <3>1, <3>2
  <2>5. b = c
    BY <1>6, <2>1, <2>2, <2>3, <2>4, SeqEqual
  <2> QED
    BY <2>1, <2>2, <2>3, <2>5
<1> QED
  BY <1>4, <1>5, <1>6, <1>15, <1>16

Replaced(ens2, ens, q, e2) == ens2 = [ens EXCEPT ![q] = e2]

LEMMA PairAppend ==
    ASSUME NEW s, NEW h, NEW ens, NEW q \in Chained, NEW u, NEW v,
           Pair(s, h, ens, q, Other(q), u, v),
           NEW el \in Elements, NEW x \in Cells, x \notin DOMAIN h,
           NEW g, NEW e2, Appended(s, h, ens[q], el, x, g, e2),
           NEW ens2, Replaced(ens2, ens, q, e2)
    PROVE  /\ Pair(s, g, ens2, q, Other(q), AtEnd(u, x), v)
           /\ Elems(g, AtEnd(u, x)) = AtEnd(Elems(h, u), el)
           /\ Elems(g, v) = Elems(h, v)
<1>0. /\ IsHeap(h) /\ ens \in [Chained -> EndRecords]
      /\ Linked(s, h, ens[q], u) /\ Linked(s, h, ens[Other(q)], v)
      /\ DOMAIN h = ToSet(u) \cup ToSet(v) /\ ToSet(u) \cap ToSet(v) = {}
  BY DEF Pair
<1>1. Other(q) \in Chained /\ Other(q) # q
  BY Two
<1>2. /\ IsHeap(g) /\ e2 \in EndRecords /\ Linked(s, g, e2, AtEnd(u, x))
      /\ Elems(g, AtEnd(u, x)) = AtEnd(Elems(h, u), el)
  <2>1. ens[q] \in EndRecords
    BY <1>0
  <2> QED
    BY <1>0, <2>1, LinkedAppend
<1>3. ens2 \in [Chained -> EndRecords] /\ ens2[q] = e2 /\ ens2[Other(q)] = ens[Other(q)]
  BY <1>0, <1>1, <1>2 DEF Replaced
<1>4. \A y \in ToSet(v) : y \in DOMAIN g /\ g[y] = h[y]
  <2>1. ens[q].head # Nil => ens[q].tail \in ToSet(u)
    BY <1>0, EndsOf
  <2>2. ASSUME NEW y \in ToSet(v) PROVE g[y] = h[y]
    <3>1. y \in DOMAIN h /\ ~(ens[q].head # Nil /\ y = ens[q].tail)
      BY <1>0, <2>1
    <3>2. g[y] = [elem |-> h[y].elem, next |-> h[y].next, prev |-> h[y].prev]
      BY <3>1 DEF Appended
    <3> QED
      BY <1>0, <3>1, <3>2, CellFields
  <2> QED
    BY <1>0, <2>2 DEF Appended
<1>5. Linked(s, g, ens[Other(q)], v) /\ Elems(g, v) = Elems(h, v)
  BY <1>0, <1>4, LinkedKept
<1>6. ToSet(AtEnd(u, x)) = ToSet(u) \cup {x}
  BY <1>0, AppendAt DEF Linked, Follows
<1>7. /\ DOMAIN g = ToSet(AtEnd(u, x)) \cup ToSet(v)
      /\ ToSet(AtEnd(u, x)) \cap ToSet(v) = {}
  BY <1>0, <1>6 DEF Appended
<1> QED
  BY <1>2, <1>3, <1>5, <1>7 DEF Pair
-----------------------------------------------------------------------------
(* Taking the first cell out of a queue. *)
AfterHead(w) == Tail(w)
Drops(S, t, w) ==
    /\ t \in Seq(S) /\ Len(t) = Len(w) - 1
    /\ \A i \in 1..(Len(w) - 1) : t[i] = w[i + 1]

LEMMA TailAt ==
    ASSUME NEW S, NEW w \in Seq(S), w # <<>>
    PROVE  Drops(S, AfterHead(w), w)
  BY DEF Drops, AfterHead

LEMMA DropsUnique ==
    ASSUME NEW S, NEW a, NEW b, NEW w \in Seq(S), Drops(S, a, w), Drops(S, b, w)
    PROVE  a = b
<1>1. a \in Seq(S) /\ b \in Seq(S) /\ Len(a) = Len(w) - 1 /\ Len(b) = Len(w) - 1
  BY DEF Drops
<1>2. \A i \in 1..Len(a) : a[i] = b[i]
  BY <1>1 DEF Drops
<1> QED
  BY <1>1, <1>2, SeqEqual

IsWithout(g, h, xs) ==
    /\ IsHeap(g) /\ DOMAIN g = DOMAIN h \ xs
    /\ \A y \in DOMAIN g : y \in DOMAIN h /\ g[y] = h[y]

LEMMA Removed ==
    ASSUME NEW h, IsHeap(h), NEW xs
    PROVE  IsWithout(Without(h, xs), h, xs)
  BY DEF Without, IsHeap, IsWithout

Popped(h, e, g, e2) ==
    /\ g = Without(h, {e.head})
    /\ e2 = IF h[e.head].next = Nil THEN Cut ELSE [e EXCEPT !.head = h[e.head].next]

LEMMA LinkedPop ==
    ASSUME NEW h, IsHeap(h), NEW e \in EndRecords, NEW w, Linked("queue", h, e, w), w # <<>>,
           NEW g, NEW e2, Popped(h, e, g, e2)
    PROVE  /\ IsHeap(g) /\ e2 \in EndRecords /\ Linked("queue", g, e2, AfterHead(w))
           /\ Drops(Elements, Elems(g, AfterHead(w)), Elems(h, w))
           /\ h[e.head].elem = Elems(h, w)[1]
           /\ ToSet(AfterHead(w)) = ToSet(w) \ {e.head} /\ e.head \in ToSet(w)
<1>1. w \in Seq(Cells) /\ Len(w) \in Nat /\ 1 \in 1..Len(w) /\ Len(w) \in 1..Len(w)
  BY DEF Linked
<1>2. e.head = w[1] /\ e.tail = w[Len(w)]
  BY DEF Linked
<1>3. /\ IsHeap(g) /\ DOMAIN g = DOMAIN h \ {w[1]}
      /\ \A y \in DOMAIN g : y \in DOMAIN h /\ g[y] = h[y]
  <2>1. g = Without(h, {w[1]})
    BY <1>2 DEF Popped
  <2>2. IsWithout(g, h, {w[1]})
    BY <2>1, Removed
  <2> QED
    BY <2>2 DEF IsWithout
<1>4. PICK t : t = AfterHead(w) /\ Drops(Cells, t, w)
  BY <1>1, TailAt
<1>5. t \in Seq(Cells) /\ Len(t) = Len(w) - 1 /\ \A i \in 1..Len(t) : t[i] = w[i + 1] /\ i + 1 \in 1..Len(w)
  BY <1>1, <1>4 DEF Drops
<1>6. \A i, j \in 1..Len(w) : w[i] = w[j] => i = j
  BY DEF Linked
<1>7. \A i \in 1..Len(w) : /\ w[i] \in DOMAIN h /\ w[i] # Nil
                           /\ h[w[i]].next = IF i = Len(w) THEN Nil ELSE w[i + 1]
  <2>1. \A i \in 1..Len(w) : w[i] \in DOMAIN h /\ w[i] \in Cells /\ w[i] # Nil
    BY ElemsType
  <2>2. \A i \in 1..Len(w) : h[w[i]].next = IF i = Len(w) THEN Nil ELSE w[i + 1]
    BY DEF Linked
  <2> QED
    BY <2>1, <2>2
<1>8. ToSet(t) = ToSet(w) \ {w[1]} /\ w[1] \in ToSet(w)
  <2>1. DOMAIN t = 1..Len(t) /\ DOMAIN w = 1..Len(w)
    BY <1>1, <1>5
  <2>2. \A i \in 1..Len(t) : w[i + 1] # w[1]
    BY <1>1, <1>5, <1>6
  <2>3. \A i \in 1..Len(w) : i # 1 => i - 1 \in 1..Len(t) /\ t[i - 1] = w[i]
    BY <1>1, <1>5
  <2>4. ASSUME NEW y \in ToSet(t) PROVE y \in ToSet(w) \ {w[1]}
    BY <1>5, <2>1, <2>2 DEF ToSet
  <2>5. ASSUME NEW y \in ToSet(w), y # w[1] PROVE y \in ToSet(t)
    BY <2>1, <2>3, <2>5 DEF ToSet
  <2> QED
    BY <1>1, <2>1, <2>4, <2>5 DEF ToSet
<1>9. \A i \in 1..Len(t) : t[i] \in DOMAIN g /\ g[t[i]] = h[w[i + 1]]
  BY <1>1, <1>3, <1>5, <1>6, <1>7
<1>10. h[w[1]].next = Nil <=> t = <<>>
  <2>1. t = <<>> <=> Len(w) = 1
    <3>1. t = <<>> <=> Len(t) = 0
      BY <1>5
    <3>2. Len(t) = Len(w) - 1 /\ Len(w) \in Nat
      BY <1>1, <1>5
    <3>3. Len(t) = 0 <=> Len(w) = 1
      BY <3>2
    <3> QED
      BY <3>1, <3>3, Zenon
  <2>2. Len(w) # 1 => 2 \in 1..Len(w)
    <3>1. PICK n \in Nat : n = Len(w) /\ 1 \in 1..n
      BY <1>1
    <3>2. n # 1 => 2 \in 1..n
      BY <3>1
    <3> QED
      BY <3>1, <3>2
  <2> QED
    BY <1>1, <1>7, <2>1, <2>2
<1>11. e2 \in EndRecords /\ IF t = <<>> THEN e2 = Cut ELSE e2.head = t[1] /\ e2.tail = t[Len(t)]
  <2>1. CASE t = <<>>
    BY <1>2, <1>10, <2>1, ChainsAssumption DEF Popped, Cut, EndRecords, CellOrNil, Nil
  <2>2. CASE t # <<>>
    <3>1. h[w[1]].next = t[1] /\ 1 \in 1..Len(t) /\ Len(t) \in 1..Len(t)
      BY <1>1, <1>5, <1>7, <2>2
    <3>2. e2 = [e EXCEPT !.head = t[1]]
      BY <1>2, <1>10, <2>2, <3>1 DEF Popped
    <3>3. t[1] \in CellOrNil
      BY <1>5, <3>1 DEF CellOrNil
    <3>4. e2 \in EndRecords /\ e2.head = t[1] /\ e2.tail = e.tail
      BY <3>2, <3>3 DEF EndRecords
    <3>5. t[Len(t)] = w[Len(w)]
      BY <1>1, <1>5, <3>1
    <3> QED
      BY <1>2, <2>2, <3>4, <3>5
  <2> QED
    BY <2>1, <2>2
<1>12. Linked("queue", g, e2, t)
  <2>1. ToSet(t) \subseteq DOMAIN g
    BY <1>3, <1>8 DEF Linked
  <2>2. \A i, j \in 1..Len(t) : t[i] = t[j] => i = j
    <3>1. \A i, j \in 1..Len(t) : t[i] = t[j] => i + 1 = j + 1
      BY <1>5, <1>6
    <3> QED
      BY <1>5, <3>1
  <2>3. ASSUME NEW i \in 1..Len(t) PROVE g[t[i]].next = IF i = Len(t) THEN Nil ELSE t[i + 1]
    <3>1. g[t[i]].next = IF i + 1 = Len(w) THEN Nil ELSE w[(i + 1) + 1]
      BY <1>5, <1>7, <1>9
    <3>2. i # Len(t) => i + 1 \in 1..Len(t)
      BY <1>1, <1>5
    <3> QED
      BY <1>1, <1>5, <3>1, <3>2
  <2> QED
    BY <1>5, <1>11, <2>1, <2>2, <2>3 DEF Linked
<1>13. Drops(Elements, Elems(g, t), Elems(h, w)) /\ h[w[1]].elem = Elems(h, w)[1]
  <2>1. /\ Elems(h, w) \in Seq(Elements) /\ Len(Elems(h, w)) = Len(w)
        /\ \A i \in 1..Len(w) : Elems(h, w)[i] = h[w[i]].elem
    BY ElemsType
  <2>2. /\ Elems(g, t) \in Seq(Elements) /\ Len(Elems(g, t)) = Len(t)
        /\ \A i \in 1..Len(t) : Elems(g, t)[i] = g[t[i]].elem
    BY <1>3, <1>12, ElemsType
  <2> QED
    BY <1>1, <1>5, <1>9, <2>1, <2>2 DEF Drops
<1> QED
  BY <1>2, <1>3, <1>4, <1>8, <1>11, <1>12, <1>13

(* Moving the first cell of a queue to its end. *)
Turns(S, t, w) ==
    /\ t \in Seq(S) /\ Len(t) = Len(w) /\ t[Len(w)] = w[1]
    /\ \A i \in 1..(Len(w) - 1) : t[i] = w[i + 1]

LEMMA TurnAt ==
    ASSUME NEW S, NEW w \in Seq(S), w # <<>>
    PROVE  Turns(S, AtEnd(AfterHead(w), w[1]), w)
<1>1. PICK b : b = AfterHead(w) /\ Drops(S, b, w)
  BY TailAt
<1>2. w[1] \in S /\ Len(w) \in Nat \ {0}
  OBVIOUS
<1>3. b \in Seq(S) /\ Len(b) = Len(w) - 1 /\ \A i \in 1..(Len(w) - 1) : b[i] = w[i + 1]
  BY <1>1 DEF Drops
<1>4. Follows(S, AtEnd(b, w[1]), b, w[1])
  BY <1>2, <1>3, AppendAt
<1>5. PICK t : t = AtEnd(b, w[1]) /\ Follows(S, t, b, w[1])
  BY <1>4
<1>6. Turns(S, t, w)
  BY <1>2, <1>3, <1>5 DEF Follows, Turns
<1> QED
  BY <1>1, <1>5, <1>6

LEMMA TurnsUnique ==
    ASSUME NEW S, NEW a, NEW b, NEW w \in Seq(S), Turns(S, a, w), Turns(S, b, w)
    PROVE  a = b
<1>1. a \in Seq(S) /\ b \in Seq(S) /\ Len(a) = Len(w) /\ Len(b) = Len(w) /\ Len(w) \in Nat
  BY DEF Turns
<1>2. \A i \in 1..Len(a) : i = Len(w) \/ i \in 1..(Len(w) - 1)
  BY <1>1
<1>3. \A i \in 1..Len(a) : a[i] = b[i]
  BY <1>1, <1>2 DEF Turns
<1> QED
  BY <1>1, <1>3, SeqEqual

Turned(h, e, g, e2) ==
    /\ h[e.head].next # Nil
    /\ g = [[h EXCEPT ![e.tail].next = e.head] EXCEPT ![e.head].next = Nil]
    /\ e2 = [head |-> h[e.head].next, tail |-> e.head, size |-> e.size]

LEMMA LinkedTurn ==
    ASSUME NEW h, IsHeap(h), NEW e \in EndRecords, NEW w, Linked("queue", h, e, w), w # <<>>,
           NEW g, NEW e2, Turned(h, e, g, e2)
    PROVE  /\ IsHeap(g) /\ e2 \in EndRecords /\ DOMAIN g = DOMAIN h
           /\ \E t : /\ Linked("queue", g, e2, t)
                     /\ Turns(Elements, Elems(g, t), Elems(h, w))
                     /\ ToSet(t) = ToSet(w)
           /\ \A y \in DOMAIN h \ ToSet(w) : g[y] = h[y]
<1>1. w \in Seq(Cells) /\ Len(w) \in Nat /\ 1 \in 1..Len(w) /\ Len(w) \in 1..Len(w)
  BY DEF Linked
<1>2. e.head = w[1] /\ e.tail = w[Len(w)]
  BY DEF Linked
<1>3. \A i, j \in 1..Len(w) : w[i] = w[j] => i = j
  BY DEF Linked
<1>4. \A i \in 1..Len(w) : /\ w[i] \in DOMAIN h /\ w[i] \in Cells /\ w[i] # Nil
                           /\ h[w[i]].next = IF i = Len(w) THEN Nil ELSE w[i + 1]
  <2>1. \A i \in 1..Len(w) : w[i] \in DOMAIN h /\ w[i] \in Cells /\ w[i] # Nil
    BY ElemsType
  <2>2. \A i \in 1..Len(w) : h[w[i]].next = IF i = Len(w) THEN Nil ELSE w[i + 1]
    BY DEF Linked
  <2> QED
    BY <2>1, <2>2
<1>0. h[e.head].next # Nil
  BY DEF Turned
<1>5. Len(w) # 1 /\ 2 \in 1..Len(w) /\ h[w[1]].next = w[2] /\ w[1] # w[Len(w)]
  BY <1>1, <1>2, <1>3, <1>4, <1>0
<1>6. \A y \in DOMAIN h : h[y] \in CellRecords
  BY DEF IsHeap
<1> DEFINE k == [h EXCEPT ![e.tail].next = e.head]
<1>7. /\ DOMAIN k = DOMAIN h /\ k = [y \in DOMAIN h |-> k[y]]
      /\ \A y \in DOMAIN h : k[y] = IF y = e.tail THEN [h[y] EXCEPT !.next = e.head] ELSE h[y]
  OBVIOUS
<1>8. g = [k EXCEPT ![e.head].next = Nil]
  BY DEF Turned
<1> HIDE DEF k
<1>9. /\ DOMAIN g = DOMAIN h /\ g = [y \in DOMAIN h |-> g[y]]
      /\ \A y \in DOMAIN h : g[y] = IF y = e.head THEN [k[y] EXCEPT !.next = Nil] ELSE k[y]
  BY <1>7, <1>8
<1>10. ASSUME NEW y \in DOMAIN h
       PROVE  g[y] = [elem |-> h[y].elem,
                      next |-> IF y = w[1] THEN Nil ELSE IF y = w[Len(w)] THEN w[1] ELSE h[y].next,
                      prev |-> h[y].prev]
  <2>0. h[y] \in CellRecords /\ h[y] = [elem |-> h[y].elem, next |-> h[y].next, prev |-> h[y].prev]
    BY <1>6, CellFields
  <2>1. CASE y = w[1]
    <3>1. k[y] = h[y]
      BY <1>2, <1>5, <1>7, <2>1
    <3>2. [h[y] EXCEPT !.next = Nil] = [elem |-> h[y].elem, next |-> Nil, prev |-> h[y].prev]
      BY <2>0, CellUpdate
    <3> QED
      BY <1>2, <1>9, <2>1, <3>1, <3>2
  <2>2. CASE y # w[1] /\ y = w[Len(w)]
    <3>1. [h[y] EXCEPT !.next = w[1]] = [elem |-> h[y].elem, next |-> w[1], prev |-> h[y].prev]
      BY <2>0, CellUpdate
    <3> QED
      BY <1>2, <1>7, <1>9, <2>2, <3>1
  <2>3. CASE y # w[1] /\ y # w[Len(w)]
    BY <1>2, <1>7, <1>9, <2>0, <2>3
  <2> QED
    BY <2>1, <2>2, <2>3
<1> DEFINE onward(y) == IF y = w[1] THEN Nil ELSE IF y = w[Len(w)] THEN w[1] ELSE h[y].next
<1>22. ASSUME NEW y \in DOMAIN h
       PROVE  g[y].elem = h[y].elem /\ g[y].next = onward(y) /\ g[y].prev = h[y].prev
  <2>1. g[y] = [elem |-> h[y].elem, next |-> onward(y), prev |-> h[y].prev]
    BY <1>10
  <2> HIDE DEF onward
  <2> QED
    BY <2>1
<1>11. IsHeap(g)
  <2>1. ASSUME NEW y \in DOMAIN h PROVE g[y] \in CellRecords
    <3>1. h[y].elem \in Elements /\ h[y].next \in CellOrNil /\ h[y].prev \in CellOrNil
      BY CellFields
    <3>2. Nil \in CellOrNil /\ w[1] \in CellOrNil
      BY <1>1, <1>4 DEF CellOrNil
    <3>3. onward(y) \in CellOrNil
      BY <3>1, <3>2
    <3>4. g[y] = [elem |-> h[y].elem, next |-> onward(y), prev |-> h[y].prev]
      BY <1>10
    <3> HIDE DEF onward
    <3> QED
      BY <3>1, <3>3, <3>4 DEF CellRecords
  <2>2. g \in [DOMAIN g -> CellRecords]
    BY <1>9, <2>1
  <2> QED
    BY <1>9, <2>2 DEF IsHeap
<1>12. e2 \in EndRecords
  BY <1>1, <1>2, <1>4, <1>5 DEF Turned, EndRecords, CellOrNil
<1>13. PICK t : Turns(Cells, t, w)
  BY <1>1, TurnAt
<1>14. /\ t \in Seq(Cells) /\ Len(t) = Len(w) /\ t[Len(w)] = w[1]
       /\ \A i \in 1..(Len(w) - 1) : t[i] = w[i + 1] /\ i + 1 \in 1..Len(w)
       /\ \A i \in 1..Len(t) : i = Len(w) \/ i \in 1..(Len(w) - 1)
  BY <1>1, <1>13 DEF Turns
<1>15. ToSet(t) = ToSet(w)
  <2>1. DOMAIN t = 1..Len(w) /\ DOMAIN w = 1..Len(w)
    BY <1>1, <1>14
  <2>2. \A i \in 1..Len(w) : i # 1 => t[i - 1] = w[i] /\ i - 1 \in 1..Len(w)
    <3> SUFFICES ASSUME NEW i \in 1..Len(w), i # 1
                 PROVE  t[i - 1] = w[i] /\ i - 1 \in 1..Len(w)
      OBVIOUS
    <3>1. i - 1 \in 1..(Len(w) - 1) /\ (i - 1) + 1 = i /\ i - 1 \in 1..Len(w)
      BY <1>1
    <3>2. t[i - 1] = w[(i - 1) + 1]
      BY <1>14, <3>1
    <3> QED
      BY <3>1, <3>2
  <2>3. ASSUME NEW y \in ToSet(t) PROVE y \in ToSet(w)
    <3>1. PICK i \in 1..Len(w) : y = t[i]
      BY <2>1 DEF ToSet
    <3>2. i = Len(w) \/ i \in 1..(Len(w) - 1)
      BY <1>1
    <3>3. \E j \in 1..Len(w) : y = w[j]
      BY <1>1, <1>14, <3>1, <3>2
    <3> QED
      BY <2>1, <3>3 DEF ToSet
  <2>4. ASSUME NEW y \in ToSet(w) PROVE y \in ToSet(t)
    <3>1. PICK i \in 1..Len(w) : y = w[i]
      BY <2>1 DEF ToSet
    <3>2. \E j \in 1..Len(w) : y = t[j]
      BY <1>1, <1>14, <2>2, <3>1
    <3> QED
      BY <2>1, <3>2 DEF ToSet
  <2> QED
    BY <2>3, <2>4
<1>16. ASSUME NEW i \in 1..Len(t) PROVE g[t[i]].next = IF i = Len(t) THEN Nil ELSE t[i + 1]
  <2>1. CASE i = Len(w)
    <3>1. t[i] = w[1] /\ w[1] \in DOMAIN h /\ i = Len(t)
      BY <1>1, <1>4, <1>14, <2>1
    <3> QED
      BY <1>22, <3>1
  <2>2. CASE i \in 1..(Len(w) - 1)
    <3>1. t[i] = w[i + 1] /\ w[i + 1] # w[1] /\ w[i + 1] \in DOMAIN h /\ i # Len(t)
      BY <1>1, <1>3, <1>4, <1>14, <2>2
    <3>2. g[t[i]].next = IF w[i + 1] = w[Len(w)] THEN w[1] ELSE h[w[i + 1]].next
      BY <1>22, <3>1
    <3>3. CASE i + 1 = Len(w)
      BY <1>14, <3>1, <3>2, <3>3
    <3>4. CASE i + 1 # Len(w)
      <4>1. i + 1 \in 1..(Len(w) - 1) /\ w[i + 1] # w[Len(w)]
        BY <1>1, <1>3, <2>2, <3>4
      <4>2. h[w[i + 1]].next = w[(i + 1) + 1] /\ t[i + 1] = w[(i + 1) + 1]
        BY <1>1, <1>4, <1>14, <3>4, <4>1
      <4> QED
        BY <3>1, <3>2, <4>1, <4>2
    <3> QED
      BY <3>3, <3>4
  <2> QED
    BY <1>14, <2>1, <2>2
<1>17. \A i, j \in 1..Len(t) : t[i] = t[j] => i = j
  <2> SUFFICES ASSUME NEW i \in 1..Len(t), NEW j \in 1..Len(t), t[i] = t[j] PROVE i = j
    OBVIOUS
  <2>1. (i = Len(w) \/ i \in 1..(Len(w) - 1)) /\ (j = Len(w) \/ j \in 1..(Len(w) - 1))
    BY <1>14
  <2>2. \A m \in 1..(Len(w) - 1) : t[m] # w[1]
    BY <1>1, <1>3, <1>14
  <2>3. ASSUME i \in 1..(Len(w) - 1), j \in 1..(Len(w) - 1) PROVE i = j
    <3>1. i + 1 = j + 1
      BY <1>3, <1>14, <2>3
    <3> QED
      BY <3>1
  <2> QED
    BY <1>14, <2>1, <2>2, <2>3
<1>18. t # <<>> /\ e2.head = t[1] /\ e2.tail = t[Len(t)]
  <2>1. 1 \in 1..(Len(w) - 1)
    BY <1>1, <1>5
  <2>2. t[1] = w[1 + 1]
    BY <1>14, <2>1
  <2>3. e2.head = w[2] /\ e2.tail = w[1]
    BY <1>2, <1>5 DEF Turned
  <2>4. t # <<>>
    BY <1>1, <1>14
  <2> QED
    BY <1>14, <2>2, <2>3, <2>4
<1>19. Linked("queue", g, e2, t)
  <2>1. ToSet(t) \subseteq DOMAIN g
    BY <1>9, <1>15 DEF Linked
  <2> QED
    BY <1>14, <1>16, <1>17, <1>18, <2>1 DEF Linked
<1>20. Turns(Elements, Elems(g, t), Elems(h, w))
  <2>1. /\ Elems(h, w) \in Seq(Elements) /\ Len(Elems(h, w)) = Len(w)
        /\ \A i \in 1..Len(w) : Elems(h, w)[i] = h[w[i]].elem
    BY ElemsType
  <2>2. /\ Elems(g, t) \in Seq(Elements) /\ Len(Elems(g, t)) = Len(t)
        /\ \A i \in 1..Len(t) : Elems(g, t)[i] = g[t[i]].elem
    BY <1>11, <1>19, ElemsType
  <2>3. PICK a \in Seq(Elements) :
           a = Elems(h, w) /\ Len(a) = Len(w) /\ \A i \in 1..Len(w) : a[i] = h[w[i]].elem
    BY <2>1
  <2>4. PICK b \in Seq(Elements) :
           b = Elems(g, t) /\ Len(b) = Len(t) /\ \A i \in 1..Len(t) : b[i] = g[t[i]].elem
    BY <2>2
  <2>5. \A i \in 1..Len(t) : b[i] = h[t[i]].elem
    <3>1. \A i \in 1..Len(t) : t[i] \in DOMAIN h
      BY <1>4, <1>1, <1>14
    <3> QED
      BY <1>22, <2>4, <3>1
  <2>6. b[Len(w)] = a[1]
    BY <1>1, <1>14, <2>3, <2>5
  <2>7. \A i \in 1..(Len(w) - 1) : b[i] = a[i + 1]
    BY <1>1, <1>14, <2>3, <2>5
  <2>8. Turns(Elements, b, a)
    BY <1>14, <2>3, <2>4, <2>6, <2>7 DEF Turns
  <2> QED
    BY <2>3, <2>4, <2>8
<1>21. ASSUME NEW y \in DOMAIN h \ ToSet(w) PROVE g[y] = h[y]
  <2>1. w[1] \in ToSet(w) /\ w[Len(w)] \in ToSet(w)
    BY <1>1 DEF ToSet
  <2>2. g[y] = [elem |-> h[y].elem, next |-> h[y].next, prev |-> h[y].prev]
    BY <1>10, <2>1
  <2> QED
    BY <2>2, CellFields
<1> QED
  BY <1>9, <1>11, <1>12, <1>15, <1>19, <1>20, <1>21
-----------------------------------------------------------------------------
(* One container changes, the other keeps its cells. *)
LEMMA PairUpdate ==
    ASSUME NEW s, NEW h, NEW ens, NEW q \in Chained, NEW u, NEW v,
           Pair(s, h, ens, q, Other(q), u, v),
           NEW g, IsHeap(g), NEW e2 \in EndRecords, NEW t, Linked(s, g, e2, t),
           \A y \in ToSet(v) : y \in DOMAIN g /\ g[y] = h[y],
           DOMAIN g = ToSet(t) \cup ToSet(v), ToSet(t) \cap ToSet(v) = {},
           NEW ens2, Replaced(ens2, ens, q, e2)
    PROVE  Pair(s, g, ens2, q, Other(q), t, v) /\ Elems(g, v) = Elems(h, v)
<1>0. ens \in [Chained -> EndRecords] /\ Linked(s, h, ens[Other(q)], v)
  BY DEF Pair
<1>1. Other(q) \in Chained /\ Other(q) # q
  BY Two
<1>2. ens2 \in [Chained -> EndRecords] /\ ens2[q] = e2 /\ ens2[Other(q)] = ens[Other(q)]
  BY <1>0, <1>1 DEF Replaced
<1>3. Linked(s, g, ens[Other(q)], v) /\ Elems(g, v) = Elems(h, v)
  BY <1>0, LinkedKept
<1> QED
  BY <1>2, <1>3 DEF Pair

LEMMA PairPop ==
    ASSUME NEW h, NEW ens, NEW q \in Chained, NEW u, NEW v,
           Pair("queue", h, ens, q, Other(q), u, v), u # <<>>,
           NEW g, NEW e2, Popped(h, ens[q], g, e2),
           NEW ens2, Replaced(ens2, ens, q, e2)
    PROVE  /\ Pair("queue", g, ens2, q, Other(q), AfterHead(u), v)
           /\ Drops(Elements, Elems(g, AfterHead(u)), Elems(h, u))
           /\ Elems(g, v) = Elems(h, v)
           /\ h[ens[q].head].elem = Elems(h, u)[1]
<1>0. /\ IsHeap(h) /\ ens[q] \in EndRecords /\ Linked("queue", h, ens[q], u)
      /\ DOMAIN h = ToSet(u) \cup ToSet(v) /\ ToSet(u) \cap ToSet(v) = {}
  BY DEF Pair
<1>1. /\ IsHeap(g) /\ e2 \in EndRecords /\ Linked("queue", g, e2, AfterHead(u))
      /\ Drops(Elements, Elems(g, AfterHead(u)), Elems(h, u))
      /\ h[ens[q].head].elem = Elems(h, u)[1]
      /\ ToSet(AfterHead(u)) = ToSet(u) \ {ens[q].head} /\ ens[q].head \in ToSet(u)
  BY <1>0, LinkedPop
<1>2. DOMAIN g = DOMAIN h \ {ens[q].head} /\ \A y \in DOMAIN g : g[y] = h[y]
  <2>1. g = Without(h, {ens[q].head})
    BY DEF Popped
  <2>2. IsWithout(g, h, {ens[q].head})
    BY <1>0, <2>1, Removed
  <2> QED
    BY <2>2 DEF IsWithout
<1>3. PICK t : t = AfterHead(u)
  OBVIOUS
<1>4. /\ DOMAIN g = ToSet(t) \cup ToSet(v) /\ ToSet(t) \cap ToSet(v) = {}
      /\ \A y \in ToSet(v) : y \in DOMAIN g /\ g[y] = h[y]
  BY <1>0, <1>1, <1>2, <1>3
<1>5. Pair("queue", g, ens2, q, Other(q), t, v) /\ Elems(g, v) = Elems(h, v)
  BY <1>1, <1>3, <1>4, PairUpdate
<1> QED
  BY <1>1, <1>3, <1>5

TurnedPair(h, g, ens2, q, u, v) ==
    \E t : /\ Pair("queue", g, ens2, q, Other(q), t, v)
           /\ Turns(Elements, Elems(g, t), Elems(h, u))
           /\ Elems(g, v) = Elems(h, v)

LEMMA PairTurn ==
    ASSUME NEW h, NEW ens, NEW q \in Chained, NEW u, NEW v,
           Pair("queue", h, ens, q, Other(q), u, v), u # <<>>,
           NEW g, NEW e2, Turned(h, ens[q], g, e2),
           NEW ens2, Replaced(ens2, ens, q, e2)
    PROVE  TurnedPair(h, g, ens2, q, u, v)
<1>0. /\ IsHeap(h) /\ ens[q] \in EndRecords /\ Linked("queue", h, ens[q], u)
      /\ DOMAIN h = ToSet(u) \cup ToSet(v) /\ ToSet(u) \cap ToSet(v) = {}
  BY DEF Pair
<1>1. /\ IsHeap(g) /\ e2 \in EndRecords /\ DOMAIN g = DOMAIN h
      /\ \E t : /\ Linked("queue", g, e2, t)
                /\ Turns(Elements, Elems(g, t), Elems(h, u))
                /\ ToSet(t) = ToSet(u)
      /\ \A y \in DOMAIN h \ ToSet(u) : g[y] = h[y]
  BY <1>0, LinkedTurn
<1>2. PICK t : /\ Linked("queue", g, e2, t)
               /\ Turns(Elements, Elems(g, t), Elems(h, u))
               /\ ToSet(t) = ToSet(u)
  BY <1>1
<1>3. Pair("queue", g, ens2, q, Other(q), t, v) /\ Elems(g, v) = Elems(h, v)
  <2>1. /\ \A y \in ToSet(v) : y \in DOMAIN g /\ g[y] = h[y]
        /\ DOMAIN g = ToSet(t) \cup ToSet(v) /\ ToSet(t) \cap ToSet(v) = {}
    BY <1>0, <1>1, <1>2
  <2> QED
    BY <1>1, <1>2, <2>1, PairUpdate
<1> QED
  BY <1>2, <1>3 DEF TurnedPair

(* Deleting the cells of a container. *)
LEMMA EmptyLinked ==
    ASSUME NEW s, NEW g
    PROVE  Linked(s, g, Cut, <<>>) /\ Cut \in EndRecords /\ ToSet(<<>>) = {}
<1>1. <<>> \in Seq(Cells) /\ Len(<<>>) = 0 /\ ToSet(<<>>) = {} /\ 1..0 = {}
  BY DEF ToSet
<1>2. Cut.size = 0 /\ Cut \in EndRecords
  BY DEF Cut, EndRecords, CellOrNil
<1> QED
  BY <1>1, <1>2 DEF Linked

LEMMA PairClear ==
    ASSUME NEW s, NEW h, NEW ens, NEW q \in Chained, NEW u, NEW v,
           Pair(s, h, ens, q, Other(q), u, v),
           NEW g, g = Without(h, ToSet(u)), NEW ens2, Replaced(ens2, ens, q, Cut)
    PROVE  Pair(s, g, ens2, q, Other(q), <<>>, v) /\ Elems(g, v) = Elems(h, v)
<1>0. /\ IsHeap(h) /\ DOMAIN h = ToSet(u) \cup ToSet(v) /\ ToSet(u) \cap ToSet(v) = {}
  BY DEF Pair
<1>1. IsHeap(g) /\ DOMAIN g = DOMAIN h \ ToSet(u) /\ \A y \in DOMAIN g : g[y] = h[y]
  <2>1. IsWithout(g, h, ToSet(u))
    BY <1>0, Removed
  <2> QED
    BY <2>1 DEF IsWithout
<1>2. PICK t : t = <<>> /\ Linked(s, g, Cut, t) /\ Cut \in EndRecords /\ ToSet(t) = {}
  BY EmptyLinked
<1>3. /\ DOMAIN g = ToSet(t) \cup ToSet(v) /\ ToSet(t) \cap ToSet(v) = {}
      /\ \A y \in ToSet(v) : y \in DOMAIN g /\ g[y] = h[y]
  BY <1>0, <1>1, <1>2
<1>4. Pair(s, g, ens2, q, Other(q), t, v) /\ Elems(g, v) = Elems(h, v)
  BY <1>1, <1>2, <1>3, PairUpdate
<1> QED
  BY <1>2, <1>4

(* One container takes the other's cells. *)
Moved(ens2, ens, q) ==
    ens2 = [[ens EXCEPT ![q] = ens[Other(q)]] EXCEPT ![Other(q)] = Cut]

LEMMA PairMove ==
    ASSUME NEW s, NEW h, NEW ens, NEW q \in Chained, NEW u, NEW v,
           Pair(s, h, ens, q, Other(q), u, v),
           NEW g, IsHeap(g), DOMAIN g = ToSet(v), \A y \in DOMAIN g : g[y] = h[y],
           NEW ens2, Moved(ens2, ens, q)
    PROVE  Pair(s, g, ens2, q, Other(q), v, <<>>) /\ Elems(g, v) = Elems(h, v)
<1>0. ens \in [Chained -> EndRecords] /\ Linked(s, h, ens[Other(q)], v)
  BY DEF Pair
<1>1. Other(q) \in Chained /\ Other(q) # q
  BY Two
<1>2. PICK t : t = <<>> /\ Linked(s, g, Cut, t) /\ Cut \in EndRecords /\ ToSet(t) = {}
  BY EmptyLinked
<1>3. ens2 \in [Chained -> EndRecords] /\ ens2[q] = ens[Other(q)] /\ ens2[Other(q)] = Cut
  BY <1>0, <1>1, <1>2 DEF Moved
<1>4. Linked(s, g, ens[Other(q)], v) /\ Elems(g, v) = Elems(h, v)
  BY <1>0, LinkedKept
<1>5. Pair(s, g, ens2, q, Other(q), v, t)
  BY <1>2, <1>3, <1>4 DEF Pair
<1> QED
  BY <1>2, <1>4, <1>5
-----------------------------------------------------------------------------
(* Putting a cell in front of a list. *)
InFront(w, x) == <<x>> \o w
Leads(S, t, w, x) ==
    /\ t \in Seq(S) /\ Len(t) = Len(w) + 1 /\ t[1] = x
    /\ \A i \in 1..Len(w) : t[i + 1] = w[i]
    /\ ToSet(t) = ToSet(w) \cup {x}

LEMMA InFrontAt ==
    ASSUME NEW S, NEW w \in Seq(S), NEW x \in S
    PROVE  Leads(S, InFront(w, x), w, x)
<1>1. PICK a \in Seq(S) : a = <<x>> /\ Len(a) = 1 /\ a[1] = x
  <2>1. <<x>> \in Seq(S) /\ Len(<<x>>) = 1 /\ <<x>>[1] = x
    OBVIOUS
  <2> QED
    BY <2>1
<1> DEFINE t == a \o w
<1>2. /\ t \in Seq(S) /\ Len(t) = Len(a) + Len(w)
      /\ \A j \in 1 .. Len(a) + Len(w) : t[j] = IF j <= Len(a) THEN a[j] ELSE w[j - Len(a)]
  BY ConcatProperties, Zenon
<1>3. InFront(w, x) = t
  BY <1>1 DEF InFront
<1> HIDE DEF t
<1>4. Len(w) \in Nat /\ DOMAIN w = 1..Len(w) /\ DOMAIN t = 1..(Len(w) + 1) /\ Len(t) = Len(w) + 1
  BY <1>1, <1>2
<1>5. t[1] = x
  BY <1>1, <1>2, <1>4
<1>6. ASSUME NEW i \in 1..Len(w) PROVE t[i + 1] = w[i]
  <2>1. i + 1 \in 1..(Len(w) + 1) /\ ~(i + 1 <= 1) /\ i + 1 - 1 = i
    BY <1>4
  <2>2. i + 1 \in 1..(Len(a) + Len(w))
    BY <1>1, <1>4, <2>1
  <2>3. t[i + 1] = w[i + 1 - Len(a)]
    BY <1>1, <1>2, <2>1, <2>2
  <2> QED
    BY <1>1, <2>1, <2>3
<1>7. ToSet(t) = ToSet(w) \cup {x}
  <2>1. \A i \in 1..(Len(w) + 1) : i = 1 \/ (i - 1 \in 1..Len(w) /\ i = (i - 1) + 1)
    BY <1>4
  <2>2. \A i \in 1..Len(w) : i + 1 \in 1..(Len(w) + 1)
    BY <1>4
  <2>3. 1 \in 1..(Len(w) + 1)
    BY <1>4
  <2>4. \A i \in 1..(Len(w) + 1) : i = 1 \/ (i - 1 \in 1..Len(w) /\ t[i] = w[i - 1])
    BY <1>6, <2>1
  <2>5. ASSUME NEW y \in ToSet(t) PROVE y \in ToSet(w) \cup {x}
    <3>1. PICK i \in 1..(Len(w) + 1) : y = t[i]
      BY <1>4 DEF ToSet
    <3>2. y = x \/ \E j \in 1..Len(w) : y = w[j]
      BY <1>5, <2>4, <3>1
    <3> QED
      BY <1>4, <3>2 DEF ToSet
  <2>6. ASSUME NEW y \in ToSet(w) PROVE y \in ToSet(t)
    <3>1. PICK i \in 1..Len(w) : y = w[i]
      BY <1>4 DEF ToSet
    <3>2. y = t[i + 1] /\ i + 1 \in DOMAIN t
      BY <1>4, <1>6, <2>2, <3>1
    <3> QED
      BY <3>2 DEF ToSet
  <2>7. x \in ToSet(t)
    BY <1>4, <1>5, <2>3 DEF ToSet
  <2> QED
    BY <2>5, <2>6, <2>7
<1> QED
  BY <1>2, <1>3, <1>4, <1>5, <1>6, <1>7 DEF Leads

LEMMA LeadsUnique ==
    ASSUME NEW S, NEW a, NEW b, NEW w \in Seq(S), NEW x, Leads(S, a, w, x), Leads(S, b, w, x)
    PROVE  a = b
<1>1. a \in Seq(S) /\ b \in Seq(S) /\ Len(a) = Len(w) + 1 /\ Len(b) = Len(w) + 1 /\ Len(w) \in Nat
  BY DEF Leads
<1>2. ASSUME NEW i \in 1..Len(a) PROVE a[i] = b[i]
  <2>1. i = 1 \/ (i - 1 \in 1..Len(w) /\ (i - 1) + 1 = i)
    BY <1>1
  <2> QED
    BY <2>1 DEF Leads
<1> QED
  BY <1>1, <1>2, SeqEqual

Prepended(h, e, el, x, g, e2) ==
    /\ DOMAIN g = DOMAIN h \cup {x}
    /\ g = [y \in DOMAIN g |-> g[y]]
    /\ g[x] = [elem |-> el, next |-> e.head, prev |-> Nil]
    /\ \A y \in DOMAIN h :
         g[y] = [elem |-> h[y].elem, next |-> h[y].next,
                 prev |-> IF e.head # Nil /\ y = e.head THEN x ELSE h[y].prev]
    /\ e2 = [head |-> x, tail |-> IF e.head = Nil THEN x ELSE e.tail, size |-> e.size + 1]

LEMMA LinkedPrepend ==
    ASSUME NEW h, IsHeap(h), NEW e \in EndRecords, NEW w, Linked("list", h, e, w),
           NEW el \in Elements, NEW x \in Cells, x \notin DOMAIN h,
           NEW g, NEW e2, Prepended(h, e, el, x, g, e2)
    PROVE  /\ IsHeap(g) /\ e2 \in EndRecords
           /\ \E t : /\ Linked("list", g, e2, t)
                     /\ Leads(Elements, Elems(g, t), Elems(h, w), el)
                     /\ ToSet(t) = ToSet(w) \cup {x}
<1>1. w \in Seq(Cells) /\ Len(w) \in Nat /\ Nil \notin Cells /\ Nil \in CellOrNil /\ x \in CellOrNil
  BY ChainsAssumption DEF Linked, Nil, CellOrNil
<1>2. /\ e.head = Nil <=> w = <<>>
      /\ e.head # Nil => e.tail \in DOMAIN h /\ e.head \in DOMAIN h
  BY EndsOf
<1>21. e.head \in CellOrNil /\ e.tail \in CellOrNil /\ e.size \in Nat
  BY DEF EndRecords
<1>22. /\ g[x].elem = el /\ g[x].next = e.head /\ g[x].prev = Nil
       /\ \A y \in DOMAIN h : /\ g[y].elem = h[y].elem /\ g[y].next = h[y].next
                              /\ g[y].prev = IF e.head # Nil /\ y = e.head THEN x ELSE h[y].prev
  BY DEF Prepended
<1>3. ASSUME NEW y \in DOMAIN g PROVE g[y] \in CellRecords
  <2>1. CASE y = x
    BY <1>1, <1>21, <2>1 DEF Prepended, CellRecords
  <2>2. CASE y \in DOMAIN h
    <3>1. h[y].elem \in Elements /\ h[y].next \in CellOrNil /\ h[y].prev \in CellOrNil
      BY <2>2, CellFields
    <3> QED
      BY <1>1, <2>2, <3>1 DEF Prepended, CellRecords
  <2> QED
    BY <2>1, <2>2 DEF Prepended
<1>4. IsHeap(g)
  <2>1. g \in [DOMAIN g -> CellRecords]
    BY <1>3 DEF Prepended
  <2> QED
    BY <2>1 DEF Prepended, IsHeap
<1>5. e2 \in EndRecords
  BY <1>1, <1>21 DEF Prepended, EndRecords
<1>6. PICK t \in Seq(Cells) :
        /\ Len(t) = Len(w) + 1 /\ t[1] = x
        /\ \A i \in 1..Len(w) : t[i + 1] = w[i]
        /\ ToSet(t) = ToSet(w) \cup {x}
  <2>1. PICK t : Leads(Cells, t, w, x)
    BY <1>1, InFrontAt
  <2> QED
    BY <2>1 DEF Leads
<1>7. \A i \in 1..Len(w) : w[i] \in DOMAIN h /\ w[i] \in Cells /\ w[i] # Nil /\ w[i] # x
  BY ElemsType
<1>8. \A i \in 1..Len(t) : i = 1 \/ (i - 1 \in 1..Len(w) /\ t[i] = w[i - 1] /\ i # 1)
  <2>1. \A i \in 1..Len(t) : i = 1 \/ (i - 1 \in 1..Len(w) /\ i = (i - 1) + 1 /\ i # 1)
    BY <1>1, <1>6
  <2> QED
    BY <1>6, <2>1
<1>9. ToSet(t) \subseteq DOMAIN g
  BY <1>6 DEF Linked, Prepended
<1>10. \A i, j \in 1..Len(t) : t[i] = t[j] => i = j
  <2>1. \A i, j \in 1..Len(w) : w[i] = w[j] => i = j
    BY DEF Linked
  <2> SUFFICES ASSUME NEW i \in 1..Len(t), NEW j \in 1..Len(t), t[i] = t[j] PROVE i = j
    OBVIOUS
  <2>2. CASE i # 1 /\ j # 1
    <3>1. i - 1 = j - 1
      BY <1>8, <2>1, <2>2
    <3> QED
      BY <3>1
  <2>3. CASE i = 1 \/ j = 1
    BY <1>6, <1>7, <1>8, <2>3
  <2> QED
    BY <2>2, <2>3
<1>11. w # <<>> => e.tail = w[Len(w)] /\ e.head = w[1] /\ Len(w) \in 1..Len(w) /\ 1 \in 1..Len(w)
  BY <1>1 DEF Linked
<1>12. ASSUME NEW i \in 1..Len(t)
       PROVE  g[t[i]].next = IF i = Len(t) THEN Nil ELSE t[i + 1]
  <2>1. CASE i = 1
    <3>1. g[t[i]].next = e.head
      BY <1>6, <1>22, <2>1
    <3>2. CASE w = <<>>
      <4>1. Len(w) = 0
        BY <3>2
      <4> QED
        BY <1>2, <1>6, <2>1, <3>1, <3>2, <4>1
    <3>3. CASE w # <<>>
      <4>1. t[1 + 1] = w[1] /\ Len(t) # 1
        BY <1>1, <1>6, <1>11, <3>3
      <4> QED
        BY <1>11, <2>1, <3>1, <3>3, <4>1
    <3> QED
      BY <3>2, <3>3
  <2>2. CASE i # 1
    <3>1. i - 1 \in 1..Len(w) /\ t[i] = w[i - 1]
      BY <1>8, <2>2
    <3>2. g[t[i]].next = h[w[i - 1]].next
      BY <1>7, <1>22, <3>1
    <3>3. h[w[i - 1]].next = IF i - 1 = Len(w) THEN Nil ELSE w[(i - 1) + 1]
      BY <3>1 DEF Linked
    <3>4. (i - 1 = Len(w) <=> i = Len(t)) /\ (i - 1) + 1 = i
      BY <1>1, <1>6
    <3>5. i # Len(t) => t[i + 1] = w[i]
      BY <1>1, <1>6
    <3> QED
      BY <3>2, <3>3, <3>4, <3>5
  <2> QED
    BY <2>1, <2>2
<1>13. e2.head = t[1] /\ e2.tail = t[Len(t)] /\ t # <<>>
  <2>1. e2.head = x /\ e2.tail = IF e.head = Nil THEN x ELSE e.tail
    BY DEF Prepended
  <2>2. w = <<>> => Len(w) = 0
    OBVIOUS
  <2>3. w # <<>> => t[Len(w) + 1] = w[Len(w)]
    BY <1>6, <1>11
  <2>4. t # <<>>
    BY <1>1, <1>6
  <2> QED
    BY <1>1, <1>2, <1>6, <1>11, <2>1, <2>2, <2>3, <2>4
<1>14. /\ e2.size = Len(t)
       /\ \A i \in 1..Len(t) : g[t[i]].prev = IF i = 1 THEN Nil ELSE t[i - 1]
  <2>1. /\ e.size = Len(w)
        /\ \A i \in 1..Len(w) : h[w[i]].prev = IF i = 1 THEN Nil ELSE w[i - 1]
    BY DEF Linked
  <2>2. e2.size = Len(t)
    BY <1>6, <2>1 DEF Prepended
  <2>3. ASSUME NEW i \in 1..Len(t) PROVE g[t[i]].prev = IF i = 1 THEN Nil ELSE t[i - 1]
    <3>1. CASE i = 1
      BY <1>6, <1>22, <3>1
    <3>2. CASE i = 2
      <4>1. 1 \in 1..Len(w) /\ t[i] = w[1] /\ i - 1 = 1 /\ i # 1
        BY <1>8, <3>2
      <4>2. e.head # Nil /\ e.head = w[1]
        BY <1>2, <1>7, <1>11, <4>1
      <4> QED
        BY <1>6, <1>7, <1>22, <4>1, <4>2
    <3>3. CASE i # 1 /\ i # 2
      <4>1. i - 1 \in 1..Len(w) /\ t[i] = w[i - 1] /\ i - 1 # 1
        BY <1>8, <3>3
      <4>2. 1 \in 1..Len(w) /\ w[i - 1] # w[1]
        BY <1>1, <4>1 DEF Linked
      <4>3. e.head = w[1]
        BY <1>11, <4>2
      <4>4. g[t[i]].prev = h[w[i - 1]].prev
        BY <1>7, <1>22, <4>1, <4>2, <4>3
      <4>5. h[w[i - 1]].prev = w[(i - 1) - 1]
        BY <2>1, <4>1
      <4>6. i - 1 \in 1..Len(t) /\ i - 1 # 1
        BY <3>3
      <4>7. t[i - 1] = w[(i - 1) - 1]
        BY <1>8, <4>6
      <4> QED
        BY <3>3, <4>4, <4>5, <4>7
    <3> QED
      BY <3>1, <3>2, <3>3
  <2> QED
    BY <2>2, <2>3
<1>15. Linked("list", g, e2, t)
  BY <1>6, <1>9, <1>10, <1>12, <1>13, <1>14 DEF Linked
<1>16. Leads(Elements, Elems(g, t), Elems(h, w), el)
  <2>1. PICK a \in Seq(Elements) : a = Elems(h, w) /\ Len(a) = Len(w) /\ \A i \in 1..Len(w) : a[i] = h[w[i]].elem
    BY ElemsType
  <2>2. PICK b \in Seq(Elements) : b = Elems(g, t) /\ Len(b) = Len(t) /\ \A i \in 1..Len(t) : b[i] = g[t[i]].elem
    BY <1>4, <1>15, ElemsType
  <2>3. PICK c : Leads(Elements, c, a, el)
    BY InFrontAt
  <2>4. c \in Seq(Elements) /\ Len(c) = Len(a) + 1 /\ c[1] = el /\ \A i \in 1..Len(a) : c[i + 1] = a[i]
    BY <2>3 DEF Leads
  <2>5. ASSUME NEW i \in 1..Len(b) PROVE b[i] = c[i]
    <3>0. i \in 1..Len(t)
      BY <2>2
    <3>1. CASE i = 1
      BY <1>6, <1>22, <2>2, <2>4, <3>0, <3>1
    <3>2. CASE i # 1
      <4>1. i - 1 \in 1..Len(w) /\ t[i] = w[i - 1] /\ (i - 1) + 1 = i
        BY <1>8, <3>0, <3>2
      <4>2. b[i] = h[w[i - 1]].elem
        BY <1>7, <1>22, <2>2, <3>0, <4>1
      <4>3. c[i] = a[i - 1]
        BY <2>1, <2>4, <4>1
      <4> QED
        BY <2>1, <4>1, <4>2, <4>3
    <3> QED
      BY <3>1, <3>2
  <2>6. b = c
    BY <1>6, <2>1, <2>2, <2>4, <2>5, SeqEqual
  <2> QED
    BY <2>1, <2>2, <2>3, <2>6
<1> QED
  BY <1>4, <1>5, <1>6, <1>15, <1>16
FrontHeap(h, e, el, x) ==
    IF e.head = Nil THEN With(h, x, NewCell(el))
    ELSE With([h EXCEPT ![e.head].prev = x], x, [NewCell(el) EXCEPT !.next = e.head])
FrontEnds(e, x) ==
    [head |-> x, tail |-> IF e.head = Nil THEN x ELSE e.tail, size |-> e.size + 1]

LEMMA PrependIs ==
    ASSUME NEW h, IsHeap(h), NEW e, e.head # Nil => e.head \in DOMAIN h,
           NEW el, NEW x, x \notin DOMAIN h
    PROVE  Prepended(h, e, el, x, FrontHeap(h, e, el, x), FrontEnds(e, x))
<1> DEFINE cell == NewCell(el)
           linked == [cell EXCEPT !.next = e.head]
           g == FrontHeap(h, e, el, x)
           e2 == FrontEnds(e, x)
<1>0. cell = [elem |-> el, next |-> Nil, prev |-> Nil]
  BY DEF NewCell
<1>3. e2 = [head |-> x, tail |-> IF e.head = Nil THEN x ELSE e.tail, size |-> e.size + 1]
  BY DEF FrontEnds
<1>1. CASE e.head = Nil
  <2>1. g = With(h, x, cell)
    BY <1>1 DEF FrontHeap
  <2>2. IsWith(g, h, x, cell)
    <3> HIDE DEF cell
    <3>1. IsWith(With(h, x, cell), h, x, cell)
      BY HeapWith
    <3> HIDE DEF g
    <3> QED
      BY <2>1, <3>1
  <2> HIDE DEF g, e2, cell
  <2>3. /\ DOMAIN g = DOMAIN h \cup {x} /\ g = [y \in DOMAIN g |-> g[y]]
        /\ g[x] = cell /\ \A y \in DOMAIN h : g[y] = h[y]
    BY <2>2 DEF IsWith
  <2>4. \A y \in DOMAIN h : g[y] = [elem |-> h[y].elem, next |-> h[y].next, prev |-> h[y].prev]
    BY <2>3, CellFields
  <2>5. Prepended(h, e, el, x, g, e2)
    BY <1>0, <1>1, <1>3, <2>3, <2>4 DEF Prepended
  <2> QED
    BY <2>5 DEF g, e2
<1>2. CASE e.head # Nil
  <2> DEFINE k == [h EXCEPT ![e.head].prev = x]
  <2>1. g = With(k, x, linked)
    BY <1>2 DEF FrontHeap
  <2>2. DOMAIN k = DOMAIN h
    OBVIOUS
  <2>3. \A y \in DOMAIN h : k[y] = IF y = e.head THEN [h[e.head] EXCEPT !.prev = x] ELSE h[y]
    BY <1>2
  <2>6. linked = [elem |-> el, next |-> e.head, prev |-> Nil]
    BY <1>0
  <2> HIDE DEF k, linked
  <2>4. ASSUME NEW y \in DOMAIN h
        PROVE  k[y] = [elem |-> h[y].elem, next |-> h[y].next,
                       prev |-> IF e.head # Nil /\ y = e.head THEN x ELSE h[y].prev]
    <3>1. h[y] \in CellRecords
      BY DEF IsHeap
    <3>2. CASE y = e.head
      <4>1. [h[y] EXCEPT !.prev = x] = [elem |-> h[y].elem, next |-> h[y].next, prev |-> x]
        BY <3>1, CellUpdate
      <4> QED
        BY <1>2, <2>3, <3>2, <4>1
    <3>3. CASE y # e.head
      BY <2>3, <3>3, CellFields
    <3> QED
      BY <3>2, <3>3
  <2>5. IsWith(g, k, x, linked)
    <3>1. x \notin DOMAIN k
      BY <2>2
    <3>2. IsWith(With(k, x, linked), k, x, linked)
      BY <3>1, HeapWith
    <3> HIDE DEF g
    <3> QED
      BY <2>1, <3>2
  <2> HIDE DEF g, e2
  <2>7. /\ DOMAIN g = DOMAIN k \cup {x} /\ g = [y \in DOMAIN g |-> g[y]]
        /\ g[x] = linked /\ \A y \in DOMAIN k : g[y] = k[y]
    BY <2>5 DEF IsWith
  <2>8. Prepended(h, e, el, x, g, e2)
    BY <1>2, <1>3, <2>2, <2>4, <2>6, <2>7 DEF Prepended
  <2> QED
    BY <2>8 DEF g, e2
<1> QED
  BY <1>1, <1>2

LEMMA PairPrepend ==
    ASSUME NEW h, NEW ens, NEW q \in Chained, NEW u, NEW v,
           Pair("list", h, ens, q, Other(q), u, v),
           NEW el \in Elements, NEW x \in Cells, x \notin DOMAIN h,
           NEW g, NEW e2, Prepended(h, ens[q], el, x, g, e2),
           NEW ens2, Replaced(ens2, ens, q, e2)
    PROVE  \E t : /\ Pair("list", g, ens2, q, Other(q), t, v)
                  /\ Leads(Elements, Elems(g, t), Elems(h, u), el)
                  /\ Elems(g, v) = Elems(h, v)
<1>0. /\ IsHeap(h) /\ ens[q] \in EndRecords /\ Linked("list", h, ens[q], u)
      /\ DOMAIN h = ToSet(u) \cup ToSet(v) /\ ToSet(u) \cap ToSet(v) = {}
  BY DEF Pair
<1>1. /\ IsHeap(g) /\ e2 \in EndRecords
      /\ \E t : /\ Linked("list", g, e2, t)
                /\ Leads(Elements, Elems(g, t), Elems(h, u), el)
                /\ ToSet(t) = ToSet(u) \cup {x}
  BY <1>0, LinkedPrepend
<1>2. PICK t : /\ Linked("list", g, e2, t)
               /\ Leads(Elements, Elems(g, t), Elems(h, u), el)
               /\ ToSet(t) = ToSet(u) \cup {x}
  BY <1>1
<1>3. \A y \in ToSet(v) : y \in DOMAIN g /\ g[y] = h[y]
  <2>1. ens[q].head # Nil => ens[q].head \in ToSet(u)
    BY <1>0, EndsOf
  <2>2. ASSUME NEW y \in ToSet(v) PROVE g[y] = h[y]
    <3>1. y \in DOMAIN h /\ ~(ens[q].head # Nil /\ y = ens[q].head)
      BY <1>0, <2>1
    <3>2. g[y] = [elem |-> h[y].elem, next |-> h[y].next, prev |-> h[y].prev]
      BY <3>1 DEF Prepended
    <3> QED
      BY <1>0, <3>1, <3>2, CellFields
  <2> QED
    BY <1>0, <2>2 DEF Prepended
<1>4. DOMAIN g = ToSet(t) \cup ToSet(v) /\ ToSet(t) \cap ToSet(v) = {}
  BY <1>0, <1>2 DEF Prepended
<1>5. Pair("list", g, ens2, q, Other(q), t, v) /\ Elems(g, v) = Elems(h, v)
  BY <1>1, <1>2, <1>3, <1>4, PairUpdate
<1> QED
  BY <1>2, <1>5
-----------------------------------------------------------------------------
(* Copying a queue, cell by cell. *)
CopyStep(h, xs, k, r) ==
    IF k = 0 THEN [heap |-> h, ends |-> Cut]
    ELSE Append0(r.heap, r.ends, heap[xs[k]].elem, Fresh(r.heap))
Copying(h, xs, N, f) == f = [k \in 0..N |-> CopyStep(h, xs, k, f[k - 1])]

LEMMA CopyingExists ==
    ASSUME NEW h, NEW xs, NEW N \in Nat
    PROVE  \E f : Copying(h, xs, N, f)
<1> DEFINE G == {n \in 1..(N + 1) : \E f : Copying(h, xs, n - 1, f)}
<1>1. ASSUME NEW n \in 1..(N + 1), n = 1 \/ n - 1 \in G PROVE n \in G
  <2>1. CASE n = 1
    <3> DEFINE f == [k \in 0..0 |-> CopyStep(h, xs, 0, 0)]
    <3>1. \A g1, g2 : CopyStep(h, xs, 0, g1) = CopyStep(h, xs, 0, g2)
      BY DEF CopyStep
    <3>2. f = [k \in 0..0 |-> CopyStep(h, xs, k, f[k - 1])]
      <4> HIDE DEF f
      <4>1. f = [k \in 0..0 |-> CopyStep(h, xs, 0, 0)]
        BY DEF f
      <4>2. ASSUME NEW k \in 0..0 PROVE f[k] = CopyStep(h, xs, k, f[k - 1])
        <5>1. k = 0
          OBVIOUS
        <5>2. f[0] = CopyStep(h, xs, 0, 0)
          BY <4>1
        <5> QED
          BY <5>1, <5>2, <3>1
      <4>3. f = [k \in 0..0 |-> f[k]]
        BY <4>1
      <4> QED
        BY <4>2, <4>3
    <3>3. Copying(h, xs, 0, f)
      BY <3>2 DEF Copying
    <3> HIDE DEF f
    <3> QED
      BY <2>1, <3>3
  <2>2. CASE n # 1
    <3>1. n - 1 \in 1..(N + 1) /\ n - 1 \in Nat /\ n - 2 \in Nat /\ (n - 1) - 1 = n - 2
      BY <2>2
    <3>2. PICK g : Copying(h, xs, n - 2, g)
      BY <1>1, <2>2, <3>1
    <3> DEFINE f == [k \in 0..(n - 1) |-> IF k = n - 1 THEN CopyStep(h, xs, k, g[n - 2]) ELSE g[k]]
    <3>3. ASSUME NEW k \in 0..(n - 1) PROVE f[k] = CopyStep(h, xs, k, f[k - 1])
      <4>1. CASE k = n - 1
        <5>1. k - 1 = n - 2 /\ k - 1 \in 0..(n - 1) /\ k - 1 # n - 1
          BY <3>1, <4>1
        <5>2. f[k - 1] = g[n - 2]
          BY <5>1
        <5>3. f[k] = CopyStep(h, xs, k, g[n - 2])
          BY <4>1
        <5> QED
          BY <5>2, <5>3
      <4>2. CASE k # n - 1
        <5>1. k \in 0..(n - 2)
          BY <3>1, <4>2
        <5>2. g[k] = CopyStep(h, xs, k, g[k - 1])
          BY <3>2, <5>1 DEF Copying
        <5>3. f[k] = g[k]
          BY <4>2
        <5>4. CASE k = 0
          <6>1. \A g1, g2 : CopyStep(h, xs, 0, g1) = CopyStep(h, xs, 0, g2)
            BY DEF CopyStep
          <6> HIDE DEF f
          <6> QED
            BY <5>2, <5>3, <5>4, <6>1
        <5>5. CASE k # 0
          <6>1. k - 1 \in 0..(n - 1) /\ k - 1 # n - 1
            BY <3>1, <4>2, <5>5
          <6>2. f[k - 1] = g[k - 1]
            BY <6>1
          <6> HIDE DEF f
          <6> QED
            BY <5>2, <5>3, <6>2
        <5> QED
          BY <5>4, <5>5
      <4> QED
        BY <4>1, <4>2
    <3>4. f = [k \in 0..(n - 1) |-> f[k]]
      OBVIOUS
    <3> HIDE DEF f
    <3>5. f = [k \in 0..(n - 1) |-> CopyStep(h, xs, k, f[k - 1])]
      BY <3>3, <3>4
    <3>6. Copying(h, xs, n - 1, f)
      BY <3>5 DEF Copying
    <3> QED
      BY <3>6
  <2> QED
    BY <2>1, <2>2
<1>2. \A n \in 1..(N + 1) : n \in G
  <2> HIDE DEF G
  <2>1. N + 1 \in Nat
    OBVIOUS
  <2> QED
    BY <1>1, <2>1, Induction
<1>3. N + 1 \in 1..(N + 1) /\ (N + 1) - 1 = N
  OBVIOUS
<1> QED
  BY <1>2, <1>3

LEMMA CopiedFrom ==
    ASSUME NEW h, NEW xs, Len(xs) \in Nat
    PROVE  \E f : Copying(h, xs, Len(xs), f) /\ CopyOf(h, xs) = f[Len(xs)]
<1> DEFINE f == CHOOSE g : Copying(h, xs, Len(xs), g)
<1>1. Copying(h, xs, Len(xs), f)
  BY CopyingExists
<1>2. CopyOf(h, xs) = f[Len(xs)]
  BY DEF CopyOf, Copying, CopyStep
<1> QED
  BY <1>1, <1>2

LEMMA FreshCell ==
    ASSUME NEW h, DOMAIN h \subseteq Cells, Cardinality(DOMAIN h) < Cardinality(Cells)
    PROVE  Fresh(h) \in Cells /\ Fresh(h) \notin DOMAIN h
<1>1. \E x \in Cells : x \notin DOMAIN h
  <2> SUFFICES ASSUME ~\E x \in Cells : x \notin DOMAIN h PROVE FALSE
    OBVIOUS
  <2>1. DOMAIN h = Cells
    OBVIOUS
  <2> QED
    BY <2>1, CellCount
<1> QED
  BY <1>1 DEF Fresh

LEMMA OneMore ==
    ASSUME NEW D, D \subseteq Cells, NEW x, x \notin D
    PROVE  Cardinality(D \cup {x}) = Cardinality(D) + 1 /\ Cardinality(D) \in Nat
  BY ChainsAssumption, FS_Subset, FS_AddElement, FS_CardinalityType

Ends2(ens, q, e) == [ens EXCEPT ![q] = e]

(* After k of its cells, the copy has the first k elements of the original. *)
CopiedTo(ens, q, v, c, k, r) ==
    \E t : /\ Pair("queue", r.heap, Ends2(ens, q, r.ends), q, Other(q), t, v)
           /\ Len(t) = k
           /\ \A i \in 1..k : r.heap[t[i]].elem = heap[v[i]].elem
           /\ Elems(r.heap, v) = Elems(heap, v)
           /\ Cardinality(DOMAIN r.heap) = c + k

LEMMA AppendedElems ==
    ASSUME NEW s, NEW h, NEW e, NEW el, NEW x, NEW g, NEW e2, Appended(s, h, e, el, x, g, e2)
    PROVE  \A y \in DOMAIN h : g[y].elem = h[y].elem
  BY DEF Appended

LEMMA CopyGrows ==
    ASSUME shape = "queue", NEW ens \in [Chained -> EndRecords], NEW q \in Chained,
           NEW v \in Seq(Cells), NEW c \in Nat, c + Len(v) <= Cardinality(Cells),
           \A i \in 1..Len(v) : heap[v[i]].elem \in Elements,
           NEW r, NEW k \in Nat, k + 1 <= Len(v), CopiedTo(ens, q, v, c, k, r),
           NEW h
    PROVE  CopiedTo(ens, q, v, c, k + 1, CopyStep(h, v, k + 1, r))
<1> DEFINE x == Fresh(r.heap)
           el == heap[v[k + 1]].elem
           r2 == Append0(r.heap, r.ends, el, x)
<1>1. PICK t : /\ Pair("queue", r.heap, Ends2(ens, q, r.ends), q, Other(q), t, v)
               /\ Len(t) = k
               /\ \A i \in 1..k : r.heap[t[i]].elem = heap[v[i]].elem
               /\ Elems(r.heap, v) = Elems(heap, v)
               /\ Cardinality(DOMAIN r.heap) = c + k
  BY DEF CopiedTo
<1>2. k + 1 # 0 /\ k + 1 \in 1..Len(v) /\ Len(v) \in Nat /\ (k + 1) - 1 = k
  OBVIOUS
<1>3. CopyStep(h, v, k + 1, r) = r2
  BY <1>2 DEF CopyStep
<1>4. el \in Elements
  BY <1>2
<1>5. Ends2(ens, q, r.ends)[q] = r.ends
  BY DEF Ends2
<1>6. /\ IsHeap(r.heap) /\ r.ends \in EndRecords /\ Linked("queue", r.heap, r.ends, t)
      /\ DOMAIN r.heap \subseteq Cells /\ t \in Seq(Cells)
  BY <1>1, <1>5 DEF Pair, IsHeap, Linked
<1>7. x \in Cells /\ x \notin DOMAIN r.heap
  BY <1>1, <1>2, <1>6, CellCount, FreshCell
<1> HIDE DEF x, el
<1>8. Appended("queue", r.heap, r.ends, el, x, r2.heap, r2.ends)
  <2>1. r.ends.head # Nil => r.ends.tail \in DOMAIN r.heap
    BY <1>6, EndsOf
  <2> QED
    BY <1>6, <1>7, <2>1, AppendIs
<1> HIDE DEF r2
<1>9. Replaced(Ends2(ens, q, r2.ends), Ends2(ens, q, r.ends), q, r2.ends)
  BY DEF Replaced, Ends2
<1>10. PICK t2 : t2 = AtEnd(t, x) /\ Follows(Cells, t2, t, x)
  BY <1>6, <1>7, AppendAt
<1>11. /\ Pair("queue", r2.heap, Ends2(ens, q, r2.ends), q, Other(q), t2, v)
       /\ Elems(r2.heap, t2) = AtEnd(Elems(r.heap, t), el)
       /\ Elems(r2.heap, v) = Elems(r.heap, v)
  BY <1>1, <1>4, <1>5, <1>7, <1>8, <1>9, <1>10, PairAppend
<1>12. Len(t2) = k + 1 /\ \A i \in 1..k : t2[i] = t[i]
  BY <1>1, <1>10 DEF Follows
<1>13. t2[k + 1] = x
  BY <1>1, <1>10 DEF Follows
<1>14. ASSUME NEW i \in 1..(k + 1) PROVE r2.heap[t2[i]].elem = heap[v[i]].elem
  <2>1. CASE i = k + 1
    <3>1. r2.heap[x].elem = el
      BY <1>8 DEF Appended
    <3> QED
      BY <1>13, <2>1, <3>1 DEF el
  <2>2. CASE i # k + 1
    <3>1. i \in 1..k /\ i \in 1..Len(t)
      BY <1>1, <2>2
    <3>2. t[i] \in DOMAIN r.heap
      BY <1>6, <3>1, ElemsType
    <3>3. r2.heap[t[i]].elem = r.heap[t[i]].elem
      BY <1>8, <3>2, AppendedElems
    <3> QED
      BY <1>1, <1>12, <3>1, <3>3
  <2> QED
    BY <2>1, <2>2
<1>15. Cardinality(DOMAIN r2.heap) = c + (k + 1)
  <2>1. DOMAIN r2.heap = DOMAIN r.heap \cup {x}
    BY <1>8 DEF Appended
  <2>2. Cardinality(DOMAIN r2.heap) = Cardinality(DOMAIN r.heap) + 1
    BY <1>6, <1>7, <2>1, OneMore
  <2> QED
    BY <1>1, <2>2
<1>16. CopiedTo(ens, q, v, c, k + 1, r2)
  BY <1>1, <1>11, <1>12, <1>14, <1>15 DEF CopiedTo
<1> QED
  BY <1>3, <1>16

LEMMA CopyAll ==
    ASSUME shape = "queue", NEW ens \in [Chained -> EndRecords], NEW q \in Chained,
           NEW h, NEW v, Pair("queue", h, Ends2(ens, q, Cut), q, Other(q), <<>>, v),
           Elems(h, v) = Elems(heap, v),
           \A i \in 1..Len(v) : heap[v[i]].elem \in Elements,
           Cardinality(DOMAIN h) + Len(v) <= Cardinality(Cells)
    PROVE  CopiedTo(ens, q, v, Cardinality(DOMAIN h), Len(v), CopyOf(h, v))
<1> DEFINE N == Len(v)
           c == Cardinality(DOMAIN h)
<1>1. v \in Seq(Cells) /\ N \in Nat /\ c \in Nat
  <2>1. v \in Seq(Cells) /\ DOMAIN h \subseteq Cells
    BY DEF Pair, Linked, IsHeap
  <2> QED
    BY <2>1, ChainsAssumption, FS_Subset, FS_CardinalityType
<1>2. PICK f : Copying(h, v, N, f) /\ CopyOf(h, v) = f[N]
  BY <1>1, CopiedFrom
<1>3. \A k \in 0..N : f[k] = CopyStep(h, v, k, f[k - 1])
  BY <1>2 DEF Copying
<1>4. f[0] = [heap |-> h, ends |-> Cut]
  BY <1>1, <1>3 DEF CopyStep
<1>5. CopiedTo(ens, q, v, c, 0, f[0])
  <2>1. PICK t : t = <<>>
    OBVIOUS
  <2>2. PICK r : r = f[0] /\ r.heap = h /\ r.ends = Cut
    BY <1>4
  <2>3. Len(t) = 0 /\ c = c + 0
    BY <1>1, <2>1
  <2>4. CopiedTo(ens, q, v, c, 0, r)
    BY <2>1, <2>2, <2>3 DEF CopiedTo
  <2> QED
    BY <2>2, <2>4
<1> DEFINE G == {n \in 1..(N + 1) : CopiedTo(ens, q, v, c, n - 1, f[n - 1])}
<1>6. ASSUME NEW n \in 1..(N + 1), n = 1 \/ n - 1 \in G PROVE n \in G
  <2>1. CASE n = 1
    BY <1>5, <2>1
  <2>2. CASE n # 1
    <3>1. PICK k \in Nat : k = n - 2 /\ k + 1 = n - 1 /\ k + 1 <= N /\ k + 1 \in 0..N
      BY <1>1, <2>2
    <3>2. n - 1 \in G /\ (n - 1) - 1 = k /\ (k + 1) - 1 = k
      BY <1>6, <2>2, <3>1
    <3>3. CopiedTo(ens, q, v, c, k, f[k])
      BY <3>2
    <3>4. f[k + 1] = CopyStep(h, v, k + 1, f[k])
      BY <1>3, <3>1, <3>2
    <3>5. CopiedTo(ens, q, v, c, k + 1, CopyStep(h, v, k + 1, f[k]))
      <4> HIDE DEF G
      <4> QED
        BY <1>1, <3>1, <3>3, CopyGrows
    <3> QED
      BY <3>1, <3>4, <3>5
  <2> QED
    BY <2>1, <2>2
<1>7. \A n \in 1..(N + 1) : n \in G
  <2> HIDE DEF G
  <2>1. N + 1 \in Nat
    BY <1>1
  <2> QED
    BY <1>6, <2>1, Induction
<1>8. N + 1 \in 1..(N + 1) /\ (N + 1) - 1 = N
  BY <1>1
<1>9. CopiedTo(ens, q, v, c, N, f[N])
  BY <1>7, <1>8
<1> QED
  BY <1>2, <1>9

LEMMA PairCopy ==
    ASSUME shape = "queue", NEW q \in Chained, NEW u, NEW v,
           Pair("queue", heap, ends, q, Other(q), u, v),
           NEW h, h = Without(heap, ToSet(u)),
           Cardinality(DOMAIN h) + Len(v) <= Cardinality(Cells),
           NEW r, r = CopyOf(h, v)
    PROVE  \E t : /\ Pair("queue", r.heap, Ends2(ends, q, r.ends), q, Other(q), t, v)
                  /\ Elems(r.heap, t) = Elems(heap, v) /\ Elems(r.heap, v) = Elems(heap, v)
<1>0. IsHeap(heap) /\ ends \in [Chained -> EndRecords] /\ Linked("queue", heap, ends[Other(q)], v)
  BY DEF Pair
<1>1. Pair("queue", h, Ends2(ends, q, Cut), q, Other(q), <<>>, v) /\ Elems(h, v) = Elems(heap, v)
  <2>1. Replaced(Ends2(ends, q, Cut), ends, q, Cut)
    BY DEF Replaced, Ends2
  <2> QED
    BY <2>1, PairClear
<1>2. PICK a \in Seq(Elements) :
        a = Elems(heap, v) /\ Len(a) = Len(v) /\ \A i \in 1..Len(v) : a[i] = heap[v[i]].elem
  BY <1>0, ElemsType
<1>3. \A i \in 1..Len(v) : heap[v[i]].elem \in Elements
  <2>1. \A i \in 1..Len(v) : a[i] \in Elements
    BY <1>2
  <2> QED
    BY <1>2, <2>1
<1>4. CopiedTo(ends, q, v, Cardinality(DOMAIN h), Len(v), r)
  BY <1>0, <1>1, <1>3, CopyAll
<1>5. PICK t : /\ Pair("queue", r.heap, Ends2(ends, q, r.ends), q, Other(q), t, v)
               /\ Len(t) = Len(v)
               /\ \A i \in 1..Len(v) : r.heap[t[i]].elem = heap[v[i]].elem
               /\ Elems(r.heap, v) = Elems(heap, v)
  BY <1>4 DEF CopiedTo
<1>6. Elems(r.heap, t) = Elems(heap, v)
  BY <1>5 DEF Elems
<1> QED
  BY <1>5, <1>6
-----------------------------------------------------------------------------
(* What a step does to the sequences. *)
LEMMA BothEdit ==
    ASSUME NEW q \in Chained, NEW X, NEW Y
    PROVE  /\ Both(q, X, Y)[q] = X /\ Both(q, X, Y)[Other(q)] = Y
           /\ \A Z : [Both(q, X, Y) EXCEPT ![q] = Z] = Both(q, Z, Y)
<1>1. Other(q) \in Chained /\ Other(q) # q /\ \A c \in Chained : c # q => c = Other(q)
  BY Two
<1> HIDE DEF Other
<1>2. Both(q, X, Y)[q] = X /\ Both(q, X, Y)[Other(q)] = Y
  BY <1>1 DEF Both
<1>3. ASSUME NEW Z PROVE [Both(q, X, Y) EXCEPT ![q] = Z] = Both(q, Z, Y)
  BY <1>1 DEF Both
<1> QED
  BY <1>2, <1>3

LEMMA BothMove ==
    ASSUME NEW q \in Chained, NEW X, NEW Y, NEW Z, NEW W
    PROVE  [Both(q, X, Y) EXCEPT ![q] = Z, ![Other(q)] = W] = Both(q, Z, W)
<1>1. Other(q) \in Chained /\ Other(q) # q /\ \A c \in Chained : c # q => c = Other(q)
  BY Two
<1> HIDE DEF Other
<1> QED
  BY <1>1 DEF Both

LEMMA StepContents ==
    ASSUME Sound, NEW q \in Chained, NEW u, NEW v, Pair(shape, heap, ends, q, Other(q), u, v),
           shape' = shape, NEW t, NEW z, Pair(shape', heap', ends', q, Other(q), t, z)
    PROVE  /\ Sound'
           /\ Contents = Both(q, Elems(heap, u), Elems(heap, v))
           /\ Contents' = Both(q, Elems(heap', t), Elems(heap', z))
<1>1. Contents = Both(q, Elems(heap, u), Elems(heap, v))
  BY PairContents DEF Contents
<1>2. Contents' = Both(q, Elems(heap', t), Elems(heap', z))
  BY PairContents DEF Contents
<1>3. \E x, y : Pair(shape', heap', ends', 1, 2, x, y)
  BY PairSound
<1>4. shape' \in {"queue", "list"}
  BY DEF Sound
<1>5. Sound'
  BY <1>3, <1>4 DEF Sound
<1> QED
  BY <1>1, <1>2, <1>5

LEMMA EmptyElems ==
    ASSUME NEW h
    PROVE  Elems(h, <<>>) = <<>>
<1>1. Len(<<>>) = 0 /\ 1..0 = {}
  OBVIOUS
<1>2. Elems(h, <<>>) = [i \in {} |-> h[<<>>[i]].elem]
  BY <1>1 DEF Elems
<1>3. Elems(h, <<>>) \in Seq({})
  BY <1>1 DEF Elems
<1> QED
  BY <1>1, <1>2, <1>3

(* What a sound state says of the container q. *)
LEMMA Facts ==
    ASSUME NEW q \in Chained, NEW u, NEW v, Pair(shape, heap, ends, q, Other(q), u, v)
    PROVE  /\ IsHeap(heap) /\ ends \in [Chained -> EndRecords]
           /\ Linked(shape, heap, ends[q], u) /\ Linked(shape, heap, ends[Other(q)], v)
           /\ Walked(q) = u /\ Walked(Other(q)) = v
           /\ ends[q].head = Nil <=> u = <<>>
           /\ ends[q].head # Nil => /\ ends[q].head \in DOMAIN heap
                                    /\ ends[q].tail \in DOMAIN heap
                                    /\ u \in Seq(Cells) /\ Len(u) \in Nat \ {0}
                                    /\ ends[q].head = u[1] /\ ends[q].tail = u[Len(u)]
           /\ Elems(heap, u) \in Seq(Elements) /\ Len(Elems(heap, u)) = Len(u)
           /\ \A i \in 1..Len(u) : Elems(heap, u)[i] = heap[u[i]].elem
           /\ DOMAIN heap = ToSet(u) \cup ToSet(v)
<1>1. /\ IsHeap(heap) /\ ends \in [Chained -> EndRecords]
      /\ Linked(shape, heap, ends[q], u) /\ Linked(shape, heap, ends[Other(q)], v)
      /\ DOMAIN heap = ToSet(u) \cup ToSet(v)
  BY DEF Pair
<1>2. Walked(q) = u /\ Walked(Other(q)) = v
  BY <1>1, ChainIs DEF Walked
<1>3. /\ ends[q].head = Nil <=> u = <<>>
      /\ ends[q].head # Nil => ends[q].head \in DOMAIN heap /\ ends[q].tail \in DOMAIN heap
  BY <1>1, EndsOf
<1>4. u # <<>> => ends[q].head = u[1] /\ ends[q].tail = u[Len(u)]
  BY <1>1 DEF Linked
<1>5. u \in Seq(Cells) /\ (u # <<>> => Len(u) \in Nat \ {0})
  BY <1>1 DEF Linked
<1>6. /\ Elems(heap, u) \in Seq(Elements) /\ Len(Elems(heap, u)) = Len(u)
      /\ \A i \in 1..Len(u) : Elems(heap, u)[i] = heap[u[i]].elem
  BY <1>1, ElemsType
<1> QED
  BY <1>1, <1>2, <1>3, <1>4, <1>5, <1>6

LEMMA RoomFresh ==
    ASSUME Room
    PROVE  Fresh(heap) \in Cells /\ Fresh(heap) \notin DOMAIN heap
<1>1. \E x \in Cells : x \notin DOMAIN heap
  BY DEF Room
<1> QED
  BY <1>1 DEF Fresh

LEMMA AppendStep ==
    ASSUME Sound, NEW q \in Chained, NEW e \in Elements, AppendElement(q, e)
    PROVE  Sound' /\ Abstract!Append1(q, e)
<1>1. PICK u, v : Pair(shape, heap, ends, q, Other(q), u, v)
  BY SoundPair
<1>2. PICK x : x = Fresh(heap)
  OBVIOUS
<1>3. x \in Cells /\ x \notin DOMAIN heap
  BY <1>2, RoomFresh DEF AppendElement
<1>4. PICK r : r = Append0(heap, ends[q], e, x)
  OBVIOUS
<1>5. /\ heap' = r.heap /\ Replaced(ends', ends, q, r.ends)
      /\ found' = Nothing /\ shape' = shape
  BY <1>2, <1>4 DEF AppendElement, Replaced
<1>6. Appended(shape, heap, ends[q], e, x, heap', r.ends)
  <2>1. /\ IsHeap(heap) /\ ends[q] \in EndRecords
        /\ ends[q].head # Nil => ends[q].tail \in DOMAIN heap
    BY <1>1, Facts
  <2>2. Appended(shape, heap, ends[q], e, x, Append0(heap, ends[q], e, x).heap,
                 Append0(heap, ends[q], e, x).ends)
    BY <1>3, <2>1, AppendIs
  <2> QED
    BY <1>4, <1>5, <2>2
<1>7. /\ Pair(shape, heap', ends', q, Other(q), AtEnd(u, x), v)
      /\ Elems(heap', AtEnd(u, x)) = AtEnd(Elems(heap, u), e)
      /\ Elems(heap', v) = Elems(heap, v)
  <2>1. PICK h, g, m, n, d, e2 :
          h = heap /\ g = heap' /\ m = ends /\ n = ends' /\ d = shape /\ e2 = r.ends
    OBVIOUS
  <2>2. /\ Pair(d, h, m, q, Other(q), u, v) /\ x \notin DOMAIN h
        /\ Appended(d, h, m[q], e, x, g, e2) /\ Replaced(n, m, q, e2)
    BY <1>1, <1>3, <1>5, <1>6, <2>1
  <2>3. PICK t : t = AtEnd(u, x)
    OBVIOUS
  <2>4. /\ Pair(d, g, n, q, Other(q), t, v)
        /\ Elems(g, t) = AtEnd(Elems(h, u), e)
        /\ Elems(g, v) = Elems(h, v)
    BY <1>3, <2>2, <2>3, PairAppend
  <2> QED
    BY <2>1, <2>3, <2>4
<1>8. /\ Sound' /\ Contents = Both(q, Elems(heap, u), Elems(heap, v))
      /\ Contents' = Both(q, AtEnd(Elems(heap, u), e), Elems(heap, v))
  <2>1. PICK t : t = AtEnd(u, x)
    OBVIOUS
  <2> QED
    BY <1>1, <1>5, <1>7, <2>1, StepContents
<1>9. Contents' = [Contents EXCEPT ![q] = Append(Contents[q], e)]
  <2>1. Contents[q] = Elems(heap, u)
    BY <1>8, BothEdit
  <2>2. PICK Z : Z = Append(Contents[q], e) /\ Z = AtEnd(Contents[q], e)
    BY DEF AtEnd
  <2>3. Contents' = [Contents EXCEPT ![q] = Z]
    BY <1>8, <2>1, <2>2, BothEdit
  <2> QED
    BY <2>2, <2>3
<1> QED
  BY <1>5, <1>8, <1>9 DEF Abstract!Append1

LEMMA PrependStep ==
    ASSUME Sound, NEW q \in Chained, NEW e \in Elements, PrependElement(q, e)
    PROVE  Sound' /\ Abstract!Prepend1(q, e)
<1>1. PICK u, v : Pair(shape, heap, ends, q, Other(q), u, v)
  BY SoundPair
<1>2. PICK x : x = Fresh(heap)
  OBVIOUS
<1>3. x \in Cells /\ x \notin DOMAIN heap
  BY <1>2, RoomFresh DEF PrependElement
<1>4. shape = "list" /\ found' = Nothing /\ shape' = shape
  BY DEF PrependElement
<1>5. heap' = FrontHeap(heap, ends[q], e, x)
  BY <1>2 DEF PrependElement, FrontHeap
<1>6. Replaced(ends', ends, q, FrontEnds(ends[q], x))
  BY <1>2 DEF PrependElement, FrontEnds, Replaced
<1>7. Prepended(heap, ends[q], e, x, heap', FrontEnds(ends[q], x))
  <2>1. IsHeap(heap) /\ (ends[q].head # Nil => ends[q].head \in DOMAIN heap)
    BY <1>1, Facts
  <2> QED
    BY <1>3, <1>5, <2>1, PrependIs
<1>8. PICK t : /\ Pair("list", heap', ends', q, Other(q), t, v)
               /\ Leads(Elements, Elems(heap', t), Elems(heap, u), e)
               /\ Elems(heap', v) = Elems(heap, v)
  <2>1. Pair("list", heap, ends, q, Other(q), u, v)
    BY <1>1, <1>4
  <2>2. PICK e2 : e2 = FrontEnds(ends[q], x)
    OBVIOUS
  <2>3. Prepended(heap, ends[q], e, x, heap', e2) /\ Replaced(ends', ends, q, e2)
    BY <1>6, <1>7, <2>2
  <2>4. PICK h, g, m, n : h = heap /\ g = heap' /\ m = ends /\ n = ends'
    OBVIOUS
  <2>5. /\ Pair("list", h, m, q, Other(q), u, v) /\ x \notin DOMAIN h
        /\ Prepended(h, m[q], e, x, g, e2) /\ Replaced(n, m, q, e2)
    BY <1>3, <2>1, <2>3, <2>4
  <2>6. \E t : /\ Pair("list", g, n, q, Other(q), t, v)
               /\ Leads(Elements, Elems(g, t), Elems(h, u), e)
               /\ Elems(g, v) = Elems(h, v)
    BY <1>3, <2>5, PairPrepend
  <2> QED
    BY <2>4, <2>6
<1>9. Elems(heap', t) = InFront(Elems(heap, u), e)
  <2>1. Elems(heap, u) \in Seq(Elements)
    BY <1>1, Facts
  <2>2. Leads(Elements, InFront(Elems(heap, u), e), Elems(heap, u), e)
    BY <2>1, InFrontAt
  <2> QED
    BY <1>8, <2>1, <2>2, LeadsUnique
<1>10. /\ Sound' /\ Contents = Both(q, Elems(heap, u), Elems(heap, v))
       /\ Contents' = Both(q, InFront(Elems(heap, u), e), Elems(heap, v))
  BY <1>1, <1>4, <1>8, <1>9, StepContents
<1>11. Contents' = [Contents EXCEPT ![q] = <<e>> \o Contents[q]]
  <2>1. Contents[q] = Elems(heap, u)
    BY <1>10, BothEdit
  <2>2. PICK Z : Z = <<e>> \o Contents[q] /\ Z = InFront(Contents[q], e)
    BY DEF InFront
  <2>3. Contents' = [Contents EXCEPT ![q] = Z]
    BY <1>10, <2>1, <2>2, BothEdit
  <2> QED
    BY <2>2, <2>3
<1> QED
  BY <1>4, <1>10, <1>11 DEF Abstract!Prepend1

LEMMA ClearStep ==
    ASSUME Sound, NEW q \in Chained, Clear(q)
    PROVE  Sound' /\ Abstract!Clear(q)
<1>1. PICK u, v : Pair(shape, heap, ends, q, Other(q), u, v)
  BY SoundPair
<1>2. /\ heap' = Without(heap, ToSet(u)) /\ Replaced(ends', ends, q, Cut)
      /\ found' = Nothing /\ shape' = shape
  BY <1>1, Facts DEF Clear, Replaced
<1>3. Pair(shape, heap', ends', q, Other(q), <<>>, v) /\ Elems(heap', v) = Elems(heap, v)
  <2>1. PICK h, g, m, n, d : h = heap /\ g = heap' /\ m = ends /\ n = ends' /\ d = shape
    OBVIOUS
  <2>2. Pair(d, h, m, q, Other(q), u, v) /\ g = Without(h, ToSet(u)) /\ Replaced(n, m, q, Cut)
    BY <1>1, <1>2, <2>1
  <2>3. Pair(d, g, n, q, Other(q), <<>>, v) /\ Elems(g, v) = Elems(h, v)
    BY <2>2, PairClear
  <2> QED
    BY <2>1, <2>3
<1>4. /\ Sound' /\ Contents = Both(q, Elems(heap, u), Elems(heap, v))
      /\ Contents' = Both(q, <<>>, Elems(heap, v))
  <2>1. PICK t : t = <<>>
    OBVIOUS
  <2>2. Elems(heap', t) = t
    BY <2>1, EmptyElems
  <2> QED
    BY <1>1, <1>2, <1>3, <2>1, <2>2, StepContents
<1>5. Contents' = [Contents EXCEPT ![q] = <<>>]
  BY <1>4, BothEdit
<1> QED
  BY <1>2, <1>4, <1>5 DEF Abstract!Clear

LEMMA PopStep ==
    ASSUME Sound, NEW q \in Chained, PopElement(q)
    PROVE  Sound' /\ Abstract!Pop(q)
<1>1. PICK u, v : Pair(shape, heap, ends, q, Other(q), u, v)
  BY SoundPair
<1>2. PICK e2 : e2 = IF heap[ends[q].head].next = Nil THEN Cut
                     ELSE [ends[q] EXCEPT !.head = heap[ends[q].head].next]
  OBVIOUS
<1>3. /\ shape = "queue" /\ ends[q].head # Nil /\ shape' = shape
      /\ found' = heap[ends[q].head].elem
  BY DEF PopElement
<1>4. Popped(heap, ends[q], heap', e2) /\ Replaced(ends', ends, q, e2)
  BY <1>2 DEF PopElement, Popped, Replaced
<1>5. u # <<>> /\ Elems(heap, u) \in Seq(Elements) /\ Len(Elems(heap, u)) = Len(u)
      /\ Len(u) \in Nat \ {0}
  BY <1>1, <1>3, Facts
<1>6. /\ Pair("queue", heap', ends', q, Other(q), AfterHead(u), v)
      /\ Drops(Elements, Elems(heap', AfterHead(u)), Elems(heap, u))
      /\ Elems(heap', v) = Elems(heap, v)
      /\ heap[ends[q].head].elem = Elems(heap, u)[1]
  <2>1. PICK h, g, m, n : h = heap /\ g = heap' /\ m = ends /\ n = ends'
    OBVIOUS
  <2>2. /\ Pair("queue", h, m, q, Other(q), u, v) /\ Popped(h, m[q], g, e2)
        /\ Replaced(n, m, q, e2)
    BY <1>1, <1>3, <1>4, <2>1
  <2>3. PICK t : t = AfterHead(u)
    OBVIOUS
  <2>4. /\ Pair("queue", g, n, q, Other(q), t, v)
        /\ Drops(Elements, Elems(g, t), Elems(h, u))
        /\ Elems(g, v) = Elems(h, v) /\ h[m[q].head].elem = Elems(h, u)[1]
    BY <1>5, <2>2, <2>3, PairPop
  <2> QED
    BY <2>1, <2>3, <2>4
<1>7. PICK X \in Seq(Elements) : X = Elems(heap, u) /\ X # <<>> /\ Head(X) = X[1]
  <2>1. PICK X \in Seq(Elements) : X = Elems(heap, u) /\ Len(X) # 0
    BY <1>5
  <2>2. X # <<>> /\ Head(X) = X[1]
    BY <2>1
  <2> QED
    BY <2>1, <2>2
<1>8. Elems(heap', AfterHead(u)) = AfterHead(X)
  <2>1. Drops(Elements, AfterHead(X), X)
    BY <1>7, TailAt
  <2>2. PICK a : a = Elems(heap', AfterHead(u))
    OBVIOUS
  <2>3. Drops(Elements, a, X)
    BY <1>6, <1>7, <2>2
  <2> QED
    BY <1>7, <2>1, <2>2, <2>3, DropsUnique
<1>9. /\ Sound' /\ Contents = Both(q, X, Elems(heap, v))
      /\ Contents' = Both(q, AfterHead(X), Elems(heap, v))
  <2>1. PICK t : t = AfterHead(u)
    OBVIOUS
  <2>2. Pair(shape', heap', ends', q, Other(q), t, v) /\ Elems(heap', t) = AfterHead(X)
    BY <1>3, <1>6, <1>8, <2>1
  <2> QED
    BY <1>1, <1>3, <1>6, <1>7, <2>2, StepContents
<1>10. Contents[q] = X
  BY <1>9, BothEdit
<1>11. Contents' = [Contents EXCEPT ![q] = Tail(Contents[q])]
  <2>1. PICK Z : Z = Tail(Contents[q]) /\ Z = AfterHead(X)
    BY <1>10 DEF AfterHead
  <2>2. Contents' = [Contents EXCEPT ![q] = Z]
    BY <1>9, <2>1, BothEdit
  <2> QED
    BY <2>1, <2>2
<1>12. found' = Head(Contents[q]) /\ Contents[q] # <<>>
  BY <1>3, <1>6, <1>7, <1>10
<1> QED
  BY <1>9, <1>11, <1>12 DEF Abstract!Pop

LEMMA RotateStep ==
    ASSUME Sound, NEW q \in Chained, Rotate(q)
    PROVE  Sound' /\ Abstract!RotateLeft(q)
<1>1. PICK u, v : Pair(shape, heap, ends, q, Other(q), u, v)
  BY SoundPair
<1>2. PICK e2 : e2 = [head |-> heap[ends[q].head].next, tail |-> ends[q].head, size |-> ends[q].size]
  OBVIOUS
<1>3. /\ shape = "queue" /\ ends[q].head # Nil /\ heap[ends[q].head].next # Nil
      /\ shape' = shape /\ found' = Nothing
  BY DEF Rotate
<1>4. Turned(heap, ends[q], heap', e2) /\ Replaced(ends', ends, q, e2)
  BY <1>2, <1>3 DEF Rotate, Turned, Replaced
<1>5. u # <<>> /\ Elems(heap, u) \in Seq(Elements) /\ Len(Elems(heap, u)) = Len(u)
      /\ Len(u) \in Nat \ {0}
  BY <1>1, <1>3, Facts
<1>6. PICK t : /\ Pair("queue", heap', ends', q, Other(q), t, v)
               /\ Turns(Elements, Elems(heap', t), Elems(heap, u))
               /\ Elems(heap', v) = Elems(heap, v)
  <2>1. PICK h, g, m, n : h = heap /\ g = heap' /\ m = ends /\ n = ends'
    OBVIOUS
  <2>2. /\ Pair("queue", h, m, q, Other(q), u, v) /\ Turned(h, m[q], g, e2)
        /\ Replaced(n, m, q, e2)
    BY <1>1, <1>3, <1>4, <2>1
  <2>3. TurnedPair(h, g, n, q, u, v)
    BY <1>5, <2>2, PairTurn
  <2> QED
    BY <2>1, <2>3 DEF TurnedPair
<1>7. PICK X \in Seq(Elements) : X = Elems(heap, u) /\ X # <<>> /\ Head(X) = X[1]
  <2>1. PICK X \in Seq(Elements) : X = Elems(heap, u) /\ Len(X) # 0
    BY <1>5
  <2>2. X # <<>> /\ Head(X) = X[1]
    BY <2>1
  <2> QED
    BY <2>1, <2>2
<1>8. Elems(heap', t) = AtEnd(AfterHead(X), X[1])
  <2>1. Turns(Elements, AtEnd(AfterHead(X), X[1]), X)
    BY <1>7, TurnAt
  <2>2. PICK a, b : a = Elems(heap', t) /\ b = AtEnd(AfterHead(X), X[1])
    OBVIOUS
  <2>3. Turns(Elements, a, X) /\ Turns(Elements, b, X)
    BY <1>6, <1>7, <2>1, <2>2
  <2> QED
    BY <1>7, <2>2, <2>3, TurnsUnique
<1>9. /\ Sound' /\ Contents = Both(q, X, Elems(heap, v))
      /\ Contents' = Both(q, AtEnd(AfterHead(X), X[1]), Elems(heap, v))
  <2>1. PICK b : b = AtEnd(AfterHead(X), X[1])
    OBVIOUS
  <2>2. Pair(shape', heap', ends', q, Other(q), t, v) /\ Elems(heap', t) = b
    BY <1>3, <1>6, <1>8, <2>1
  <2>3. Sound' /\ Contents = Both(q, X, Elems(heap, v)) /\ Contents' = Both(q, b, Elems(heap, v))
    BY <1>1, <1>3, <1>6, <1>7, <2>2, StepContents
  <2> QED
    BY <2>1, <2>3
<1>10. Contents[q] = X
  BY <1>9, BothEdit
<1>11. Contents' = [Contents EXCEPT ![q] = Append(Tail(Contents[q]), Head(Contents[q]))]
  <2>1. PICK b, y : b = AfterHead(X) /\ y = X[1]
    OBVIOUS
  <2>2. Tail(Contents[q]) = b /\ Head(Contents[q]) = y
    BY <1>7, <1>10, <2>1 DEF AfterHead
  <2>3. PICK Z : Z = Append(b, y)
    OBVIOUS
  <2>4. Z = AtEnd(AfterHead(X), X[1])
    BY <2>1, <2>3 DEF AtEnd
  <2>5. Contents' = [Contents EXCEPT ![q] = Z]
    BY <1>9, <2>4, BothEdit
  <2> QED
    BY <2>2, <2>3, <2>5
<1> QED
  BY <1>3, <1>7, <1>9, <1>10, <1>11 DEF Abstract!RotateLeft

LEMMA CopyStepRight ==
    ASSUME Sound, NEW q \in Chained, NEW r \in Chained, CopyQueue(q, r)
    PROVE  Sound' /\ r # q /\ Abstract!Copy(q, r)
<1>1. PICK u, v : Pair(shape, heap, ends, q, Other(q), u, v)
  BY SoundPair
<1>2. r = Other(q) /\ r # q
  BY Two DEF CopyQueue
<1>3. Walked(q) = u /\ Walked(r) = v
  BY <1>1, <1>2, Facts
<1>4. PICK h, c : h = Without(heap, ToSet(u)) /\ c = CopyOf(h, v)
  OBVIOUS
<1>5. /\ shape = "queue" /\ shape' = shape /\ found' = Nothing
      /\ Cardinality(DOMAIN h) + Len(v) <= Cardinality(Cells)
      /\ heap' = c.heap /\ ends' = Ends2(ends, q, c.ends)
  BY <1>3, <1>4 DEF CopyQueue, Ends2
<1>6. PICK t : /\ Pair("queue", heap', ends', q, Other(q), t, v)
               /\ Elems(heap', t) = Elems(heap, v) /\ Elems(heap', v) = Elems(heap, v)
  <2>1. Pair("queue", heap, ends, q, Other(q), u, v)
    BY <1>1, <1>5
  <2>2. \E t : /\ Pair("queue", c.heap, Ends2(ends, q, c.ends), q, Other(q), t, v)
               /\ Elems(c.heap, t) = Elems(heap, v) /\ Elems(c.heap, v) = Elems(heap, v)
    BY <1>4, <1>5, <2>1, PairCopy
  <2> QED
    BY <1>5, <2>2
<1>7. /\ Sound' /\ Contents = Both(q, Elems(heap, u), Elems(heap, v))
      /\ Contents' = Both(q, Elems(heap, v), Elems(heap, v))
  BY <1>1, <1>5, <1>6, StepContents
<1>8. Contents' = [Contents EXCEPT ![q] = Contents[r]]
  <2>1. Contents[r] = Elems(heap, v)
    BY <1>2, <1>7, BothEdit
  <2> QED
    BY <1>7, <2>1, BothEdit
<1> QED
  BY <1>2, <1>5, <1>7, <1>8 DEF Abstract!Copy

LEMMA MoveStep ==
    ASSUME Sound, NEW q \in Chained, NEW r \in Chained, MoveQueue(q, r) \/ MoveList(q, r)
    PROVE  Sound' /\ r # q /\ Abstract!Move(q, r)
<1>1. PICK u, v : Pair(shape, heap, ends, q, Other(q), u, v)
  BY SoundPair
<1>2. r = Other(q) /\ r # q /\ shape' = shape /\ found' = Nothing
  BY Two DEF MoveQueue, MoveList
<1>3. ends' = [[ends EXCEPT ![q] = ends[Other(q)]] EXCEPT ![Other(q)] = Cut]
  BY <1>2 DEF MoveQueue, MoveList
<1>4. /\ IsHeap(heap) /\ DOMAIN heap = ToSet(u) \cup ToSet(v)
      /\ ToSet(u) \cap ToSet(v) = {}
  BY <1>1 DEF Pair
<1>5. IsHeap(heap') /\ DOMAIN heap' = ToSet(v) /\ \A y \in DOMAIN heap' : heap'[y] = heap[y]
  <2>1. CASE MoveQueue(q, r)
    <3>1. heap' = Without(heap, ToSet(u))
      BY <1>1, <2>1, Facts DEF MoveQueue
    <3>2. IsWithout(heap', heap, ToSet(u))
      BY <1>4, <3>1, Removed
    <3> QED
      BY <1>4, <3>2 DEF IsWithout
  <2>2. CASE MoveList(q, r)
    <3>1. heap' = heap /\ ends[q] = Cut
      BY <2>2 DEF MoveList
    <3>2. u = <<>>
      <4>1. ends[q].head = Nil
        BY <3>1 DEF Cut
      <4>2. ends[q].head = Nil <=> u = <<>>
        BY <1>1, Facts
      <4> QED
        BY <4>1, <4>2
    <3>3. ToSet(u) = {}
      BY <3>2 DEF ToSet
    <3> QED
      BY <1>4, <3>1, <3>3
  <2> QED
    BY <2>1, <2>2
<1>6. Pair(shape, heap', ends', q, Other(q), v, <<>>) /\ Elems(heap', v) = Elems(heap, v)
  <2>1. PICK h, g, m, n, d : h = heap /\ g = heap' /\ m = ends /\ n = ends' /\ d = shape
    OBVIOUS
  <2>2. /\ Pair(d, h, m, q, Other(q), u, v) /\ IsHeap(g) /\ DOMAIN g = ToSet(v)
        /\ \A y \in DOMAIN g : g[y] = h[y]
    BY <1>1, <1>5, <2>1
  <2>3. Moved(n, m, q)
    BY <1>3, <2>1 DEF Moved
  <2>4. Pair(d, g, n, q, Other(q), v, <<>>) /\ Elems(g, v) = Elems(h, v)
    BY <2>2, <2>3, PairMove
  <2> QED
    BY <2>1, <2>4
<1>7. /\ Sound' /\ Contents = Both(q, Elems(heap, u), Elems(heap, v))
      /\ Contents' = Both(q, Elems(heap, v), <<>>)
  <2>1. PICK t : t = <<>>
    OBVIOUS
  <2>2. Elems(heap', t) = t
    BY <2>1, EmptyElems
  <2> QED
    BY <1>1, <1>2, <1>6, <2>1, <2>2, StepContents
<1>8. Contents' = [Contents EXCEPT ![q] = Contents[r], ![r] = <<>>]
  <2>1. Contents[r] = Elems(heap, v)
    BY <1>2, <1>7, BothEdit
  <2>2. [Contents EXCEPT ![q] = Elems(heap, v), ![Other(q)] = <<>>] = Both(q, Elems(heap, v), <<>>)
    BY <1>7, BothMove
  <2> QED
    BY <1>2, <1>7, <2>1, <2>2
<1> QED
  BY <1>2, <1>7, <1>8 DEF Abstract!Move

LEMMA LookStep ==
    ASSUME Sound, NEW q \in Chained,
           PeekFirst(q) \/ PeekLast(q) \/ \E e \in Elements : FindFirstMatch(q, e)
    PROVE  /\ Sound'
           /\ PeekFirst(q) => Abstract!PeekFirst(q)
           /\ PeekLast(q) => Abstract!PeekLast(q)
           /\ \A e \in Elements : FindFirstMatch(q, e) => Abstract!Find(q, e)
<1>1. PICK u, v : Pair(shape, heap, ends, q, Other(q), u, v)
  BY SoundPair
<1>2. shape' = shape /\ heap' = heap /\ ends' = ends
  BY DEF PeekFirst, PeekLast, FindFirstMatch
<1>3. Sound' /\ Contents' = Contents /\ Contents = Both(q, Elems(heap, u), Elems(heap, v))
  BY <1>1, <1>2, StepContents
<1>4. PICK X \in Seq(Elements) :
        /\ X = Elems(heap, u) /\ Len(X) = Len(u)
        /\ \A i \in 1..Len(u) : X[i] = heap[u[i]].elem
  BY <1>1, Facts
<1>5. Contents[q] = X
  BY <1>3, <1>4, BothEdit
<1>6. ASSUME PeekFirst(q) \/ PeekLast(q)
      PROVE  /\ X # <<>>
             /\ PeekFirst(q) => found' = Head(X)
             /\ PeekLast(q) => found' = Last(X)
  <2>1. /\ ends[q].head = u[1] /\ ends[q].tail = u[Len(u)] /\ Len(u) \in Nat \ {0}
    BY <1>1, <1>6, Facts DEF PeekFirst, PeekLast
  <2>2. 1 \in 1..Len(u) /\ Len(u) \in 1..Len(u)
    BY <2>1
  <2>3. (PeekFirst(q) => found' = X[1]) /\ (PeekLast(q) => found' = X[Len(X)])
    BY <1>4, <2>1, <2>2 DEF PeekFirst, PeekLast
  <2>4. X # <<>> /\ Head(X) = X[1] /\ Last(X) = X[Len(X)]
    BY <1>4, <2>1 DEF Last
  <2> QED
    BY <2>3, <2>4
<1>7. ASSUME NEW e \in Elements, FindFirstMatch(q, e)
      PROVE  found' = IF e \in ToSet(X) THEN e ELSE Nothing
  <2>1. found' = IF \E x \in ToSet(u) : heap[x].elem = e THEN e ELSE Nothing
    BY <1>1, <1>7, Facts DEF FindFirstMatch
  <2>2. u \in Seq(Cells)
    BY <1>1 DEF Pair, Linked
  <2>3. (\E x \in ToSet(u) : heap[x].elem = e) <=> \E i \in 1..Len(u) : heap[u[i]].elem = e
    BY <2>2 DEF ToSet
  <2>4. e \in ToSet(X) <=> \E i \in 1..Len(X) : X[i] = e
    BY DEF ToSet
  <2>5. (\E i \in 1..Len(u) : heap[u[i]].elem = e) <=> \E i \in 1..Len(X) : X[i] = e
    BY <1>4
  <2> QED
    BY <2>1, <2>3, <2>4, <2>5, Zenon
<1>8. ASSUME PeekFirst(q) PROVE Abstract!PeekFirst(q)
  BY <1>3, <1>5, <1>6, <1>8 DEF Abstract!PeekFirst
<1>9. ASSUME PeekLast(q) PROVE Abstract!PeekLast(q)
  BY <1>3, <1>5, <1>6, <1>9 DEF Abstract!PeekLast, Abstract!Last, Last
<1>10. ASSUME NEW e \in Elements, FindFirstMatch(q, e) PROVE Abstract!Find(q, e)
  <2>1. found' = IF e \in ToSet(Contents[q]) THEN e ELSE Nothing
    BY <1>5, <1>7, <1>10
  <2> QED
    BY <1>3, <2>1 DEF Abstract!Find, Abstract!ToSet, ToSet
<1> QED
  BY <1>3, <1>8, <1>9, <1>10

LEMMA IdleStep ==
    ASSUME Sound, UNCHANGED chains
    PROVE  Sound' /\ UNCHANGED <<Contents, found>>
<1>1. shape' = shape /\ heap' = heap /\ ends' = ends /\ found' = found
  BY DEF chains
<1> QED
  BY <1>1 DEF Sound, Contents

LEMMA ChainsStart ==
    ASSUME ChainsInit
    PROVE  Sound /\ Abstract!Init
<1>1. /\ shape \in {"queue", "list"} /\ DOMAIN heap = {} /\ IsHeap(heap)
      /\ ends = [q \in Chained |-> Cut] /\ found = Nothing
  BY ChainsAssumption DEF ChainsInit, IsHeap
<1>2. PICK t : t = <<>> /\ Linked(shape, heap, Cut, t) /\ Cut \in EndRecords /\ ToSet(t) = {}
  BY EmptyLinked
<1>3. 1 \in Chained /\ 2 \in Chained /\ Other(1) = 2
  BY DEF Chained, Other
<1>4. ends \in [Chained -> EndRecords] /\ ends[1] = Cut /\ ends[2] = Cut
  BY <1>1, <1>2, <1>3
<1>5. Pair(shape, heap, ends, 1, 2, t, t)
  BY <1>1, <1>2, <1>4 DEF Pair
<1>6. Contents = Both(1, Elems(heap, t), Elems(heap, t))
  BY <1>3, <1>5, PairContents DEF Contents
<1>7. Elems(heap, t) = <<>>
  BY <1>2, EmptyElems
<1>8. Contents = [c \in Chained |-> <<>>]
  BY <1>6, <1>7 DEF Both
<1> QED
  BY <1>1, <1>5, <1>8 DEF Sound, Abstract!Init

LEMMA ChainsStep ==
    ASSUME Sound, ChainsNext
    PROVE  Sound' /\ (Abstract!Next \/ UNCHANGED <<Contents, found>>)
<1>1. PICK q \in Chained :
        \/ PopElement(q) \/ Rotate(q) \/ PeekFirst(q) \/ PeekLast(q) \/ Clear(q)
        \/ \E e \in Elements : AppendElement(q, e) \/ PrependElement(q, e) \/ FindFirstMatch(q, e)
        \/ \E r \in Chained : CopyQueue(q, r) \/ MoveQueue(q, r) \/ MoveList(q, r)
        \/ \E i \in 0..Cardinality(Cells) : RemoveIndex(q, i)
  BY DEF ChainsNext
<1>2. CASE PopElement(q)
  BY <1>2, PopStep DEF Abstract!Next
<1>3. CASE Rotate(q)
  BY <1>3, RotateStep DEF Abstract!Next
<1>4. CASE PeekFirst(q) \/ PeekLast(q) \/ \E e \in Elements : FindFirstMatch(q, e)
  BY <1>4, LookStep DEF Abstract!Next
<1>5. CASE Clear(q)
  BY <1>5, ClearStep DEF Abstract!Next
<1>6. ASSUME NEW e \in Elements, AppendElement(q, e)
      PROVE  Sound' /\ Abstract!Next
  BY <1>6, AppendStep DEF Abstract!Next
<1>7. ASSUME NEW e \in Elements, PrependElement(q, e)
      PROVE  Sound' /\ Abstract!Next
  BY <1>7, PrependStep DEF Abstract!Next
<1>8. ASSUME NEW r \in Chained, CopyQueue(q, r)
      PROVE  Sound' /\ Abstract!Next
  BY <1>8, CopyStepRight DEF Abstract!Next
<1>9. ASSUME NEW r \in Chained, MoveQueue(q, r) \/ MoveList(q, r)
      PROVE  Sound' /\ Abstract!Next
  BY <1>9, MoveStep DEF Abstract!Next
<1>10. ASSUME NEW i \in 0..Cardinality(Cells), RemoveIndex(q, i)
       PROVE  Sound' /\ UNCHANGED <<Contents, found>>
  BY <1>10, IdleStep DEF RemoveIndex
<1> QED
  BY <1>1, <1>2, <1>3, <1>4, <1>5, <1>6, <1>7, <1>8, <1>9, <1>10

(* Each call is the operation of its own name. *)
LEMMA NamedStep ==
    ASSUME Sound
    PROVE  CallAsNamed
<1> SUFFICES ASSUME NEW q \in Chained
    PROVE /\ PopElement(q) => Abstract!Pop(q)
          /\ Rotate(q) => Abstract!RotateLeft(q)
          /\ Clear(q) => Abstract!Clear(q)
          /\ PeekFirst(q) => Abstract!PeekFirst(q)
          /\ PeekLast(q) => Abstract!PeekLast(q)
          /\ \A e \in Elements : /\ AppendElement(q, e) => Abstract!Append1(q, e)
                                 /\ PrependElement(q, e) => Abstract!Prepend1(q, e)
                                 /\ FindFirstMatch(q, e) => Abstract!Find(q, e)
          /\ \A r \in Chained :
                /\ CopyQueue(q, r) => Abstract!Copy(q, r)
                /\ (MoveQueue(q, r) \/ MoveList(q, r)) => Abstract!Move(q, r)
  BY DEF CallAsNamed
<1>1. /\ PopElement(q) => Abstract!Pop(q)
      /\ Rotate(q) => Abstract!RotateLeft(q)
      /\ Clear(q) => Abstract!Clear(q)
  BY PopStep, RotateStep, ClearStep
<1>2. /\ PeekFirst(q) => Abstract!PeekFirst(q)
      /\ PeekLast(q) => Abstract!PeekLast(q)
  BY LookStep
<1>3. \A e \in Elements : /\ AppendElement(q, e) => Abstract!Append1(q, e)
                          /\ PrependElement(q, e) => Abstract!Prepend1(q, e)
  BY AppendStep, PrependStep
<1>4. \A e \in Elements : FindFirstMatch(q, e) => Abstract!Find(q, e)
  BY LookStep
<1>5. \A r \in Chained :
        /\ CopyQueue(q, r) => Abstract!Copy(q, r)
        /\ (MoveQueue(q, r) \/ MoveList(q, r)) => Abstract!Move(q, r)
  BY CopyStepRight, MoveStep
<1> QED
  BY <1>1, <1>2, <1>3, <1>4, <1>5

(* The containers of cells and links are sequences of elements: whatever   *)
(* is appended, popped, rotated, copied, moved or cleared, every step is a *)
(* step of ElementSequences, and each call of LinkedQueue and LinkedList   *)
(* is the operation of its own name.                                       *)
THEOREM ChainsImplemented == ChainsSpec => ImplementsSequences
<1>1. ChainsInit => Sound /\ Abstract!Init
  BY ChainsStart
<1>2. Sound /\ [ChainsNext]_chains => Sound'
  BY ChainsStep, IdleStep
<1>3. Sound /\ [ChainsNext]_chains => [Abstract!Next]_<<Contents, found>>
  BY ChainsStep, IdleStep
<1>4. Sound => CallAsNamed
  BY NamedStep
<1> QED
  BY <1>1, <1>2, <1>3, <1>4, PTL DEF ChainsSpec, ImplementsSequences, Abstract!Spec
=============================================================================
