---------------------------- MODULE DeviceProofs ----------------------------
(***************************************************************************)
(* Proofs about the devices.                                               *)
(*                                                                         *)
(* The first part is about BlockIO, for every ring size, any number of     *)
(* request addresses and any order in which the device answers and         *)
(* publishes, as long as the callers stay within what the queue can hold.  *)
(*                                                                         *)
(* The second is about DeviceBringUp, for every device tree, any number of *)
(* VirtIO slots and whatever the devices behind them answer.               *)
(***************************************************************************)
EXTENDS BlockIO, DeviceBringUp, SequenceFacts, FiniteSetTheorems

\* What the driver leaves to its callers: the descriptors of the operations
\* from the oldest open one on fit into the ring, and there are fewer
\* operations than the ring has elements, so that the acknowledgement, kept
\* below the ring size, does not fall behind the device's index.
CallersKeepWindow ==
  /\ Window > 0 /\ 3 * Window <= RingSize
  /\ MaxRequests < RingSize

Answers == {"ok", "failed"}
N == Len(asked)

\* The descriptor slot of part j of operation n.
Place(n, j) == (3 * (n - 1) + j) % RingSize

(* The invariant's parts that hold whatever the polls report. *)

Addresses == [kind : {"header", "data", "status", "null"}, ptr : Ptrs \cup {NoPtr}]
Types ==
  /\ op \in {"idle", "poll", "notify", "callbacks"}
  /\ poller \in Ptrs \cup {NoPtr}
  /\ op = "poll" <=> poller # NoPtr
  /\ alive \subseteq Ptrs
  /\ request \in [Ptrs -> [id : Nat, status : {"pending"} \cup Answers, serial : Nat]]
  /\ desc \in [Slots -> Addresses]
  /\ availRing \in [Slots -> Slots] /\ usedRing \in [Slots -> Slots]
  /\ irq \in BOOLEAN
  /\ nextId \in Nat
  /\ asked \in Seq(Nat \cup {Poll})
  /\ published \in Seq(Nat)
  /\ verdict \in [1..MaxRequests -> {"none"} \cup Answers]
  /\ ignored \in Seq(Ptrs)
  /\ results \in Seq([id : Nat, result : Answers, serial : Nat])
  /\ polls \in Seq([serial : Nat, result : Answers])
  /\ called \in Seq([id : Nat, result : Answers])
  /\ taken \in Nat /\ handed \in Nat

\* The rings and their indices, as the numbers of operations give them.
RingInv ==
  /\ N <= MaxRequests
  /\ queueIndex = (3 * N) % RingSize
  /\ availIndex = N
  /\ taken <= N
  /\ \A n \in 1..N : availRing[n - 1] = Place(n, 0)
  /\ usedIndex = Len(published)
  /\ handed <= Len(published) /\ ack = handed
  /\ \A i \in 1..Len(published) : usedRing[i - 1] = Place(published[i], 0)

\* The device takes, answers and publishes each operation once.
DeviceInv ==
  /\ \A c \in inflight :
       /\ c \in [serial : 1..taken, head : Slots, answered : BOOLEAN, status : Addresses]
       /\ c.head = Place(c.serial, 0)
       /\ verdict[c.serial] = "none" <=> ~c.answered
       /\ \A i \in 1..Len(published) : published[i] # c.serial
  /\ \A c, d \in inflight : c.serial = d.serial => c = d
  /\ \A i \in 1..Len(published) : published[i] \in 1..taken /\ verdict[published[i]] \in Answers
  /\ \A i, j \in 1..Len(published) : published[i] = published[j] => i = j
  /\ \A n \in 1..MaxRequests : n > taken => verdict[n] = "none"

\* Ids are given once, and open operations are within the window.
AskedInv ==
  /\ \A n \in 1..N : asked[n] < nextId
  /\ \A m, n \in 1..N : asked[m] = asked[n] /\ asked[m] # Poll => m = n
  /\ \A n \in Open : N - n < Window

PollsInv ==
  \A i \in 1..Len(polls) :
    (\A k \in 1..(i - 1) : polls[k].result = "ok")
    => polls[i].serial \in 1..taken /\ polls[i].result = verdict[polls[i].serial]

(* The parts that hold until a polled request fails. *)

\* Each open operation has its request, alive, and its descriptors point to
\* it; nothing else is alive.
MemoryInv ==
  /\ \A n \in Open : \E p \in alive : request[p].serial = n
  /\ \A p \in alive :
       LET n == request[p].serial
       IN  /\ n \in Open
           /\ desc[Place(n, 0)] = Address("header", p)
           /\ desc[Place(n, 2)] = Address("status", p)
           /\ request[p].status = IF verdict[n] = "none" THEN "pending" ELSE verdict[n]
           /\ asked[n] # Poll => request[p].id = asked[n]
  /\ \A c \in inflight :
       \E p \in alive : c.status = Address("status", p) /\ request[p].serial = c.serial

\* The polled requests alive are those a poll method waits on or has left
\* for notify() to drop.
IgnoredInv ==
  /\ op = "poll" => poller \in alive /\ asked[request[poller].serial] = Poll
  /\ \A i \in 1..Len(ignored) :
       ignored[i] \in alive /\ ignored[i] # poller /\ asked[request[ignored[i]].serial] = Poll
  /\ \A i, j \in 1..Len(ignored) : ignored[i] = ignored[j] => i = j
  /\ \A p \in alive : asked[request[p].serial] = Poll =>
       p = poller \/ \E i \in 1..Len(ignored) : ignored[i] = p

\* Operation n has been acknowledged and was asked about under this id.
Settled(n, id, result) ==
  /\ n \in 1..N /\ n \notin Open
  /\ asked[n] = id /\ id # Poll
  /\ verdict[n] = result

\* Results and callbacks are about different operations, each settled.
ReportInv ==
  /\ \A i \in 1..Len(results) :
       Settled(results[i].serial, results[i].id, results[i].result)
  /\ \A i, j \in 1..Len(results) : results[i].serial = results[j].serial => i = j
  /\ \A i \in 1..Len(called) : \E n \in 1..N : Settled(n, called[i].id, called[i].result)
  /\ \A i, j \in 1..Len(called) : called[i].id = called[j].id => i = j
  /\ \A i \in 1..Len(called), j \in 1..Len(results) : called[i].id # results[j].id

(* The inductive invariant. *)
QueueInv == Types /\ RingInv /\ DeviceInv /\ AskedInv /\ PollsInv
BlockInv ==
  /\ CallersKeepWindow
  /\ QueueInv
  /\ NoPollFailed => MemoryInv /\ IgnoredInv /\ ReportInv

-----------------------------------------------------------------------------
(* Arithmetic of the ring. *)

LEMMA DivMod ==
  ASSUME NEW a \in Nat, NEW b \in Nat \ {0}
  PROVE  /\ a = (a \div b) * b + (a % b)
         /\ a \div b \in Nat /\ a % b \in Nat /\ a % b < b
  OBVIOUS

LEMMA ModLess ==
  ASSUME NEW a \in Nat, NEW b \in Nat \ {0}, a < b
  PROVE  a % b = a
  OBVIOUS

LEMMA ModUnique ==
  ASSUME NEW q \in Nat, NEW b \in Nat \ {0}, NEW r \in Nat, r < b
  PROVE  (q * b + r) % b = r
  OBVIOUS

\* Two numbers less than b apart have different remainders.
LEMMA ModApart ==
  ASSUME NEW a \in Nat, NEW c \in Nat, NEW b \in Nat \ {0}, a < c, c < a + b
  PROVE  a % b # c % b
  <1>1. a = (a \div b) * b + (a % b) /\ c = (c \div b) * b + (c % b)
        /\ a \div b \in Nat /\ c \div b \in Nat /\ a % b \in Nat /\ c % b \in Nat
    BY DivMod
  <1> DEFINE d == a \div b
             e == c \div b
             r == a % b
  <1> SUFFICES ASSUME c % b = r PROVE FALSE
    OBVIOUS
  <1>2. a = d * b + r /\ c = e * b + r /\ d \in Nat /\ e \in Nat /\ r \in Nat
    BY <1>1
  <1> HIDE DEF d, e, r
  <1>3. e > d
    <2> SUFFICES ASSUME e <= d PROVE FALSE
      BY <1>2
    <2>1. PICK x \in Nat : d = e + x
      BY <1>2
    <2>2. d * b = e * b + x * b /\ x * b \in Nat
      BY <1>2, <2>1
    <2> QED BY <1>2, <2>2
  <1>4. PICK x \in Nat : e = d + 1 + x
    BY <1>2, <1>3
  <1>5. e * b = d * b + b + x * b /\ x * b \in Nat
    BY <1>2, <1>4
  <1> QED BY <1>2, <1>5

\* Advancing an index that is kept below b.
LEMMA ModShift ==
  ASSUME NEW x \in Nat, NEW i \in Nat, NEW b \in Nat \ {0}
  PROVE  ((x % b) + i) % b = (x + i) % b
  <1> DEFINE d == x \div b
             r == x % b
  <1>1. x = d * b + r /\ d \in Nat /\ r \in Nat
    BY DivMod
  <1> HIDE DEF d, r
  <1> DEFINE e == (r + i) \div b
             s == (r + i) % b
  <1>2. r + i = e * b + s /\ e \in Nat /\ s \in Nat /\ s < b
    BY <1>1, DivMod
  <1> HIDE DEF e, s
  <1>3. x + i = (d + e) * b + s /\ d + e \in Nat
    BY <1>1, <1>2
  <1> DEFINE f == d + e
  <1>4. x + i = f * b + s /\ f \in Nat
    BY <1>3
  <1> HIDE DEF f
  <1>5. (x + i) % b = s
    BY <1>2, <1>4, ModUnique
  <1> QED BY <1>5 DEF s, r

LEMMA RingNumbers ==
  ASSUME CallersKeepWindow
  PROVE  /\ RingSize \in Nat \ {0} /\ RingSize >= 3 /\ IndexMod >= RingSize
         /\ IndexMod \in Nat \ {0}
         /\ Window \in Nat /\ Window > 0 /\ 3 * Window <= RingSize
         /\ MaxRequests \in Nat /\ MaxRequests < RingSize
  <1>1. RingSize \in Nat \ {0} /\ IndexMod \in Nat \ {0} /\ IndexMod % RingSize = 0
        /\ Window \in Nat /\ MaxRequests \in Nat
    BY BlockAssumption
  <1>2. IndexMod >= RingSize
    BY <1>1, ModLess
  <1> QED BY <1>1, <1>2 DEF CallersKeepWindow

\* The slots of operations within the window differ.
LEMMA PlacesApart ==
  ASSUME CallersKeepWindow, NEW m \in Nat \ {0}, NEW n \in Nat \ {0},
         m < n, n - m < Window, NEW j \in 0..2, NEW k \in 0..2
  PROVE  Place(m, j) # Place(n, k)
  <1> DEFINE a == 3 * (m - 1) + j
             c == 3 * (n - 1) + k
  <1>1. a \in Nat /\ c \in Nat /\ a < c /\ c < a + RingSize
    BY RingNumbers
  <1> HIDE DEF a, c
  <1>2. a % RingSize # c % RingSize
    BY <1>1, RingNumbers, ModApart
  <1> QED BY <1>2 DEF Place, a, c

LEMMA PlacesOfOne ==
  ASSUME CallersKeepWindow, NEW n \in Nat \ {0}
  PROVE  /\ Place(n, 0) # Place(n, 1) /\ Place(n, 1) # Place(n, 2)
         /\ Place(n, 0) # Place(n, 2)
         /\ \A j \in 0..2 : Place(n, j) \in Slots
  <1> DEFINE a == 3 * (n - 1)
  <1>1. a \in Nat /\ a + 0 \in Nat /\ a + 1 \in Nat /\ a + 2 \in Nat
    OBVIOUS
  <1> HIDE DEF a
  <1>2. /\ (a + 0) % RingSize # (a + 1) % RingSize
        /\ (a + 1) % RingSize # (a + 2) % RingSize
        /\ (a + 0) % RingSize # (a + 2) % RingSize
    <2>1. a + 0 < a + 1 /\ a + 1 < (a + 0) + RingSize /\ a + 2 < (a + 0) + RingSize
          /\ a + 2 < (a + 1) + RingSize /\ a + 1 < a + 2 /\ a + 0 < a + 2
          /\ RingSize \in Nat \ {0}
      BY <1>1, RingNumbers
    <2> QED BY <1>1, <2>1, ModApart
  <1>3. ASSUME NEW j \in 0..2 PROVE (a + j) % RingSize \in Slots
    <2>1. a + j \in Nat /\ RingSize \in Nat \ {0}
      BY <1>1, RingNumbers
    <2> DEFINE b == a + j
    <2> HIDE DEF b
    <2>2. b % RingSize \in Nat /\ b % RingSize < RingSize
      BY <2>1, DivMod DEF b
    <2> QED BY <2>1, <2>2 DEF Slots, b
  <1> QED BY <1>2, <1>3 DEF Place, a

\* The slots AddToQueue takes for the next operation.
LEMMA NextPlaces ==
  ASSUME CallersKeepWindow, NEW n \in Nat, queueIndex = (3 * n) % RingSize
  PROVE  /\ Slot(0) = Place(n + 1, 0) /\ Slot(1) = Place(n + 1, 1)
         /\ Slot(2) = Place(n + 1, 2) /\ Slot(3) = (3 * (n + 1)) % RingSize
  <1> DEFINE x == 3 * n
  <1>1. x \in Nat /\ 3 * ((n + 1) - 1) = x /\ 3 * (n + 1) = x + 3
    OBVIOUS
  <1> HIDE DEF x
  <1>2. \A i \in Nat : ((x % RingSize) + i) % RingSize = (x + i) % RingSize
    BY <1>1, RingNumbers, ModShift
  <1> QED BY <1>1, <1>2 DEF Slot, Place, x

\* The status descriptor is found two behind the head.
LEMMA StatusPlace ==
  ASSUME CallersKeepWindow, NEW n \in Nat \ {0}
  PROVE  (Place(n, 0) + 2) % RingSize = Place(n, 2)
  <1> DEFINE x == 3 * (n - 1)
  <1>1. x \in Nat /\ x + 0 = x
    OBVIOUS
  <1> HIDE DEF x
  <1>2. ((x % RingSize) + 2) % RingSize = (x + 2) % RingSize
    BY <1>1, RingNumbers, ModShift
  <1> QED BY <1>1, <1>2 DEF Place, x

\* Different numbers below m: there are at most m, and m of them are all.
LEMMA Distinct ==
  ASSUME NEW s, NEW k \in Nat, NEW m \in Nat,
         \A i \in 1..k : s[i] \in 1..m,
         \A i, j \in 1..k : s[i] = s[j] => i = j
  PROVE  k <= m /\ (k = m => \A n \in 1..m : \E i \in 1..k : s[i] = n)
  <1> DEFINE f == [i \in 1..k |-> s[i]]
  <1>1. f \in Injection(1..k, 1..m)
    BY DEF Injection, IsInjective
  <1>2. IsFiniteSet(1..m) /\ Cardinality(1..m) = m /\ Cardinality(1..k) = k
    BY FS_Interval
  <1>3. k <= m /\ (k = m => f \in Surjection(1..k, 1..m))
    BY <1>1, <1>2, FS_Injection
  <1> QED BY <1>3 DEF Surjection

LEMMA ElementsTyped ==
  ASSUME NEW S, NEW s \in Seq(S)
  PROVE  \A i \in 1..Len(s) : s[i] \in S
  OBVIOUS

-----------------------------------------------------------------------------
(* What the invariant says of a state. *)

LEMMA Numbers ==
  ASSUME Types
  PROVE  /\ N \in Nat /\ DOMAIN asked = 1..N /\ Len(published) \in Nat
         /\ Open = {n \in 1..N : \A i \in 1..handed : published[i] # n}
         /\ handed \in Nat /\ taken \in Nat
  BY DEF Types, N, Open

\* The device has published no more operations than were asked.
LEMMA PublishedBound ==
  ASSUME CallersKeepWindow, QueueInv
  PROVE  Len(published) <= taken /\ Len(published) <= MaxRequests /\ handed <= MaxRequests
  <1>1. Len(published) \in Nat /\ taken \in Nat /\ N \in Nat /\ handed \in Nat
    BY Numbers DEF QueueInv
  <1>2. Len(published) <= taken
    <2> DEFINE k == Len(published)
    <2>1. k \in Nat /\ taken \in Nat
          /\ (\A i \in 1..k : published[i] \in 1..taken)
          /\ (\A i, j \in 1..k : published[i] = published[j] => i = j)
      BY <1>1 DEF QueueInv, DeviceInv
    <2> HIDE DEF k
    <2>2. k <= taken
      BY <2>1, Distinct
    <2> QED BY <2>2 DEF k
  <1> QED BY <1>1, <1>2, RingNumbers DEF QueueInv, RingInv

\* An element is handed out only when the device has published one.
LEMMA ElementThere ==
  ASSUME BlockInv, UsedAvailable
  PROVE  /\ handed < Len(published)
         /\ published[handed + 1] \in Open
         /\ UsedSlot = Place(published[handed + 1], 0)
  <1>1. Len(published) \in Nat /\ handed \in Nat /\ handed <= Len(published)
        /\ ack = handed /\ usedIndex = Len(published)
    BY Numbers DEF BlockInv, QueueInv, RingInv
  <1>2. handed < Len(published) /\ handed + 1 \in 1..Len(published)
    BY <1>1 DEF UsedAvailable
  <1>3. published[handed + 1] \in 1..N
    <2>1. published[handed + 1] \in 1..taken /\ taken <= N /\ taken \in Nat /\ N \in Nat
      BY <1>2, Numbers DEF BlockInv, QueueInv, DeviceInv, RingInv
    <2> QED BY <2>1
  <1>4. ASSUME NEW i \in 1..handed PROVE published[i] # published[handed + 1]
    BY <1>1, <1>2 DEF BlockInv, QueueInv, DeviceInv
  <1>5. published[handed + 1] \in Open
    BY <1>3, <1>4, Numbers DEF BlockInv, QueueInv
  <1>6. UsedSlot = Place(published[handed + 1], 0)
    <2>1. handed < RingSize /\ RingSize \in Nat \ {0}
      BY <1>1, PublishedBound, RingNumbers DEF BlockInv
    <2>2. ack % RingSize = handed
      BY <1>1, <2>1, ModLess
    <2>3. usedRing[(handed + 1) - 1] = Place(published[handed + 1], 0)
      BY <1>2 DEF BlockInv, QueueInv, RingInv
    <2>4. (handed + 1) - 1 = handed
      BY <1>1
    <2> QED BY <2>2, <2>3, <2>4 DEF UsedSlot
  <1> QED BY <1>2, <1>5, <1>6

\* Acknowledging the last operation leaves none open.
LEMMA NoneOpen ==
  ASSUME BlockInv, handed = N
  PROVE  Open = {}
  <1>1. handed \in Nat /\ N \in Nat /\ taken \in Nat /\ Len(published) \in Nat
        /\ handed <= Len(published) /\ taken <= N
    BY Numbers DEF BlockInv, QueueInv, RingInv
  <1>2. \A i \in 1..handed : published[i] \in 1..N
    BY <1>1 DEF BlockInv, QueueInv, DeviceInv
  <1>3. \A i, j \in 1..handed : published[i] = published[j] => i = j
    BY <1>1 DEF BlockInv, QueueInv, DeviceInv
  <1>4. \A n \in 1..N : \E i \in 1..handed : published[i] = n
    <2> DEFINE m == N
    <2>1. m \in Nat /\ \A i \in 1..handed : published[i] \in 1..m
      BY <1>1, <1>2
    <2>2. handed = m
      OBVIOUS
    <2> HIDE DEF m
    <2>3. \A n \in 1..m : \E i \in 1..handed : published[i] = n
      BY <1>1, <1>3, <2>1, <2>2, Distinct
    <2> QED BY <2>3 DEF m
  <1> QED BY <1>4, Numbers DEF BlockInv, QueueInv

LEMMA InvImplies ==
  ASSUME BlockInv
  PROVE  RequestMemoryOwned /\ AnswersReported /\ NothingLeaks /\ UsedElementsOnce
  <1>1. CompletesLiveRequest
    BY ElementThere DEF CompletesLiveRequest, BlockInv, MemoryInv
  <1>2. DeviceWritesOwnRequest
    BY DEF DeviceWritesOwnRequest, BlockInv, MemoryInv, QueueInv, Types
  <1>3. CallbackOnceAndRight
    <2> SUFFICES ASSUME NoPollFailed PROVE CallbackOnceAndRight!2
      BY DEF CallbackOnceAndRight
    <2>1. DOMAIN called = 1..Len(called) /\ DOMAIN asked = 1..N
      BY Numbers DEF BlockInv, QueueInv, Types
    <2> QED BY <2>1 DEF BlockInv, ReportInv, Settled
  <1>4. PollReportsAnswer
    <2>1. DOMAIN polls = 1..Len(polls)
      BY DEF BlockInv, QueueInv, Types
    <2> QED BY <2>1 DEF PollReportsAnswer, BlockInv, QueueInv, PollsInv
  <1>5. NothingLeaks
    <2> SUFFICES ASSUME NoPollFailed, op # "poll", handed = Len(asked)
                 PROVE  alive = {} /\ ignored = <<>>
      BY DEF NothingLeaks
    <2>1. Open = {}
      BY NoneOpen DEF N
    <2>2. alive = {}
      BY <2>1 DEF BlockInv, MemoryInv
    <2>3. ignored \in Seq(Ptrs) /\ \A i \in 1..Len(ignored) : ignored[i] \in alive
      BY DEF BlockInv, QueueInv, Types, IgnoredInv
    <2>4. Len(ignored) = 0
      BY <2>2, <2>3
    <2> QED BY <2>2, <2>3, <2>4
  <1>6. UsedElementsOnce
    BY ElementThere DEF UsedElementsOnce
  <1> QED BY <1>1, <1>2, <1>3, <1>4, <1>5, <1>6 DEF RequestMemoryOwned, AnswersReported

-----------------------------------------------------------------------------
LEMMA BlockInit ==
  ASSUME Init, CallersKeepWindow
  PROVE  BlockInv
  <1> USE DEF Init
  <1>1. RingSize \in Nat \ {0} /\ MaxRequests \in Nat
    BY RingNumbers
  <1>2. Types
    <2>1. 0 \in Slots
      BY <1>1 DEF Slots
    <2>2. Null \in Addresses
      BY DEF Null, Address, Addresses
    <2>3. /\ request \in [Ptrs -> [id : Nat, status : {"pending"} \cup Answers, serial : Nat]]
          /\ verdict \in [1..MaxRequests -> {"none"} \cup Answers]
      OBVIOUS
    <2>4. desc \in [Slots -> Addresses]
      BY <2>2
    <2>5. availRing \in [Slots -> Slots] /\ usedRing \in [Slots -> Slots]
      BY <2>1
    <2>6. poller \in Ptrs \cup {NoPtr} /\ (op = "poll" <=> poller # NoPtr)
          /\ op \in {"idle", "poll", "notify", "callbacks"} /\ alive \subseteq Ptrs
      OBVIOUS
    <2>7. irq \in BOOLEAN
      OBVIOUS
    <2>8. asked \in Seq(Nat \cup {Poll}) /\ published \in Seq(Nat) /\ ignored \in Seq(Ptrs)
          /\ results \in Seq([id : Nat, result : Answers, serial : Nat])
          /\ polls \in Seq([serial : Nat, result : Answers])
          /\ called \in Seq([id : Nat, result : Answers])
      OBVIOUS
    <2>9. nextId \in Nat /\ taken \in Nat /\ handed \in Nat
      OBVIOUS
    <2> HIDE DEF Init
    <2> QED BY <2>3, <2>4, <2>5, <2>6, <2>7, <2>8, <2>9, Zenon DEF Types
  <1>3. N = 0 /\ Open = {} /\ Len(published) = 0
    BY DEF N, Open
  <1>4. RingInv
    BY <1>1, <1>3, ModLess DEF RingInv
  <1>5. DeviceInv /\ AskedInv /\ PollsInv
    BY <1>3 DEF DeviceInv, AskedInv, PollsInv
  <1>6. MemoryInv /\ IgnoredInv /\ ReportInv
    BY <1>3 DEF MemoryInv, IgnoredInv, ReportInv
  <1> QED BY <1>2, <1>4, <1>5, <1>6 DEF BlockInv, QueueInv


-----------------------------------------------------------------------------
(* Steps that move the kernel on and leave requests and rings alone. *)

\* The number of operations and the open ones depend on the history only.
LEMMA SameOpen ==
  ASSUME UNCHANGED <<asked, handed, published>>
  PROVE  N' = N /\ Open' = Open
  BY DEF N, Open

LEMMA QuietStep ==
  ASSUME BlockInv,
         UNCHANGED <<poller, alive, request, queue, ack, usedIndex, usedRing, inflight,
                     taken, published, verdict, ignored, results, asked, handed, reports>>,
         op' \in {"idle", "poll", "notify", "callbacks"}, op' = "poll" <=> op = "poll",
         irq' \in BOOLEAN, nextId' \in Nat, nextId' >= nextId
  PROVE  BlockInv'
  <1> USE DEF queue, reports
  <1>1. N' = N /\ Open' = Open
    BY SameOpen
  <1>2. Types'
    BY DEF BlockInv, QueueInv, Types
  <1>3. RingInv' /\ DeviceInv' /\ PollsInv'
    BY <1>1 DEF BlockInv, QueueInv, RingInv, DeviceInv, PollsInv, Place
  <1>4. AskedInv'
    <2>1. \A n \in 1..N : asked[n] < nextId /\ asked[n] \in Int
      <3>1. asked \in Seq(Nat \cup {Poll}) /\ DOMAIN asked = 1..N
        BY Numbers DEF BlockInv, QueueInv, Types
      <3>2. \A n \in 1..N : asked[n] \in Nat \cup {Poll}
        BY <3>1, ElementsTyped DEF N
      <3>3. \A n \in 1..N : asked[n] < nextId
        BY DEF BlockInv, QueueInv, AskedInv
      <3> QED BY <3>2, <3>3 DEF Poll
    <2>2. nextId \in Nat
      BY DEF BlockInv, QueueInv, Types
    <2>3. \A n \in 1..N : asked[n] < nextId'
      BY <2>1, <2>2
    <2> QED BY <1>1, <2>3 DEF BlockInv, QueueInv, AskedInv
  <1>5. NoPollFailed' => NoPollFailed
    BY DEF NoPollFailed
  <1>6. ASSUME NoPollFailed PROVE MemoryInv' /\ IgnoredInv' /\ ReportInv'
    <2>1. MemoryInv /\ IgnoredInv /\ ReportInv
      BY <1>6 DEF BlockInv
    <2>2. MemoryInv'
      BY <1>1, <2>1 DEF MemoryInv, Place
    <2>3. IgnoredInv'
      BY <1>1, <2>1 DEF IgnoredInv
    <2>4. ReportInv'
      BY <1>1, <2>1 DEF ReportInv, Settled
    <2> QED BY <2>2, <2>3, <2>4
  <1> QED BY <1>2, <1>3, <1>4, <1>5, <1>6 DEF BlockInv, QueueInv, CallersKeepWindow

LEMMA QuietActions ==
  ASSUME BlockInv,
         RejectAsync \/ Interrupt \/ NotifyDone \/ InterruptDone \/ UNCHANGED vars
  PROVE  BlockInv'
  <1>1. nextId \in Nat /\ irq \in BOOLEAN /\ op \in {"idle", "poll", "notify", "callbacks"}
    BY DEF BlockInv, QueueInv, Types
  <1>2. CASE RejectAsync
    BY <1>1, <1>2, QuietStep DEF RejectAsync, queue, device, reports
  <1>3. CASE Interrupt
    <2>1. irq' \in BOOLEAN
      BY <1>3 DEF Interrupt
    <2> QED BY <1>1, <1>3, <2>1, QuietStep DEF Interrupt, queue, reports
  <1>4. CASE NotifyDone
    BY <1>1, <1>4, QuietStep DEF NotifyDone, queue, device, reports
  <1>5. CASE InterruptDone
    BY <1>1, <1>5, QuietStep DEF InterruptDone, queue, device, reports
  <1>6. CASE UNCHANGED vars
    BY <1>1, <1>6, QuietStep DEF vars, queue, device, reports
  <1> QED BY <1>2, <1>3, <1>4, <1>5, <1>6

-----------------------------------------------------------------------------
(* What a poll method reports. *)

\* A request that shows an answer shows the device's, to the operation taken.
LEMMA ShownAnswer ==
  ASSUME BlockInv, NoPollFailed, NEW p \in alive, request[p].status \in Answers
  PROVE  /\ request[p].serial \in 1..taken
         /\ request[p].status = verdict[request[p].serial]
  <1> DEFINE n == request[p].serial
  <1>1. n \in Open
        /\ request[p].status = IF verdict[n] = "none" THEN "pending" ELSE verdict[n]
    BY DEF BlockInv, MemoryInv
  <1>2. n \in 1..N /\ N <= MaxRequests /\ N \in Nat /\ taken \in Nat /\ MaxRequests \in Nat
    BY <1>1, Numbers, RingNumbers DEF BlockInv, QueueInv, RingInv
  <1>3. verdict[n] # "none" /\ request[p].status = verdict[n]
    BY <1>1 DEF Answers
  <1>4. n \in 1..MaxRequests /\ ~(n > taken)
    BY <1>2, <1>3 DEF BlockInv, QueueInv, DeviceInv
  <1> QED BY <1>2, <1>3, <1>4

LEMMA PollReturnKeeps ==
  ASSUME BlockInv, NEW a \in Answers, PollReturn(a),
         alive' \subseteq Ptrs, ignored' \in Seq(Ptrs)
  PROVE  QueueInv' /\ (NoPollFailed' => NoPollFailed /\ a = "ok")
  <1> USE DEF queue, device, PollReturn
  <1> DEFINE r == [serial |-> request[poller].serial, result |-> a]
  <1>1. N' = N /\ Open' = Open
    BY SameOpen
  <1>2. poller \in Ptrs
    BY DEF BlockInv, QueueInv, Types
  <1>3. r \in [serial : Nat, result : Answers]
    BY <1>2 DEF BlockInv, QueueInv, Types
  <1>4. polls \in Seq([serial : Nat, result : Answers])
    BY DEF BlockInv, QueueInv, Types
  <1>5. Types'
    <2>1. polls' \in Seq([serial : Nat, result : Answers])
      BY <1>3, <1>4
    <2> QED BY <2>1 DEF BlockInv, QueueInv, Types
  <1>6. RingInv' /\ DeviceInv' /\ AskedInv'
    BY <1>1 DEF BlockInv, QueueInv, RingInv, DeviceInv, AskedInv, Place
  <1>7. /\ Len(polls') = Len(polls) + 1 /\ Len(polls) \in Nat
        /\ \A i \in 1..Len(polls) : polls'[i] = polls[i]
        /\ polls'[Len(polls) + 1] = r
    BY <1>3, <1>4
  <1>8. NoPollFailed' => NoPollFailed /\ a = "ok"
    <2>1. DOMAIN polls = 1..Len(polls) /\ DOMAIN polls' = 1..Len(polls')
      BY <1>4, <1>5 DEF Types
    <2> QED BY <1>7, <2>1 DEF NoPollFailed
  <1>9. PollsInv'
    <2> SUFFICES ASSUME NEW i \in 1..Len(polls'),
                        \A k \in 1..(i - 1) : polls'[k].result = "ok"
                 PROVE  polls'[i].serial \in 1..taken
                        /\ polls'[i].result = verdict[polls'[i].serial]
      BY DEF PollsInv
    <2>1. CASE i \in 1..Len(polls)
      <3>1. \A k \in 1..(i - 1) : polls[k].result = "ok"
        BY <1>7, <2>1
      <3> QED BY <1>7, <2>1, <3>1 DEF BlockInv, QueueInv, PollsInv
    <2>2. CASE i = Len(polls) + 1
      <3>1. \A k \in 1..Len(polls) : polls[k].result = "ok"
        BY <1>7, <2>2
      <3>2. NoPollFailed
        BY <1>4, <3>1 DEF NoPollFailed
      <3>3. poller \in alive /\ request[poller].status \in Answers
        BY <3>2 DEF BlockInv, IgnoredInv
      <3> QED BY <1>7, <2>2, <3>2, <3>3, ShownAnswer
    <2> QED BY <1>7, <2>1, <2>2
  <1> QED BY <1>5, <1>6, <1>8, <1>9 DEF QueueInv

LEMMA PollActions ==
  ASSUME BlockInv, PollOk \/ PollFailed
  PROVE  BlockInv'
  <1>1. CASE PollFailed
    <2>1. alive' \subseteq Ptrs /\ ignored' \in Seq(Ptrs) /\ PollReturn("failed")
          /\ "failed" \in Answers
      BY <1>1 DEF PollFailed, BlockInv, QueueInv, Types, Answers
    <2>2. QueueInv' /\ ~NoPollFailed'
      BY <2>1, PollReturnKeeps
    <2> QED BY <2>2 DEF BlockInv, CallersKeepWindow
  <1>2. CASE PollOk
    <2> USE <1>2 DEF PollOk, PollReturn, queue, device
    <2>1. poller \in Ptrs /\ ignored \in Seq(Ptrs) /\ NoPtr \notin Ptrs
      BY BlockAssumption DEF BlockInv, QueueInv, Types
    <2>2. alive' \subseteq Ptrs /\ ignored' \in Seq(Ptrs) /\ PollReturn("ok")
          /\ "ok" \in Answers
      BY <2>1 DEF BlockInv, QueueInv, Types, Answers
    <2>3. QueueInv' /\ (NoPollFailed' => NoPollFailed)
      BY <2>2, PollReturnKeeps
    <2>4. N' = N /\ Open' = Open
      BY SameOpen
    <2>5. ASSUME NoPollFailed PROVE MemoryInv' /\ IgnoredInv' /\ ReportInv'
      <3>1. MemoryInv /\ IgnoredInv /\ ReportInv
        BY <2>5 DEF BlockInv
      <3>2. MemoryInv'
        BY <2>4, <3>1 DEF MemoryInv, Place
      <3>3. ReportInv'
        BY <2>4, <3>1 DEF ReportInv, Settled
      <3>4. /\ Len(ignored') = Len(ignored) + 1 /\ Len(ignored) \in Nat
            /\ \A i \in 1..Len(ignored) : ignored'[i] = ignored[i]
            /\ ignored'[Len(ignored) + 1] = poller
        BY <2>1
      <3>5. IgnoredInv'
        <4>1. poller \in alive /\ asked[request[poller].serial] = Poll
          BY <3>1 DEF IgnoredInv
        <4>2. alive' = alive /\ request' = request /\ asked' = asked /\ poller' = NoPtr
              /\ op' = "idle" /\ NoPtr \notin alive
          BY <2>1 DEF BlockInv, QueueInv, Types
        <4>3. \A i \in 1..Len(ignored') :
                ignored'[i] \in alive /\ asked[request[ignored'[i]].serial] = Poll
          BY <3>1, <3>4, <4>1 DEF IgnoredInv
        <4>4. \A i, j \in 1..Len(ignored') : ignored'[i] = ignored'[j] => i = j
          BY <3>1, <3>4 DEF IgnoredInv
        <4>5. \A p \in alive : asked[request[p].serial] = Poll =>
                \E i \in 1..Len(ignored') : ignored'[i] = p
          <5> SUFFICES ASSUME NEW p \in alive, asked[request[p].serial] = Poll
                       PROVE  \E i \in 1..Len(ignored') : ignored'[i] = p
            OBVIOUS
          <5>1. CASE p = poller
            BY <3>4, <5>1
          <5>2. CASE p # poller
            <6>1. PICK i \in 1..Len(ignored) : ignored[i] = p
              BY <3>1, <5>2 DEF IgnoredInv
            <6> QED BY <3>4, <6>1
          <5> QED BY <5>1, <5>2
        <4> QED BY <4>2, <4>3, <4>4, <4>5 DEF IgnoredInv
      <3> QED BY <3>2, <3>3, <3>5
    <2> QED BY <2>3, <2>5 DEF BlockInv, CallersKeepWindow
  <1> QED BY <1>1, <1>2

-----------------------------------------------------------------------------
(* handle_interrupt's loop over the results. *)

LEMMA CallbackKeeps ==
  ASSUME BlockInv, Callback
  PROVE  BlockInv'
  <1> USE DEF Callback, queue, device
  <1> DEFINE r == Head(results)
             new == [id |-> r.id, result |-> r.result]
  <1>1. N' = N /\ Open' = Open
    BY SameOpen
  <1>2. results \in Seq([id : Nat, result : Answers, serial : Nat]) /\ results # <<>>
        /\ called \in Seq([id : Nat, result : Answers])
    BY DEF BlockInv, QueueInv, Types
  <1>3. /\ Len(results') = Len(results) - 1 /\ Len(results) \in Nat /\ Len(results) >= 1
        /\ results' \in Seq([id : Nat, result : Answers, serial : Nat])
        /\ \A i \in 1..Len(results') : results'[i] = results[i + 1]
        /\ r = results[1] /\ r \in [id : Nat, result : Answers, serial : Nat]
    <2> DEFINE S == [id : Nat, result : Answers, serial : Nat]
    <2>1. results \in Seq(S) /\ results # <<>>
      BY <1>2
    <2> HIDE DEF S
    <2>2. Len(results) \in Nat /\ Len(results) >= 1 /\ r = results[1] /\ r \in S
      BY <2>1
    <2>3. results' \in Seq(S) /\ Len(results') = Len(results) - 1
      BY <2>1
    <2>4. \A i \in 1..Len(results') : results'[i] = results[i + 1]
      BY <2>1, <2>2, <2>3
    <2> QED BY <2>2, <2>3, <2>4 DEF S
  <1>4. /\ new \in [id : Nat, result : Answers] /\ new.id = r.id /\ new.result = r.result
        /\ called' \in {called, Append(called, new)}
    BY <1>3
  <1>5. Types'
    <2>1. called' \in Seq([id : Nat, result : Answers])
      <3> DEFINE S == [id : Nat, result : Answers]
      <3>1. called \in Seq(S) /\ new \in S
        BY <1>2, <1>4
      <3> HIDE DEF S, new
      <3>2. Append(called, new) \in Seq(S)
        BY <3>1
      <3> QED BY <1>4, <3>1, <3>2 DEF S
    <2> QED BY <1>3, <2>1 DEF BlockInv, QueueInv, Types
  <1>6. RingInv' /\ DeviceInv' /\ AskedInv' /\ PollsInv'
    BY <1>1 DEF BlockInv, QueueInv, RingInv, DeviceInv, AskedInv, PollsInv, Place
  <1>7. NoPollFailed' => NoPollFailed
    BY DEF NoPollFailed
  <1>8. ASSUME NoPollFailed PROVE MemoryInv' /\ IgnoredInv' /\ ReportInv'
    <2>1. MemoryInv /\ IgnoredInv /\ ReportInv
      BY <1>8 DEF BlockInv
    <2>2. MemoryInv'
      BY <1>1, <2>1 DEF MemoryInv, Place
    <2>3. IgnoredInv'
      BY <1>1, <2>1 DEF IgnoredInv
    <2>4. Settled(r.serial, r.id, r.result)
      BY <1>3, <2>1 DEF ReportInv
    <2>5. r.id < nextId
      BY <2>4 DEF Settled, BlockInv, QueueInv, AskedInv
    <2>6. nextId \in Nat /\ r.id \in Nat
      BY <1>3 DEF BlockInv, QueueInv, Types
    <2>7. called' = Append(called, new)
      BY <2>5, <2>6
    <2>8. /\ Len(called') = Len(called) + 1 /\ Len(called) \in Nat
          /\ \A i \in 1..Len(called) : called'[i] = called[i]
          /\ called'[Len(called) + 1] = new
      BY <1>2, <1>4, <2>7
    \* Two results are about different ids.
    <2>9. \A i, j \in 1..Len(results) : results[i].id = results[j].id => i = j
      <3> SUFFICES ASSUME NEW i \in 1..Len(results), NEW j \in 1..Len(results),
                          results[i].id = results[j].id
                   PROVE  i = j
        OBVIOUS
      <3>1. Settled(results[i].serial, results[i].id, results[i].result)
            /\ Settled(results[j].serial, results[j].id, results[j].result)
        BY <2>1 DEF ReportInv
      <3>2. results[i].serial = results[j].serial
        BY <3>1 DEF Settled, BlockInv, QueueInv, AskedInv
      <3> QED BY <2>1, <3>2 DEF ReportInv
    <2>10. \A i \in 1..Len(results') :
             i + 1 \in 1..Len(results) /\ i + 1 # 1 /\ results'[i] = results[i + 1]
      BY <1>3
    <2> HIDE DEF Callback
    <2>11. \A n, id, x : Settled(n, id, x) => Settled(n, id, x)'
      BY <1>1 DEF Settled, Callback
    <2>12. \A i \in 1..Len(results') :
             Settled(results'[i].serial, results'[i].id, results'[i].result)
      BY <2>1, <2>10 DEF ReportInv
    <2>13. \A i, j \in 1..Len(results') : results'[i].serial = results'[j].serial => i = j
      <3> SUFFICES ASSUME NEW i \in 1..Len(results'), NEW j \in 1..Len(results'),
                          results'[i].serial = results'[j].serial
                   PROVE  i = j
        OBVIOUS
      <3>1. i + 1 = j + 1
        BY <2>1, <2>10 DEF ReportInv
      <3> QED BY <3>1
    <2>14. \A i \in 1..Len(called') :
             \E n \in 1..N : Settled(n, called'[i].id, called'[i].result)
      <3>1. r.serial \in 1..N
        BY <2>4 DEF Settled
      <3> QED BY <1>4, <2>1, <2>4, <2>8, <3>1 DEF ReportInv
    <2>15. \A i, j \in 1..Len(called') : called'[i].id = called'[j].id => i = j
      <3>1. \A i \in 1..Len(called) : called[i].id # r.id
        BY <1>3, <2>1 DEF ReportInv
      <3>2. \A i, j \in 1..Len(called) : called[i].id = called[j].id => i = j
        BY <2>1 DEF ReportInv
      <3>3. new.id = r.id
        OBVIOUS
      <3> HIDE DEF new, r
      <3> SUFFICES ASSUME NEW i \in 1..Len(called'), NEW j \in 1..Len(called'),
                          called'[i].id = called'[j].id
                   PROVE  i = j
        OBVIOUS
      <3>4. CASE i \in 1..Len(called) /\ j \in 1..Len(called)
        BY <2>8, <3>2, <3>4
      <3>5. CASE i = Len(called) + 1 \/ j = Len(called) + 1
        BY <2>8, <3>1, <3>3, <3>5
      <3> QED BY <2>8, <3>4, <3>5
    <2>16. \A i \in 1..Len(called'), j \in 1..Len(results') :
             called'[i].id # results'[j].id
      <3> SUFFICES ASSUME NEW i \in 1..Len(called'), NEW j \in 1..Len(results')
                   PROVE  called'[i].id # results'[j].id
        OBVIOUS
      <3>1. CASE i \in 1..Len(called)
        <4>1. called'[i] = called[i] /\ results'[j] = results[j + 1]
              /\ j + 1 \in 1..Len(results)
          BY <2>8, <2>10, <3>1
        <4>2. called[i].id # results[j + 1].id
          BY <2>1, <3>1, <4>1 DEF ReportInv
        <4> QED BY <4>1, <4>2
      <3>2. CASE i = Len(called) + 1
        <4>1. called'[i].id = results[1].id
          BY <1>3, <1>4, <2>8, <3>2
        <4>2. 1 \in 1..Len(results)
          BY <1>3
        <4> QED BY <2>9, <2>10, <4>1, <4>2
      <3> QED BY <2>8, <3>1, <3>2
    <2>17. ReportInv'
      <3>1. \A i \in 1..Len(results') :
              Settled(results[i].serial, results[i].id, results[i].result)'
        BY <2>11, <2>12
      <3>2. \A i \in 1..Len(called') : \E n \in 1..N' :
              Settled(n, called[i].id, called[i].result)'
        BY <1>1, <2>11, <2>14
      <3> QED BY <2>13, <2>15, <2>16, <3>1, <3>2 DEF ReportInv
    <2> QED BY <2>2, <2>3, <2>17
  <1> QED BY <1>5, <1>6, <1>7, <1>8 DEF BlockInv, QueueInv, CallersKeepWindow

-----------------------------------------------------------------------------
(* Starting an operation. *)

\* A new operation is open, and its id is new unless a poll method asks.
LEMMA OperationNumbers ==
  ASSUME BlockInv, NEW p \in Ptrs, NEW id, NEW who, BlockOperation(p, id, who),
         who \in Nat \cup {Poll}
  PROVE  /\ N' = N + 1 /\ N \in Nat /\ N < MaxRequests /\ Open \subseteq 1..N
         /\ asked' \in Seq(Nat \cup {Poll}) /\ asked'[N + 1] = who
         /\ \A n \in 1..N : asked'[n] = asked[n]
         /\ Open' = Open \cup {N + 1} /\ N + 1 \notin Open
         /\ \A n \in Open : (N + 1) - n < Window
         /\ taken \in Nat /\ taken <= N
  <1>1. asked \in Seq(Nat \cup {Poll}) /\ N \in Nat /\ DOMAIN asked = 1..N
        /\ Open = {n \in 1..N : \A i \in 1..handed : published[i] # n}
        /\ taken \in Nat /\ taken <= N /\ handed \in Nat /\ Len(published) \in Nat
    BY Numbers DEF BlockInv, QueueInv, Types, RingInv
  <1>2. asked' = Append(asked, who) /\ N < MaxRequests /\ handed' = handed
        /\ published' = published /\ \A n \in Open : (N + 1) - n < Window
    <2>1. \A n \in Open : (Len(asked) + 1) - n < Window
      <3>1. \A n \in Open : n \in Nat /\ Len(asked) + 1 - n < Window
        BY <1>1 DEF BlockOperation
      <3>2. Len(asked) \in Nat
        BY <1>1
      <3> QED BY <3>1, <3>2
    <2>2. asked' = Append(asked, who) /\ Len(asked) < MaxRequests
      BY DEF BlockOperation
    <2>3. handed' = handed /\ published' = published
      BY DEF BlockOperation, device
    <2> QED BY <2>1, <2>2, <2>3 DEF N
  <1>3. asked' \in Seq(Nat \cup {Poll}) /\ N' = N + 1 /\ asked'[N + 1] = who
        /\ (\A n \in 1..N : asked'[n] = asked[n]) /\ DOMAIN asked' = 1..(N + 1)
    <2> DEFINE S == Nat \cup {Poll}
    <2>1. asked \in Seq(S) /\ who \in S
      BY <1>1
    <2> HIDE DEF S
    <2>2. Append(asked, who) \in Seq(S)
      BY <2>1
    <2> QED BY <1>2, <2>1, <2>2 DEF N, S
  <1>4. Open' = {n \in 1..(N + 1) : \A i \in 1..handed : published[i] # n}
    BY <1>2, <1>3 DEF Open
  <1>5. \A i \in 1..handed : published[i] # N + 1
    <2>1. \A i \in 1..Len(published) : published[i] \in 1..taken
      BY DEF BlockInv, QueueInv, DeviceInv
    <2>2. handed <= Len(published)
      BY DEF BlockInv, QueueInv, RingInv
    <2> QED BY <1>1, <2>1, <2>2
  <1>6. Open' = Open \cup {N + 1} /\ N + 1 \notin Open
    BY <1>1, <1>4, <1>5
  <1> QED BY <1>1, <1>2, <1>3, <1>6

LEMMA OperationKeepsQueue ==
  ASSUME BlockInv, NEW p \in Ptrs, NEW id \in Nat, NEW who \in Nat \cup {Poll},
         BlockOperation(p, id, who),
         nextId' \in Nat, nextId' >= nextId, who < nextId', who = Poll \/ who >= nextId,
         op' \in {"idle", "poll"}, poller' \in Ptrs \cup {NoPtr},
         op' = "poll" <=> poller' # NoPtr
  PROVE  QueueInv'
  <1> USE DEF device, reports
  <1> DEFINE k == N
  <1>1. /\ N' = k + 1 /\ k \in Nat /\ k < MaxRequests /\ Open \subseteq 1..k
        /\ asked' \in Seq(Nat \cup {Poll}) /\ asked'[k + 1] = who
        /\ \A n \in 1..k : asked'[n] = asked[n]
        /\ Open' = Open \cup {k + 1}
        /\ \A n \in Open : (k + 1) - n < Window
        /\ taken <= k /\ taken \in Nat
    BY OperationNumbers
  <1>2. RingSize \in Nat \ {0} /\ IndexMod >= RingSize /\ IndexMod \in Nat \ {0}
        /\ MaxRequests \in Nat /\ MaxRequests < RingSize /\ Window \in Nat /\ Window > 0
    BY RingNumbers DEF BlockInv
  <1>3. /\ Slot(0) = Place(k + 1, 0) /\ Slot(1) = Place(k + 1, 1)
        /\ Slot(2) = Place(k + 1, 2) /\ Slot(3) = (3 * (k + 1)) % RingSize
    <2>1. queueIndex = (3 * k) % RingSize
      BY DEF BlockInv, QueueInv, RingInv
    <2> HIDE DEF k
    <2> QED BY <1>1, <2>1, NextPlaces DEF BlockInv
  <1>4. Slot(0) \in Slots /\ Slot(1) \in Slots /\ Slot(2) \in Slots
    <2> HIDE DEF k
    <2>1. k + 1 \in Nat \ {0}
      BY <1>1
    <2> QED BY <1>3, <2>1, PlacesOfOne DEF BlockInv
  <1>5. availIndex = k /\ availIndex % RingSize = k /\ availIndex' = k + 1
    <2>1. availIndex = k
      BY DEF BlockInv, QueueInv, RingInv
    <2> HIDE DEF k
    <2>2. k < RingSize /\ k + 1 < IndexMod /\ k + 1 \in Nat
      BY <1>1, <1>2
    <2>3. k % RingSize = k /\ (k + 1) % IndexMod = k + 1
      BY <1>1, <1>2, <2>2, ModLess
    <2> QED BY <2>1, <2>3 DEF BlockOperation, AddToAvailable
  <1>6. availRing' = [availRing EXCEPT ![k] = Slot(0)]
    BY <1>5 DEF BlockOperation, AddToAvailable
  <1>7. Types'
    <2>1. desc' \in [Slots -> Addresses]
      <3>1. Address("header", p) \in Addresses /\ Address("data", p) \in Addresses
            /\ Address("status", p) \in Addresses
        BY DEF Addresses, Address
      <3>2. desc \in [Slots -> Addresses]
        BY DEF BlockInv, QueueInv, Types
      <3> HIDE DEF k
      <3> QED BY <3>1, <3>2 DEF BlockOperation, AddToQueue
    <2>2. request' \in [Ptrs -> [id : Nat, status : {"pending"} \cup Answers, serial : Nat]]
      <3>1. [id |-> id, status |-> "pending", serial |-> k + 1]
              \in [id : Nat, status : {"pending"} \cup Answers, serial : Nat]
        BY <1>1
      <3>2. request \in [Ptrs -> [id : Nat, status : {"pending"} \cup Answers, serial : Nat]]
        BY DEF BlockInv, QueueInv, Types
      <3>3. request' = [request EXCEPT ![p] =
                          [id |-> id, status |-> "pending", serial |-> k + 1]]
        BY DEF BlockOperation, N
      <3> QED BY <3>1, <3>2, <3>3
    <2>3. availRing' \in [Slots -> Slots]
      BY <1>4, <1>6 DEF BlockInv, QueueInv, Types
    <2>4. alive' \subseteq Ptrs
      BY DEF BlockInv, QueueInv, Types, BlockOperation
    <2>5. UNCHANGED <<usedRing, irq, published, verdict, ignored, results, polls, called,
                      taken, handed>>
      BY DEF BlockOperation
    <2> QED BY <1>1, <2>1, <2>2, <2>3, <2>4, <2>5 DEF BlockInv, QueueInv, Types
  <1>8. UNCHANGED <<ack, usedIndex, usedRing, inflight, taken, published, verdict, handed,
                    polls>>
    BY DEF BlockOperation
  <1>9. RingInv'
    <2>1. queueIndex' = (3 * (k + 1)) % RingSize
      BY <1>3 DEF BlockOperation, AddToQueue
    <2>2. \A n \in 1..(k + 1) : availRing'[n - 1] = Place(n, 0)
      <3>1. availRing \in [Slots -> Slots] /\ \A n \in 1..k : availRing[n - 1] = Place(n, 0)
        BY DEF BlockInv, QueueInv, RingInv, Types
      <3> HIDE DEF k
      <3>2. k \in Slots
        BY <1>1, <1>2 DEF Slots
      <3> QED BY <1>1, <1>3, <1>6, <3>1, <3>2
    <2>3. /\ usedIndex = Len(published)
          /\ handed <= Len(published) /\ ack = handed
          /\ \A i \in 1..Len(published) : usedRing[i - 1] = Place(published[i], 0)
      BY DEF BlockInv, QueueInv, RingInv
    <2>4. k + 1 <= MaxRequests /\ taken <= k + 1
      BY <1>1, <1>2
    <2> HIDE DEF k
    <2> QED BY <1>1, <1>5, <1>8, <2>1, <2>2, <2>3, <2>4 DEF RingInv, Place
  <1>10. DeviceInv'
    BY <1>8 DEF BlockInv, QueueInv, DeviceInv, Place
  <1>11. AskedInv'
    <2>1. \A n \in 1..k : asked[n] < nextId /\ asked[n] \in Nat \cup {Poll}
      <3>1. asked \in Seq(Nat \cup {Poll}) /\ DOMAIN asked = 1..k
        BY Numbers DEF BlockInv, QueueInv, Types
      <3>2. \A n \in 1..k : asked[n] \in Nat \cup {Poll}
        BY <3>1, ElementsTyped DEF N
      <3> QED BY <3>2 DEF BlockInv, QueueInv, AskedInv
    <2>2. \A m, n \in 1..k : asked[m] = asked[n] /\ asked[m] # Poll => m = n
      BY DEF BlockInv, QueueInv, AskedInv
    <2>3. nextId \in Nat
      BY DEF BlockInv, QueueInv, Types
    <2> HIDE DEF k
    <2>4. \A n \in 1..(k + 1) : asked'[n] < nextId'
      <3> SUFFICES ASSUME NEW n \in 1..(k + 1) PROVE asked'[n] < nextId'
        OBVIOUS
      <3>1. nextId' \in Nat /\ nextId' >= nextId /\ who < nextId'
        BY <1>1, <2>3 DEF Poll
      <3>2. CASE n \in 1..k
        BY <1>1, <2>1, <2>3, <3>1, <3>2 DEF Poll
      <3>3. CASE n = k + 1
        BY <1>1, <3>1, <3>3
      <3> QED BY <1>1, <3>2, <3>3
    <2>5. \A m, n \in 1..(k + 1) : asked'[m] = asked'[n] /\ asked'[m] # Poll => m = n
      <3> SUFFICES ASSUME NEW m \in 1..(k + 1), NEW n \in 1..(k + 1),
                          asked'[m] = asked'[n], asked'[m] # Poll
                   PROVE  m = n
        OBVIOUS
      <3>1. \A i \in 1..k : asked'[i] # who \/ who = Poll
        <4>1. ASSUME NEW i \in 1..k, who # Poll PROVE asked'[i] # who
          BY <1>1, <2>1, <2>3, <4>1 DEF Poll
        <4> QED BY <4>1
      <3>2. CASE m \in 1..k /\ n \in 1..k
        BY <1>1, <2>2, <3>2
      <3>3. k \in Nat /\ asked'[k + 1] = who
        BY <1>1
      <3>4. CASE m = k + 1
        <4>1. ~(n \in 1..k)
          BY <3>1, <3>3, <3>4
        <4> QED BY <3>3, <3>4, <4>1
      <3>5. CASE n = k + 1
        <4>1. ~(m \in 1..k)
          BY <3>1, <3>3, <3>5
        <4> QED BY <3>3, <3>5, <4>1
      <3> QED BY <3>2, <3>3, <3>4, <3>5
    <2>6. \A n \in Open' : (k + 1) - n < Window
      BY <1>1, <1>2
    <2> QED BY <1>1, <2>4, <2>5, <2>6 DEF AskedInv
  <1>12. PollsInv'
    BY <1>8 DEF BlockInv, QueueInv, PollsInv
  <1> QED BY <1>7, <1>9, <1>10, <1>11, <1>12 DEF QueueInv

\* Until a polled request fails, the new request joins the others and its
\* descriptors overwrite none of theirs.
LEMMA OperationKeepsMemory ==
  ASSUME BlockInv, NoPollFailed, NEW p \in Ptrs, NEW id \in Nat,
         NEW who \in Nat \cup {Poll},
         BlockOperation(p, id, who), who = Poll \/ who = id,
         op = "idle",
         op' = "poll" => poller' = p /\ who = Poll,
         op' # "poll" => poller' = NoPtr /\ who # Poll
  PROVE  MemoryInv' /\ IgnoredInv' /\ ReportInv'
  <1> USE DEF device, reports
  <1> DEFINE k == N
  <1>1. /\ N' = k + 1 /\ k \in Nat /\ k < MaxRequests /\ Open \subseteq 1..k
        /\ asked'[k + 1] = who
        /\ \A n \in 1..k : asked'[n] = asked[n]
        /\ Open' = Open \cup {k + 1} /\ k + 1 \notin Open
        /\ \A n \in Open : (k + 1) - n < Window
        /\ taken <= k /\ taken \in Nat
    BY OperationNumbers
  <1>2. MemoryInv /\ IgnoredInv /\ ReportInv
    BY DEF BlockInv
  <1>3. CallersKeepWindow /\ MaxRequests \in Nat
    BY RingNumbers DEF BlockInv
  <1>4. /\ Slot(0) = Place(k + 1, 0) /\ Slot(1) = Place(k + 1, 1)
        /\ Slot(2) = Place(k + 1, 2)
    <2>1. queueIndex = (3 * k) % RingSize
      BY DEF BlockInv, QueueInv, RingInv
    <2> HIDE DEF k
    <2> QED BY <1>1, <1>3, <2>1, NextPlaces
  <1>5. /\ p \notin alive /\ alive' = alive \cup {p}
        /\ request' = [request EXCEPT ![p] =
                         [id |-> id, status |-> "pending", serial |-> k + 1]]
        /\ desc' = [desc EXCEPT ![Place(k + 1, 0)] = Address("header", p),
                                ![Place(k + 1, 1)] = Address("data", p),
                                ![Place(k + 1, 2)] = Address("status", p)]
    BY <1>4 DEF BlockOperation, AddToQueue, N
  <1>6. UNCHANGED <<inflight, published, verdict, ignored, results, called, handed>>
    BY DEF BlockOperation
  <1>7. alive \subseteq Ptrs /\ desc \in [Slots -> Addresses] /\ DOMAIN request = Ptrs
        /\ (op = "poll" <=> poller # NoPtr) /\ NoPtr \notin Ptrs
    BY BlockAssumption DEF BlockInv, QueueInv, Types
  <1>8. verdict[k + 1] = "none"
    <2>1. k + 1 \in 1..MaxRequests /\ k + 1 > taken
      BY <1>1, <1>3
    <2> QED BY <2>1 DEF BlockInv, QueueInv, DeviceInv
  <1> HIDE DEF k
  <1>9. /\ request'[p] = [id |-> id, status |-> "pending", serial |-> k + 1]
        /\ \A q \in alive : request'[q] = request[q]
    BY <1>5, <1>7
  <1>10. /\ desc'[Place(k + 1, 0)] = Address("header", p)
         /\ desc'[Place(k + 1, 2)] = Address("status", p)
    <2>1. k + 1 \in Nat \ {0}
      BY <1>1
    <2> DEFINE a == Place(k + 1, 0)
               b == Place(k + 1, 1)
               c == Place(k + 1, 2)
    <2>2. a # b /\ b # c /\ a # c /\ a \in Slots /\ b \in Slots /\ c \in Slots
      BY <1>3, <2>1, PlacesOfOne
    <2> HIDE DEF a, b, c
    <2>3. desc' = [desc EXCEPT ![a] = Address("header", p), ![b] = Address("data", p),
                               ![c] = Address("status", p)]
      BY <1>5 DEF a, b, c
    <2> QED BY <1>7, <2>2, <2>3 DEF a, b, c
  <1>11. ASSUME NEW n \in Open, NEW j \in 0..2
         PROVE  desc'[Place(n, j)] = desc[Place(n, j)]
    <2>1. n \in Nat \ {0} /\ k + 1 \in Nat \ {0} /\ n < k + 1 /\ (k + 1) - n < Window
      BY <1>1
    <2>2. \A i \in 0..2 : Place(n, j) # Place(k + 1, i)
      BY <1>3, <2>1, PlacesApart
    <2>3. Place(n, j) \in Slots
      BY <1>3, <2>1, PlacesOfOne
    <2> DEFINE x == Place(n, j)
               a == Place(k + 1, 0)
               b == Place(k + 1, 1)
               c == Place(k + 1, 2)
    <2>4. x # a /\ x # b /\ x # c /\ x \in Slots
      BY <2>2, <2>3
    <2>5. desc' = [desc EXCEPT ![a] = Address("header", p), ![b] = Address("data", p),
                               ![c] = Address("status", p)]
      BY <1>5
    <2> HIDE DEF x, a, b, c
    <2>6. desc'[x] = desc[x]
      BY <1>7, <2>4, <2>5
    <2> QED BY <2>6 DEF x
  <1>12. MemoryInv'
    <2>1. \A n \in Open' : \E q \in alive' : request'[q].serial = n
      BY <1>1, <1>2, <1>5, <1>9 DEF MemoryInv
    <2>2. ASSUME NEW q \in alive', NEW n, n = request'[q].serial
          PROVE  /\ n \in Open'
                 /\ desc'[Place(n, 0)] = Address("header", q)
                 /\ desc'[Place(n, 2)] = Address("status", q)
                 /\ request'[q].status = IF verdict[n] = "none" THEN "pending" ELSE verdict[n]
                 /\ asked'[n] # Poll => request'[q].id = asked'[n]
      <3>1. CASE q = p
        <4>1. n = k + 1
          BY <1>9, <2>2, <3>1
        <4>2. request'[q].status = "pending" /\ request'[q].id = id
          BY <1>9, <3>1
        <4> QED BY <1>1, <1>8, <1>10, <3>1, <4>1, <4>2
      <3>2. CASE q \in alive
        <4>1. n = request[q].serial /\ request'[q] = request[q]
          BY <1>9, <2>2, <3>2
        <4>2. /\ n \in Open
              /\ desc[Place(n, 0)] = Address("header", q)
              /\ desc[Place(n, 2)] = Address("status", q)
              /\ request[q].status = IF verdict[n] = "none" THEN "pending" ELSE verdict[n]
              /\ asked[n] # Poll => request[q].id = asked[n]
          BY <1>2, <3>2, <4>1 DEF MemoryInv
        <4>3. desc'[Place(n, 0)] = desc[Place(n, 0)] /\ desc'[Place(n, 2)] = desc[Place(n, 2)]
          BY <1>11, <4>2
        <4>4. asked'[n] = asked[n]
          BY <1>1, <4>2
        <4> QED BY <1>1, <4>1, <4>2, <4>3, <4>4
      <3> QED BY <1>5, <3>1, <3>2
    <2>3. \A c \in inflight :
            \E q \in alive' : c.status = Address("status", q) /\ request'[q].serial = c.serial
      BY <1>2, <1>5, <1>9 DEF MemoryInv
    <2> QED BY <1>6, <2>1, <2>2, <2>3 DEF MemoryInv, Place, Address
  <1>13. IgnoredInv'
    <2>1. \A q \in alive : request[q].serial \in 1..k
                           /\ asked'[request'[q].serial] = asked[request[q].serial]
      BY <1>1, <1>2, <1>9 DEF MemoryInv
    <2>2. asked'[request'[p].serial] = who
      BY <1>1, <1>9
    <2>3. poller = NoPtr
      BY <1>7
    <2>4. op' = "poll" => poller' \in alive' /\ asked'[request'[poller'].serial] = Poll
      BY <1>5, <2>2
    <2>5. \A i \in 1..Len(ignored) : ignored[i] \in alive' /\ ignored[i] # poller'
            /\ asked'[request'[ignored[i]].serial] = Poll
      <3> SUFFICES ASSUME NEW i \in 1..Len(ignored)
                   PROVE  ignored[i] \in alive' /\ ignored[i] # poller'
                          /\ asked'[request'[ignored[i]].serial] = Poll
        OBVIOUS
      <3>1. ignored[i] \in alive /\ asked[request[ignored[i]].serial] = Poll
        BY <1>2 DEF IgnoredInv
      <3> QED BY <1>5, <1>7, <2>1, <3>1
    <2>6. \A q \in alive' : asked'[request'[q].serial] = Poll =>
            q = poller' \/ \E i \in 1..Len(ignored) : ignored[i] = q
      <3> SUFFICES ASSUME NEW q \in alive', asked'[request'[q].serial] = Poll
                   PROVE  q = poller' \/ \E i \in 1..Len(ignored) : ignored[i] = q
        OBVIOUS
      <3>1. CASE q = p
        BY <2>2, <3>1
      <3>2. CASE q \in alive
        <4>1. asked[request[q].serial] = Poll /\ q # poller
          BY <1>7, <2>1, <2>3, <3>2
        <4> QED BY <1>2, <3>2, <4>1 DEF IgnoredInv
      <3> QED BY <1>5, <3>1, <3>2
    <2> QED BY <1>2, <1>6, <2>4, <2>5, <2>6 DEF IgnoredInv
  <1>14. ReportInv'
    <2>1. ASSUME NEW n, NEW i, NEW x, Settled(n, i, x) PROVE Settled(n, i, x)'
      <3>1. n \in 1..k /\ n \notin Open /\ asked[n] = i /\ i # Poll /\ verdict[n] = x
        BY <2>1 DEF Settled, k
      <3>2. n \in 1..(k + 1) /\ n # k + 1
        BY <1>1, <3>1
      <3> QED BY <1>1, <1>6, <3>1, <3>2 DEF Settled
    <2>2. \A i \in 1..Len(results) :
            Settled(results[i].serial, results[i].id, results[i].result)'
      BY <1>2, <1>6, <2>1 DEF ReportInv
    <2>3. \A i \in 1..Len(called) : \E n \in 1..N' :
            Settled(n, called[i].id, called[i].result)'
      <3> SUFFICES ASSUME NEW i \in 1..Len(called)
                   PROVE  \E n \in 1..N' : Settled(n, called[i].id, called[i].result)'
        OBVIOUS
      <3>1. PICK n \in 1..k : Settled(n, called[i].id, called[i].result)
        BY <1>2 DEF ReportInv, k
      <3>2. Settled(n, called[i].id, called[i].result)' /\ n \in 1..N'
        BY <1>1, <1>6, <2>1, <3>1
      <3> QED BY <3>2
    <2> QED BY <1>2, <1>6, <2>2, <2>3 DEF ReportInv
  <1> QED BY <1>12, <1>13, <1>14

LEMMA StartActions ==
  ASSUME BlockInv, NEW p \in Ptrs, StartAsync(p) \/ StartPoll(p)
  PROVE  BlockInv'
  <1>1. nextId \in Nat /\ op = "idle" /\ (op = "poll" <=> poller # NoPtr)
        /\ NoPtr \notin Ptrs
    BY BlockAssumption DEF BlockInv, QueueInv, Types, StartAsync, StartPoll
  <1>2. NoPollFailed' => NoPollFailed
    BY DEF NoPollFailed, StartAsync, StartPoll, BlockOperation, reports
  <1>3. CASE StartAsync(p)
    <2>1. BlockOperation(p, nextId, nextId) /\ nextId' = nextId + 1
          /\ op' = "idle" /\ poller' = NoPtr /\ nextId # Poll
      BY <1>1, <1>3 DEF StartAsync, Poll
    <2>2. QueueInv'
      BY <1>1, <2>1, OperationKeepsQueue
    <2>3. NoPollFailed => MemoryInv' /\ IgnoredInv' /\ ReportInv'
      BY <1>1, <2>1, OperationKeepsMemory
    <2> QED BY <1>2, <2>2, <2>3 DEF BlockInv, CallersKeepWindow
  <1>4. CASE StartPoll(p)
    <2>1. BlockOperation(p, 0, Poll) /\ nextId' = nextId
          /\ op' = "poll" /\ poller' = p /\ Poll \in Int /\ Poll < nextId
      BY <1>1, <1>4 DEF StartPoll, Poll
    <2>2. QueueInv'
      BY <1>1, <2>1, OperationKeepsQueue
    <2>3. NoPollFailed => MemoryInv' /\ IgnoredInv' /\ ReportInv'
      BY <1>1, <2>1, OperationKeepsMemory
    <2> QED BY <1>2, <2>2, <2>3 DEF BlockInv, CallersKeepWindow
  <1> QED BY <1>3, <1>4

-----------------------------------------------------------------------------
(* notify(): taking a used element. *)

\* The element acknowledged is the operation published next, and it is open
\* no longer.
LEMMA UsedNumbers ==
  ASSUME BlockInv, NEW p \in Ptrs, NextUsed(p)
  PROVE  /\ handed' = handed + 1 /\ ack' = handed + 1 /\ handed + 1 \in 1..Len(published)
         /\ published[handed + 1] \in Open /\ N' = N
         /\ Open' = Open \ {published[handed + 1]}
         /\ UsedSlot = Place(published[handed + 1], 0)
         /\ desc[Place(published[handed + 1], 0)] = Address("header", p)
         /\ desc' = [desc EXCEPT ![Place(published[handed + 1], 0)] = Null]
  <1>1. handed < Len(published) /\ published[handed + 1] \in Open
        /\ UsedSlot = Place(published[handed + 1], 0)
    BY ElementThere DEF NextUsed
  <1>2. handed \in Nat /\ Len(published) \in Nat /\ N \in Nat /\ ack = handed
        /\ Open = {n \in 1..N : \A i \in 1..handed : published[i] # n}
        /\ DOMAIN asked = 1..N
    BY Numbers DEF BlockInv, QueueInv, RingInv
  <1>3. handed' = handed + 1 /\ ack' = (ack + 1) % RingSize /\ published' = published
        /\ asked' = asked
    BY DEF NextUsed, Acknowledge, device
  <1>4. ack' = handed + 1
    <2>1. handed + 1 < RingSize /\ handed + 1 \in Nat /\ RingSize \in Nat \ {0}
      BY <1>1, <1>2, PublishedBound, RingNumbers DEF BlockInv
    <2>2. (handed + 1) % RingSize = handed + 1
      BY <2>1, ModLess
    <2> QED BY <1>2, <1>3, <2>2
  <1>5. Open' = {n \in 1..N : \A i \in 1..(handed + 1) : published[i] # n} /\ N' = N
    BY <1>2, <1>3 DEF Open, N
  <1>6. Open' = Open \ {published[handed + 1]}
    <2>1. \A i \in 1..(handed + 1) : i \in 1..handed \/ i = handed + 1
      BY <1>2
    <2>2. 1..handed \subseteq 1..(handed + 1) /\ handed + 1 \in 1..(handed + 1)
      BY <1>2
    <2> QED BY <1>2, <1>5, <2>1, <2>2
  <1>7. desc[UsedSlot] = Address("header", p) /\ desc' = [desc EXCEPT ![UsedSlot] = Null]
    BY DEF NextUsed
  <1> QED BY <1>1, <1>2, <1>3, <1>4, <1>5, <1>6, <1>7

LEMMA UsedKeepsQueue ==
  ASSUME BlockInv, NEW p \in Ptrs, NextUsed(p), ignored' \in Seq(Ptrs),
         results' \in Seq([id : Nat, result : Answers, serial : Nat])
  PROVE  QueueInv'
  <1>1. /\ handed' = handed + 1 /\ ack' = handed + 1 /\ handed + 1 \in 1..Len(published)
        /\ N' = N /\ Open' \subseteq Open
        /\ desc' = [desc EXCEPT ![Place(published[handed + 1], 0)] = Null]
    BY UsedNumbers
  <1>2. UNCHANGED <<op, poller, request, queueIndex, availIndex, availRing, usedIndex,
                    usedRing, inflight, irq, taken, published, verdict, nextId, asked,
                    polls, called>>
    BY DEF NextUsed, device, reports
  <1>3. Types'
    <2>1. Null \in Addresses
      BY DEF Null, Address, Addresses
    <2>2. desc' \in [Slots -> Addresses]
      BY <1>1, <2>1 DEF BlockInv, QueueInv, Types
    <2>3. alive' \subseteq Ptrs /\ handed' \in Nat
      BY <1>1 DEF NextUsed, BlockInv, QueueInv, Types
    <2> QED BY <1>2, <2>2, <2>3 DEF BlockInv, QueueInv, Types
  <1>4. RingInv'
    <2>1. handed + 1 <= Len(published)
      BY <1>1
    <2> QED BY <1>1, <1>2, <2>1 DEF BlockInv, QueueInv, RingInv, Place
  <1>5. DeviceInv' /\ PollsInv'
    BY <1>2 DEF BlockInv, QueueInv, DeviceInv, PollsInv, Place
  <1>6. AskedInv'
    BY <1>1, <1>2 DEF BlockInv, QueueInv, AskedInv
  <1> QED BY <1>3, <1>4, <1>5, <1>6 DEF QueueInv

\* Until a polled request fails, the request taken is that operation's, and
\* the others keep their memory and descriptors.
LEMMA UsedKeepsMemory ==
  ASSUME BlockInv, NoPollFailed, NEW p \in Ptrs, NextUsed(p)
  PROVE  /\ MemoryInv'
         /\ p \in alive /\ alive' = alive \ {p}
         /\ request[p].serial = published[handed + 1]
         /\ request[p].status = verdict[published[handed + 1]]
         /\ verdict[published[handed + 1]] \in Answers
         /\ \A q \in alive : request[q].serial = published[handed + 1] => q = p
  <1> DEFINE m == published[handed + 1]
  <1>1. /\ handed' = handed + 1 /\ handed + 1 \in 1..Len(published)
        /\ m \in Open /\ N' = N /\ Open' = Open \ {m}
        /\ desc[Place(m, 0)] = Address("header", p)
        /\ desc' = [desc EXCEPT ![Place(m, 0)] = Null]
    BY UsedNumbers
  <1>2. UNCHANGED <<request, inflight, published, verdict, asked>> /\ alive' = alive \ {p}
    BY DEF NextUsed, device, reports
  <1>3. MemoryInv /\ CallersKeepWindow
    BY DEF BlockInv
  <1>4. verdict[m] \in Answers /\ \A c \in inflight : c.serial # m
    BY <1>1 DEF BlockInv, QueueInv, DeviceInv
  <1>5. Open \subseteq 1..N /\ N \in Nat /\ \A n \in Open : N - n < Window
    BY Numbers DEF BlockInv, QueueInv, AskedInv
  <1>6. desc \in [Slots -> Addresses]
    BY DEF BlockInv, QueueInv, Types
  <1>7. Window \in Nat
    BY BlockAssumption
  <1> HIDE DEF m
  <1>8. \A q \in alive : request[q].serial = m => q = p
    <2> SUFFICES ASSUME NEW q \in alive, request[q].serial = m PROVE q = p
      OBVIOUS
    <2>1. desc[Place(m, 0)] = Address("header", q)
      BY <1>3 DEF MemoryInv
    <2> QED BY <1>1, <2>1 DEF Address
  <1>9. p \in alive /\ request[p].serial = m
    BY <1>1, <1>3, <1>8 DEF MemoryInv
  <1>10. request[p].status = verdict[m]
    <2>1. request[p].status = IF verdict[m] = "none" THEN "pending" ELSE verdict[m]
      BY <1>3, <1>9 DEF MemoryInv
    <2> QED BY <1>4, <2>1 DEF Answers
  <1>11. ASSUME NEW n \in Open, n # m, NEW j \in 0..2
         PROVE  desc'[Place(n, j)] = desc[Place(n, j)]
    <2>1. n \in Nat \ {0} /\ m \in Nat \ {0}
          /\ (n < m => m - n < Window) /\ (m < n => n - m < Window)
      BY <1>1, <1>5, <1>7
    <2>2. Place(n, j) # Place(m, 0)
      <3>1. CASE n < m
        BY <1>3, <2>1, <3>1, PlacesApart
      <3>2. CASE m < n
        BY <1>3, <2>1, <3>2, PlacesApart
      <3> QED BY <1>11, <2>1, <3>1, <3>2
    <2> QED BY <1>1, <1>6, <2>2, PlacesOfOne, <2>1, <1>3
  <1>12. MemoryInv'
    <2>1. \A n \in Open' : \E q \in alive' : request[q].serial = n
      BY <1>1, <1>2, <1>3, <1>9 DEF MemoryInv
    <2>2. ASSUME NEW q \in alive', NEW n, n = request[q].serial
          PROVE  /\ n \in Open'
                 /\ desc'[Place(n, 0)] = Address("header", q)
                 /\ desc'[Place(n, 2)] = Address("status", q)
                 /\ request[q].status = IF verdict[n] = "none" THEN "pending" ELSE verdict[n]
                 /\ asked[n] # Poll => request[q].id = asked[n]
      <3>1. q \in alive /\ n # m
        BY <1>2, <1>8, <2>2
      <3>2. /\ n \in Open
            /\ desc[Place(n, 0)] = Address("header", q)
            /\ desc[Place(n, 2)] = Address("status", q)
            /\ request[q].status = IF verdict[n] = "none" THEN "pending" ELSE verdict[n]
            /\ asked[n] # Poll => request[q].id = asked[n]
        BY <1>3, <2>2, <3>1 DEF MemoryInv
      <3>3. desc'[Place(n, 0)] = desc[Place(n, 0)] /\ desc'[Place(n, 2)] = desc[Place(n, 2)]
        BY <1>11, <3>1, <3>2
      <3> QED BY <1>1, <3>1, <3>2, <3>3
    <2>3. \A c \in inflight :
            \E q \in alive' : c.status = Address("status", q) /\ request[q].serial = c.serial
      BY <1>2, <1>3, <1>4, <1>9 DEF MemoryInv
    <2>4. \A q \in alive' :
            LET n == request[q].serial
            IN  /\ n \in Open'
                /\ desc'[Place(n, 0)] = Address("header", q)
                /\ desc'[Place(n, 2)] = Address("status", q)
                /\ request[q].status = IF verdict[n] = "none" THEN "pending" ELSE verdict[n]
                /\ asked[n] # Poll => request[q].id = asked[n]
      BY <2>2
    <2> QED BY <1>2, <2>1, <2>3, <2>4 DEF MemoryInv
  <1> QED BY <1>2, <1>4, <1>8, <1>9, <1>10, <1>12 DEF m

\* What operation settles an acknowledged element leaves settled.
LEMMA UsedKeepsSettled ==
  ASSUME BlockInv, NEW p \in Ptrs, NextUsed(p), NEW n, NEW id, NEW x, Settled(n, id, x)
  PROVE  Settled(n, id, x)'
  <1>1. N' = N /\ Open' \subseteq Open
    BY UsedNumbers
  <1>2. asked' = asked /\ verdict' = verdict
    BY DEF NextUsed, device
  <1> QED BY <1>1, <1>2 DEF Settled

\* The list without its k-th element.
LEMMA WithoutFacts ==
  ASSUME NEW S, NEW s \in Seq(S), NEW k \in 1..Len(s)
  PROVE  /\ Without(s, k) \in Seq(S) /\ Len(Without(s, k)) = Len(s) - 1 /\ Len(s) \in Nat
         /\ \A i \in 1..(Len(s) - 1) : Without(s, k)[i] = IF i < k THEN s[i] ELSE s[i + 1]
  <1> DEFINE a == SubSeq(s, 1, k - 1)
             b == SubSeq(s, k + 1, Len(s))
  <1>1. Len(s) \in Nat /\ k \in Nat /\ k >= 1 /\ k <= Len(s)
    OBVIOUS
  <1>2. a \in Seq(S) /\ Len(a) = k - 1 /\ \A i \in 1..(k - 1) : a[i] = s[i]
    <2>1. \A i \in 1..(k - 1) : s[i] \in S
      BY <1>1
    <2> QED BY <1>1, <2>1
  <1>3. b \in Seq(S) /\ Len(b) = Len(s) - k /\ \A i \in 1..(Len(s) - k) : b[i] = s[k + i]
    <2>1. \A i \in (k + 1)..Len(s) : s[i] \in S
      BY <1>1
    <2> QED BY <1>1, <2>1
  <1> HIDE DEF a, b
  <1>4. a \o b \in Seq(S) /\ Len(a \o b) = Len(s) - 1
    <2>1. a \in Seq(S) /\ b \in Seq(S)
      BY <1>2, <1>3
    <2>2. a \o b \in Seq(S)
      BY <2>1
    <2>3. Len(a \o b) = Len(a) + Len(b)
      BY <2>1
    <2> QED BY <1>1, <1>2, <1>3, <2>2, <2>3
  <1>5. ASSUME NEW i \in 1..(Len(s) - 1)
        PROVE  (a \o b)[i] = IF i < k THEN s[i] ELSE s[i + 1]
    <2>1. CASE i < k
      BY <1>1, <1>2, <1>3, <2>1
    <2>2. CASE ~(i < k)
      <3>1. (a \o b)[i] = b[i - (k - 1)] /\ i - (k - 1) \in 1..(Len(s) - k)
        BY <1>1, <1>2, <1>3, <2>2
      <3>2. k + (i - (k - 1)) = i + 1
        BY <1>1
      <3> QED BY <1>3, <2>2, <3>1, <3>2
    <2> QED BY <2>1, <2>2
  <1> QED BY <1>1, <1>4, <1>5 DEF Without, a, b

LEMMA NotifyIgnoredKeeps ==
  ASSUME BlockInv, NEW p \in Ptrs, NotifyIgnored(p)
  PROVE  BlockInv'
  <1>1. NextUsed(p) /\ results' = results
    BY DEF NotifyIgnored
  <1>2. ignored \in Seq(Ptrs) /\ results \in Seq([id : Nat, result : Answers, serial : Nat])
        /\ (op = "poll" <=> poller # NoPtr)
    BY DEF BlockInv, QueueInv, Types
  <1>3. PICK k \in 1..Len(ignored) : ignored[k] = p /\ ignored' = Without(ignored, k)
    BY <1>2 DEF NotifyIgnored, IgnoredAt
  <1>4. /\ ignored' \in Seq(Ptrs) /\ Len(ignored') = Len(ignored) - 1 /\ Len(ignored) \in Nat
        /\ \A i \in 1..Len(ignored') :
             ignored'[i] = IF i < k THEN ignored[i] ELSE ignored[i + 1]
    BY <1>2, <1>3, WithoutFacts
  <1>5. QueueInv'
    BY <1>1, <1>2, <1>4, UsedKeepsQueue
  <1>6. UNCHANGED <<op, poller, request, asked, polls, called>>
    BY <1>1 DEF NextUsed, reports
  <1>7. NoPollFailed' => NoPollFailed
    BY <1>6 DEF NoPollFailed
  <1>8. ASSUME NoPollFailed PROVE MemoryInv' /\ IgnoredInv' /\ ReportInv'
    <2>1. MemoryInv' /\ alive' = alive \ {p} /\ p \in alive
      BY <1>1, <1>8, UsedKeepsMemory
    <2>2. IgnoredInv /\ ReportInv
      BY <1>8 DEF BlockInv
    <2>3. op = "notify" /\ poller = NoPtr /\ NoPtr \notin alive
      BY <1>1, <1>2, BlockAssumption DEF NextUsed, BlockInv, QueueInv, Types
    \* Each place of the shorter list is a place of the old one other than k.
    <2> DEFINE kept == [i \in 1..Len(ignored') |-> IF i < k THEN i ELSE i + 1]
    <2>4. \A i \in 1..Len(ignored') : /\ kept[i] \in 1..Len(ignored) /\ kept[i] # k
                                      /\ ignored'[i] = ignored[kept[i]]
      BY <1>4
    <2>5. \A i, j \in 1..Len(ignored') : kept[i] = kept[j] => i = j
      BY <1>4
    <2>6. \A j \in 1..Len(ignored) : j # k => \E i \in 1..Len(ignored') : kept[i] = j
      <3> SUFFICES ASSUME NEW j \in 1..Len(ignored), j # k
                   PROVE  \E i \in 1..Len(ignored') : kept[i] = j
        OBVIOUS
      <3>1. CASE j < k
        <4>1. j \in 1..Len(ignored') /\ kept[j] = j
          BY <1>4, <3>1
        <4> QED BY <4>1
      <3>2. CASE j > k
        <4>1. j - 1 \in 1..Len(ignored') /\ kept[j - 1] = j
          BY <1>4, <3>2
        <4> QED BY <4>1
      <3> QED BY <1>4, <3>1, <3>2
    <2> HIDE DEF kept
    <2>7. \A i, j \in 1..Len(ignored) : ignored[i] = ignored[j] => i = j
      BY <2>2 DEF IgnoredInv
    <2>8. \A i \in 1..Len(ignored') :
            ignored'[i] \in alive' /\ ignored'[i] # poller
            /\ asked[request[ignored'[i]].serial] = Poll
      <3> SUFFICES ASSUME NEW i \in 1..Len(ignored')
                   PROVE  ignored'[i] \in alive' /\ ignored'[i] # poller
                          /\ asked[request[ignored'[i]].serial] = Poll
        OBVIOUS
      <3>1. ignored[kept[i]] # p
        BY <1>3, <2>4, <2>7
      <3>2. ignored[kept[i]] \in alive /\ asked[request[ignored[kept[i]]].serial] = Poll
        BY <2>2, <2>4 DEF IgnoredInv
      <3> QED BY <2>1, <2>3, <2>4, <3>1, <3>2
    <2>9. \A i, j \in 1..Len(ignored') : ignored'[i] = ignored'[j] => i = j
      <3> SUFFICES ASSUME NEW i \in 1..Len(ignored'), NEW j \in 1..Len(ignored'),
                          ignored'[i] = ignored'[j]
                   PROVE  i = j
        OBVIOUS
      <3>1. kept[i] \in 1..Len(ignored) /\ kept[j] \in 1..Len(ignored)
            /\ ignored[kept[i]] = ignored[kept[j]]
        BY <2>4
      <3>2. kept[i] = kept[j]
        BY <2>7, <3>1
      <3> QED BY <2>5, <3>2
    <2>10. \A q \in alive' : asked[request[q].serial] = Poll =>
             q = poller \/ \E i \in 1..Len(ignored') : ignored'[i] = q
      <3> SUFFICES ASSUME NEW q \in alive', asked[request[q].serial] = Poll
                   PROVE  \E i \in 1..Len(ignored') : ignored'[i] = q
        OBVIOUS
      <3>1. PICK j \in 1..Len(ignored) : ignored[j] = q
        BY <2>1, <2>2, <2>3 DEF IgnoredInv
      <3>2. j # k
        BY <1>3, <2>1, <3>1
      <3>3. PICK i \in 1..Len(ignored') : kept[i] = j
        BY <2>6, <3>2
      <3> QED BY <2>4, <3>1, <3>3
    <2>11. IgnoredInv'
      BY <1>6, <2>3, <2>8, <2>9, <2>10 DEF IgnoredInv
    <2>12. ReportInv'
      <3>1. \A n, id, x : Settled(n, id, x) => Settled(n, id, x)'
        BY <1>1, UsedKeepsSettled
      <3>2. N' = N
        BY <1>1, UsedNumbers
      <3>3. \A i \in 1..Len(results) :
              Settled(results[i].serial, results[i].id, results[i].result)'
        BY <1>1, <1>6, <2>2, <3>1 DEF ReportInv
      <3>4. \A i \in 1..Len(called) : \E n \in 1..N' :
              Settled(n, called[i].id, called[i].result)'
        BY <1>6, <2>2, <3>1, <3>2 DEF ReportInv
      <3> QED BY <1>1, <1>6, <2>2, <3>3, <3>4 DEF ReportInv
    <2> QED BY <2>1, <2>11, <2>12
  <1> QED BY <1>5, <1>7, <1>8 DEF BlockInv, CallersKeepWindow

LEMMA NotifyResultKeeps ==
  ASSUME BlockInv, NEW p \in Ptrs, NotifyResult(p)
  PROVE  BlockInv'
  <1> DEFINE m == published[handed + 1]
             r == [id |-> request[p].id,
                   result |-> IF request[p].status = "ok" THEN "ok" ELSE "failed",
                   serial |-> request[p].serial]
             S == [id : Nat, result : Answers, serial : Nat]
  <1>1. NextUsed(p) /\ ignored' = ignored /\ results' = Append(results, r)
        /\ IgnoredAt(p) = {}
    BY DEF NotifyResult
  <1>2. ignored \in Seq(Ptrs) /\ results \in Seq(S) /\ (op = "poll" <=> poller # NoPtr)
    BY DEF BlockInv, QueueInv, Types
  <1>3. r \in S
    BY DEF BlockInv, QueueInv, Types, Answers
  <1>4. /\ results' \in Seq(S) /\ Len(results') = Len(results) + 1 /\ Len(results) \in Nat
        /\ \A i \in 1..Len(results) : results'[i] = results[i]
        /\ results'[Len(results) + 1] = r
    <2> HIDE DEF S, r
    <2> QED BY <1>1, <1>2, <1>3
  <1>5. QueueInv'
    BY <1>1, <1>2, <1>4, UsedKeepsQueue
  <1>6. UNCHANGED <<op, poller, request, asked, polls, called, verdict>>
    BY <1>1 DEF NextUsed, reports, device
  <1>7. NoPollFailed' => NoPollFailed
    BY <1>6 DEF NoPollFailed
  <1>8. ASSUME NoPollFailed PROVE MemoryInv' /\ IgnoredInv' /\ ReportInv'
    <2>1. /\ MemoryInv' /\ alive' = alive \ {p} /\ p \in alive
          /\ request[p].serial = m /\ request[p].status = verdict[m] /\ verdict[m] \in Answers
      BY <1>1, <1>8, UsedKeepsMemory
    <2>2. MemoryInv /\ IgnoredInv /\ ReportInv
      BY <1>8 DEF BlockInv
    <2>3. op = "notify" /\ poller = NoPtr /\ NoPtr \notin alive
      BY <1>1, <1>2, BlockAssumption DEF NextUsed, BlockInv, QueueInv, Types
    <2>4. \A i \in 1..Len(ignored) : ignored[i] # p
      BY <1>1, <1>2 DEF IgnoredAt
    <2>5. IgnoredInv'
      BY <1>1, <1>6, <2>1, <2>2, <2>3, <2>4 DEF IgnoredInv
    <2>6. asked[m] # Poll /\ request[p].id = asked[m]
      BY <2>1, <2>2, <2>3, <2>4 DEF IgnoredInv, MemoryInv
    <2>7. m \in Open /\ N' = N /\ Open' = Open \ {m} /\ Open \subseteq 1..N
      BY <1>1, UsedNumbers, Numbers DEF BlockInv, QueueInv
    <2>8. r.serial = m /\ r.id = asked[m] /\ r.result = verdict[m]
      BY <2>1, <2>6 DEF Answers
    <2> HIDE DEF r, m
    <2>9. \A n, id, x : n = m /\ id = asked[m] /\ x = verdict[m] => Settled(n, id, x)'
      BY <1>6, <2>6, <2>7 DEF Settled
    <2>10. \A n, id, x : Settled(n, id, x) => Settled(n, id, x)' /\ n # m
      <3>1. \A n, id, x : Settled(n, id, x) => Settled(n, id, x)'
        BY <1>1, UsedKeepsSettled
      <3>2. \A n, id, x : Settled(n, id, x) => n # m
        BY <2>7 DEF Settled
      <3> QED BY <3>1, <3>2
    <2>11. \A i \in 1..Len(results') :
             Settled(results[i].serial, results[i].id, results[i].result)'
      <3> SUFFICES ASSUME NEW i \in 1..Len(results')
                   PROVE  Settled(results[i].serial, results[i].id, results[i].result)'
        OBVIOUS
      <3>1. CASE i \in 1..Len(results)
        <4>1. Settled(results[i].serial, results[i].id, results[i].result)
          BY <2>2, <3>1 DEF ReportInv
        <4>2. results'[i] = results[i]
          BY <1>4, <3>1
        <4> QED BY <2>10, <4>1, <4>2
      <3>2. CASE i = Len(results) + 1
        <4>1. results'[i] = r
          BY <1>4, <3>2
        <4> QED BY <2>8, <2>9, <4>1
      <3> QED BY <1>4, <3>1, <3>2
    <2>12. \A i \in 1..Len(results) : results[i].serial # m
      BY <2>2, <2>10 DEF ReportInv
    <2>13. \A i, j \in 1..Len(results') : results'[i].serial = results'[j].serial => i = j
      <3>1. \A i, j \in 1..Len(results) : results[i].serial = results[j].serial => i = j
        BY <2>2 DEF ReportInv
      <3>2. \A i \in 1..Len(results') :
              i # Len(results) + 1 => i \in 1..Len(results) /\ results'[i] = results[i]
        BY <1>4
      <3>3. results'[Len(results) + 1].serial = m
        BY <1>4, <2>8
      <3> QED BY <2>12, <3>1, <3>2, <3>3
    <2>14. \A i \in 1..Len(called) : called[i].id # asked[m]
      <3> SUFFICES ASSUME NEW i \in 1..Len(called), called[i].id = asked[m] PROVE FALSE
        OBVIOUS
      <3>1. PICK n \in 1..N : Settled(n, called[i].id, called[i].result)
        BY <2>2 DEF ReportInv
      <3>2. n # m /\ asked[n] = asked[m] /\ asked[n] # Poll
        BY <2>10, <3>1 DEF Settled
      <3> QED BY <2>7, <3>2 DEF BlockInv, QueueInv, AskedInv
    <2>15. \A i \in 1..Len(called), j \in 1..Len(results') : called[i].id # results'[j].id
      <3> SUFFICES ASSUME NEW i \in 1..Len(called), NEW j \in 1..Len(results')
                   PROVE  called[i].id # results'[j].id
        OBVIOUS
      <3>1. CASE j \in 1..Len(results)
        BY <1>4, <2>2, <3>1 DEF ReportInv
      <3>2. CASE j = Len(results) + 1
        <4>1. results'[j].id = asked[m]
          BY <1>4, <2>8, <3>2
        <4> QED BY <2>14, <4>1
      <3> QED BY <1>4, <3>1, <3>2
    <2>16. \A i \in 1..Len(called) : \E n \in 1..N' :
             Settled(n, called[i].id, called[i].result)'
      BY <1>6, <2>2, <2>7, <2>10 DEF ReportInv
    <2>17. ReportInv'
      BY <1>6, <2>2, <2>11, <2>13, <2>15, <2>16 DEF ReportInv
    <2> QED BY <2>1, <2>5, <2>17
  <1> QED BY <1>5, <1>7, <1>8 DEF BlockInv, CallersKeepWindow

-----------------------------------------------------------------------------
(* The device. *)

LEMMA DeviceTakeKeeps ==
  ASSUME BlockInv, DeviceTake
  PROVE  BlockInv'
  <1> USE DEF queue, reports
  <1> DEFINE n == taken + 1
             c == [serial |-> n, head |-> availRing[taken % RingSize], answered |-> FALSE,
                   status |-> desc[(availRing[taken % RingSize] + 2) % RingSize]]
  <1>1. N' = N /\ Open' = Open
    BY SameOpen DEF DeviceTake
  <1>2. taken' = n /\ inflight' = inflight \cup {c}
    BY DEF DeviceTake
  <1>3. UNCHANGED <<op, poller, alive, request, desc, queueIndex, availIndex, availRing, ack,
                    usedIndex, usedRing, irq, published, verdict, ignored, results, nextId,
                    asked, handed, polls, called>>
    BY DEF DeviceTake
  <1>4. N \in Nat /\ taken \in Nat /\ taken <= N /\ N <= MaxRequests /\ availIndex = N
    BY Numbers DEF BlockInv, QueueInv, RingInv
  <1>5. RingSize \in Nat \ {0} /\ IndexMod >= RingSize /\ IndexMod \in Nat \ {0}
        /\ MaxRequests \in Nat /\ MaxRequests < RingSize
    BY RingNumbers DEF BlockInv
  <1>6. taken < RingSize /\ taken < IndexMod
    BY <1>4, <1>5
  <1>7. taken % RingSize = taken /\ taken % IndexMod = taken
    BY <1>4, <1>5, <1>6, ModLess
  <1>8. taken # N
    BY <1>4, <1>7 DEF DeviceTake
  <1>9. n \in 1..N /\ n \in 1..MaxRequests /\ n \in Nat \ {0} /\ n - 1 = taken /\ n > taken
    BY <1>4, <1>5, <1>8
  <1>10. availRing[taken] = Place(n, 0)
    <2>1. availRing[n - 1] = Place(n, 0)
      BY <1>9 DEF BlockInv, QueueInv, RingInv
    <2> QED BY <1>9, <2>1
  <1>11. c = [serial |-> n, head |-> Place(n, 0), answered |-> FALSE,
              status |-> desc[Place(n, 2)]]
    <2>1. (Place(n, 0) + 2) % RingSize = Place(n, 2)
      <3> HIDE DEF n
      <3> QED BY <1>9, StatusPlace DEF BlockInv
    <2> QED BY <1>7, <1>10, <2>1
  <1>12. Place(n, 0) \in Slots /\ Place(n, 2) \in Slots
    <2> HIDE DEF n
    <2> QED BY <1>9, PlacesOfOne DEF BlockInv
  <1>13. desc[Place(n, 2)] \in Addresses
    BY <1>12 DEF BlockInv, QueueInv, Types
  <1> HIDE DEF n, c
  <1>14. c.serial = n /\ c.head = Place(n, 0) /\ c.answered = FALSE
         /\ c.status = desc[Place(n, 2)]
         /\ c \in [serial : 1..n, head : Slots, answered : BOOLEAN, status : Addresses]
    BY <1>9, <1>11, <1>12, <1>13
  <1>15. Types'
    BY <1>2, <1>3, <1>9 DEF BlockInv, QueueInv, Types
  <1>16. RingInv'
    BY <1>1, <1>2, <1>3, <1>9 DEF BlockInv, QueueInv, RingInv, Place
  <1>17. verdict[n] = "none"
    BY <1>9 DEF BlockInv, QueueInv, DeviceInv
  <1>18. \A i \in 1..Len(published) : published[i] \in 1..taken /\ published[i] # n
    BY <1>4, <1>9 DEF BlockInv, QueueInv, DeviceInv
  <1>19. \A d \in inflight : d.serial \in 1..taken /\ d.serial # n
    BY <1>4, <1>9 DEF BlockInv, QueueInv, DeviceInv
  <1>20. DeviceInv'
    <2>1. ASSUME NEW d \in inflight'
          PROVE  /\ d \in [serial : 1..n, head : Slots, answered : BOOLEAN, status : Addresses]
                 /\ d.head = Place(d.serial, 0)
                 /\ verdict[d.serial] = "none" <=> ~d.answered
                 /\ \A i \in 1..Len(published) : published[i] # d.serial
      <3>1. CASE d = c
        BY <1>14, <1>17, <1>18, <3>1
      <3>2. CASE d \in inflight
        <4>1. /\ d \in [serial : 1..taken, head : Slots, answered : BOOLEAN, status : Addresses]
              /\ d.head = Place(d.serial, 0)
              /\ verdict[d.serial] = "none" <=> ~d.answered
              /\ \A i \in 1..Len(published) : published[i] # d.serial
          BY <3>2 DEF BlockInv, QueueInv, DeviceInv
        <4>2. 1..taken \subseteq 1..n
          BY <1>4, <1>9
        <4> QED BY <4>1, <4>2
      <3> QED BY <1>2, <3>1, <3>2
    <2>2. \A d, e \in inflight' : d.serial = e.serial => d = e
      <3>1. \A d, e \in inflight : d.serial = e.serial => d = e
        BY DEF BlockInv, QueueInv, DeviceInv
      <3> QED BY <1>2, <1>14, <1>19, <3>1
    <2>3. \A i \in 1..Len(published) : published[i] \in 1..n /\ verdict[published[i]] \in Answers
      <3>1. 1..taken \subseteq 1..n
        BY <1>4, <1>9
      <3> QED BY <1>18, <3>1 DEF BlockInv, QueueInv, DeviceInv
    <2>4. \A i, j \in 1..Len(published) : published[i] = published[j] => i = j
      BY DEF BlockInv, QueueInv, DeviceInv
    <2>5. \A k \in 1..MaxRequests : k > n => verdict[k] = "none"
      <3>1. \A k \in 1..MaxRequests : k > n => k > taken
        BY <1>4, <1>9
      <3> QED BY <3>1 DEF BlockInv, QueueInv, DeviceInv
    <2> QED BY <1>2, <1>3, <2>1, <2>2, <2>3, <2>4, <2>5 DEF DeviceInv
  <1>21. AskedInv'
    BY <1>1, <1>3 DEF BlockInv, QueueInv, AskedInv
  <1>22. PollsInv'
    <2>1. 1..taken \subseteq 1..n
      BY <1>4, <1>9
    <2> QED BY <1>2, <1>3, <2>1 DEF BlockInv, QueueInv, PollsInv
  <1>23. NoPollFailed' => NoPollFailed
    BY <1>3 DEF NoPollFailed
  <1>24. ASSUME NoPollFailed PROVE MemoryInv' /\ IgnoredInv' /\ ReportInv'
    <2>1. MemoryInv /\ IgnoredInv /\ ReportInv
      BY <1>24 DEF BlockInv
    <2>2. n \in Open
      <3>1. \A i \in 1..handed : i \in 1..Len(published)
        BY Numbers DEF BlockInv, QueueInv, RingInv
      <3> QED BY <1>9, <1>18, <3>1, Numbers DEF BlockInv, QueueInv
    <2>3. \E q \in alive : c.status = Address("status", q) /\ request[q].serial = c.serial
      BY <1>14, <2>1, <2>2 DEF MemoryInv
    <2>4. MemoryInv'
      BY <1>1, <1>2, <1>3, <2>1, <2>3 DEF MemoryInv
    <2>5. IgnoredInv'
      BY <1>3, <2>1 DEF IgnoredInv
    <2>6. ReportInv'
      BY <1>1, <1>3, <2>1 DEF ReportInv, Settled
    <2> QED BY <2>4, <2>5, <2>6
  <1> QED BY <1>15, <1>16, <1>20, <1>21, <1>22, <1>23, <1>24 DEF BlockInv, QueueInv, CallersKeepWindow

LEMMA DeviceAnswerKeeps ==
  ASSUME BlockInv, NEW c \in inflight, NEW a \in Answers, DeviceAnswer(c, a)
  PROVE  BlockInv'
  <1> USE DEF queue, reports
  <1> DEFINE n == c.serial
             d == [c EXCEPT !.answered = TRUE]
  <1>1. N' = N /\ Open' = Open
    BY SameOpen DEF DeviceAnswer
  <1>2. UNCHANGED <<op, poller, alive, desc, queueIndex, availIndex, availRing, ack,
                    usedIndex, usedRing, irq, taken, published, ignored, results, nextId,
                    asked, handed, polls, called>>
    BY DEF DeviceAnswer
  <1>3. /\ ~c.answered
        /\ inflight' = (inflight \ {c}) \cup {d}
        /\ verdict' = [verdict EXCEPT ![n] = a]
        /\ request' = IF c.status.kind = "status"
                      THEN [request EXCEPT ![c.status.ptr].status = a]
                      ELSE request
    BY DEF DeviceAnswer
  <1>4. /\ c \in [serial : 1..taken, head : Slots, answered : BOOLEAN, status : Addresses]
        /\ c.head = Place(n, 0)
        /\ verdict[n] = "none"
        /\ \A i \in 1..Len(published) : published[i] # n
    BY <1>3 DEF BlockInv, QueueInv, DeviceInv
  <1>5. taken \in Nat /\ taken <= N /\ N <= MaxRequests /\ N \in Nat /\ MaxRequests \in Nat
    BY Numbers, RingNumbers DEF BlockInv, QueueInv, RingInv
  <1>6. n \in 1..taken /\ n \in 1..MaxRequests
    BY <1>4, <1>5
  <1>7. d \in [serial : 1..taken, head : Slots, answered : BOOLEAN, status : Addresses]
        /\ d.serial = n /\ d.head = c.head /\ d.answered = TRUE /\ d.status = c.status
    BY <1>4
  <1>8. verdict \in [1..MaxRequests -> {"none"} \cup Answers]
    BY DEF BlockInv, QueueInv, Types
  <1> HIDE DEF n, d
  <1>9. verdict' \in [1..MaxRequests -> {"none"} \cup Answers] /\ verdict'[n] = a
        /\ \A k : k # n => verdict'[k] = verdict[k]
    <2>1. verdict' \in [1..MaxRequests -> {"none"} \cup Answers] /\ verdict'[n] = a
      BY <1>3, <1>6, <1>8
    <2>2. \A k : k # n => verdict'[k] = verdict[k]
      BY <1>3
    <2> QED BY <2>1, <2>2
  <1>10. request' \in [Ptrs -> [id : Nat, status : {"pending"} \cup Answers, serial : Nat]]
    BY <1>3 DEF BlockInv, QueueInv, Types
  <1>11. Types'
    BY <1>2, <1>9, <1>10 DEF BlockInv, QueueInv, Types
  <1>12. RingInv' /\ AskedInv'
    BY <1>1, <1>2 DEF BlockInv, QueueInv, RingInv, AskedInv, Place
  <1>13. \A e \in inflight : e # c => e.serial # n
    BY DEF BlockInv, QueueInv, DeviceInv, n
  <1>14. DeviceInv'
    <2>1. ASSUME NEW e \in inflight'
          PROVE  /\ e \in [serial : 1..taken, head : Slots, answered : BOOLEAN, status : Addresses]
                 /\ e.head = Place(e.serial, 0)
                 /\ verdict'[e.serial] = "none" <=> ~e.answered
                 /\ \A i \in 1..Len(published) : published[i] # e.serial
      <3>1. CASE e = d
        BY <1>4, <1>7, <1>9, <3>1 DEF Answers
      <3>2. CASE e \in inflight /\ e # c
        BY <1>9, <1>13, <3>2 DEF BlockInv, QueueInv, DeviceInv
      <3> QED BY <1>3, <3>1, <3>2
    <2>2. \A e, f \in inflight' : e.serial = f.serial => e = f
      <3>1. \A e, f \in inflight : e.serial = f.serial => e = f
        BY DEF BlockInv, QueueInv, DeviceInv
      <3> QED BY <1>3, <1>7, <1>13, <3>1
    <2>3. \A i \in 1..Len(published) : published[i] \in 1..taken /\ verdict'[published[i]] \in Answers
      BY <1>4, <1>9 DEF BlockInv, QueueInv, DeviceInv
    <2>4. \A i, j \in 1..Len(published) : published[i] = published[j] => i = j
      BY DEF BlockInv, QueueInv, DeviceInv
    <2>5. \A k \in 1..MaxRequests : k > taken => verdict'[k] = "none"
      <3>1. \A k \in 1..MaxRequests : k > taken => k # n
        BY <1>5, <1>6
      <3> QED BY <1>9, <3>1 DEF BlockInv, QueueInv, DeviceInv
    <2> QED BY <1>2, <2>1, <2>2, <2>3, <2>4, <2>5 DEF DeviceInv
  <1>15. PollsInv'
    <2> SUFFICES ASSUME NEW i \in 1..Len(polls),
                        \A k \in 1..(i - 1) : polls[k].result = "ok"
                 PROVE  polls[i].serial \in 1..taken
                        /\ polls[i].result = verdict'[polls[i].serial]
      BY <1>2 DEF PollsInv
    <2>1. polls[i].serial \in 1..taken /\ polls[i].result = verdict[polls[i].serial]
      BY DEF BlockInv, QueueInv, PollsInv
    <2>2. polls[i].result \in Answers
      <3> DEFINE S == [serial : Nat, result : Answers]
      <3>1. polls \in Seq(S)
        BY DEF BlockInv, QueueInv, Types
      <3> HIDE DEF S
      <3>2. polls[i] \in S
        BY <3>1
      <3> QED BY <3>2 DEF S
    <2>3. polls[i].serial # n
      BY <1>4, <2>1, <2>2 DEF Answers, n
    <2> QED BY <1>9, <2>1, <2>3
  <1>16. NoPollFailed' => NoPollFailed
    BY <1>2 DEF NoPollFailed
  <1>17. ASSUME NoPollFailed PROVE MemoryInv' /\ IgnoredInv' /\ ReportInv'
    <2>1. MemoryInv /\ IgnoredInv /\ ReportInv
      BY <1>17 DEF BlockInv
    <2>2. PICK p \in alive : c.status = Address("status", p) /\ request[p].serial = n
      BY <2>1 DEF MemoryInv, n
    <2>3. request' = [request EXCEPT ![p].status = a]
      BY <1>3, <2>2 DEF Address
    <2>4. alive \subseteq Ptrs /\ request \in
            [Ptrs -> [id : Nat, status : {"pending"} \cup Answers, serial : Nat]]
      BY DEF BlockInv, QueueInv, Types
    <2>5. /\ \A q \in alive : request'[q].serial = request[q].serial
                              /\ request'[q].id = request[q].id
          /\ \A q \in alive : q # p => request'[q].status = request[q].status
          /\ request'[p].status = a
      BY <2>3, <2>4
    <2>6. \A q \in alive : request[q].serial = n => q = p
      <3> SUFFICES ASSUME NEW q \in alive, request[q].serial = n PROVE q = p
        OBVIOUS
      <3>1. desc[Place(n, 0)] = Address("header", q) /\ desc[Place(n, 0)] = Address("header", p)
        BY <2>1, <2>2 DEF MemoryInv
      <3> QED BY <3>1 DEF Address
    <2>7. MemoryInv'
      <3>1. \A k \in Open : \E q \in alive : request'[q].serial = k
        BY <2>1, <2>5 DEF MemoryInv
      <3>2. \A q \in alive :
              LET k == request'[q].serial
              IN  /\ k \in Open
                  /\ desc[Place(k, 0)] = Address("header", q)
                  /\ desc[Place(k, 2)] = Address("status", q)
                  /\ request'[q].status = IF verdict'[k] = "none" THEN "pending" ELSE verdict'[k]
                  /\ asked[k] # Poll => request'[q].id = asked[k]
        <4> SUFFICES ASSUME NEW q \in alive, NEW k, k = request[q].serial
                     PROVE  /\ k \in Open
                            /\ desc[Place(k, 0)] = Address("header", q)
                            /\ desc[Place(k, 2)] = Address("status", q)
                            /\ request'[q].status =
                                 IF verdict'[k] = "none" THEN "pending" ELSE verdict'[k]
                            /\ asked[k] # Poll => request[q].id = asked[k]
          BY <2>5
        <4>1. /\ k \in Open
              /\ desc[Place(k, 0)] = Address("header", q)
              /\ desc[Place(k, 2)] = Address("status", q)
              /\ request[q].status = IF verdict[k] = "none" THEN "pending" ELSE verdict[k]
              /\ asked[k] # Poll => request[q].id = asked[k]
          BY <2>1 DEF MemoryInv
        <4>2. CASE q = p
          BY <1>9, <2>2, <2>5, <4>1, <4>2 DEF Answers
        <4>3. CASE q # p
          BY <1>9, <2>5, <2>6, <4>1, <4>3
        <4> QED BY <4>2, <4>3
      <3>3. \A e \in inflight' :
              \E q \in alive : e.status = Address("status", q) /\ request'[q].serial = e.serial
        <4>1. \A e \in inflight :
                \E q \in alive : e.status = Address("status", q) /\ request'[q].serial = e.serial
          BY <2>1, <2>5 DEF MemoryInv
        <4>2. d.status = Address("status", p) /\ request'[p].serial = d.serial
          BY <1>7, <2>2, <2>5
        <4> QED BY <1>3, <4>1, <4>2
      <3> QED BY <1>1, <1>2, <3>1, <3>2, <3>3 DEF MemoryInv
    <2>8. IgnoredInv'
      <3>1. op = "poll" => poller \in alive /\ asked[request'[poller].serial] = Poll
        BY <2>1, <2>5 DEF IgnoredInv
      <3>2. \A i \in 1..Len(ignored) : ignored[i] \in alive /\ ignored[i] # poller
                                       /\ asked[request'[ignored[i]].serial] = Poll
        BY <2>1, <2>5 DEF IgnoredInv
      <3>3. \A q \in alive : asked[request'[q].serial] = Poll =>
              q = poller \/ \E i \in 1..Len(ignored) : ignored[i] = q
        BY <2>1, <2>5 DEF IgnoredInv
      <3> QED BY <1>2, <2>1, <3>1, <3>2, <3>3 DEF IgnoredInv
    <2>9. ReportInv'
      <3>1. n \in Open
        <4>1. request[p].serial \in Open
          BY <2>1 DEF MemoryInv
        <4> QED BY <2>2, <4>1
      <3>2. \A k, id, x : Settled(k, id, x) => Settled(k, id, x)'
        BY <1>1, <1>2, <1>9, <3>1 DEF Settled
      <3>3. \A i \in 1..Len(results) :
              Settled(results[i].serial, results[i].id, results[i].result)'
        BY <1>2, <2>1, <3>2 DEF ReportInv
      <3>4. \A i \in 1..Len(called) : \E k \in 1..N' :
              Settled(k, called[i].id, called[i].result)'
        BY <1>1, <1>2, <2>1, <3>2 DEF ReportInv
      <3> QED BY <1>2, <2>1, <3>3, <3>4 DEF ReportInv
    <2> QED BY <2>7, <2>8, <2>9
  <1> QED BY <1>11, <1>12, <1>14, <1>15, <1>16, <1>17 DEF BlockInv, QueueInv, CallersKeepWindow

LEMMA DevicePublishKeeps ==
  ASSUME BlockInv, NEW c \in inflight, DevicePublish(c)
  PROVE  BlockInv'
  <1> USE DEF queue, reports
  <1> DEFINE n == c.serial
             l == Len(published)
  <1>1. UNCHANGED <<op, poller, alive, request, desc, queueIndex, availIndex, availRing, ack,
                    taken, verdict, ignored, results, nextId, asked, handed, polls, called>>
    BY DEF DevicePublish
  <1>2. /\ c.answered
        /\ inflight' = inflight \ {c}
        /\ usedRing' = [usedRing EXCEPT ![usedIndex % RingSize] = c.head]
        /\ usedIndex' = (usedIndex + 1) % IndexMod
        /\ published' = Append(published, n)
    BY DEF DevicePublish
  <1>3. irq' \in BOOLEAN
    BY DEF DevicePublish
  <1>4. /\ n \in 1..taken /\ c.head \in Slots
        /\ c.head = Place(n, 0)
        /\ verdict[n] # "none"
        /\ \A i \in 1..l : published[i] # n
    BY <1>2 DEF BlockInv, QueueInv, DeviceInv
  <1>5. taken \in Nat /\ taken <= N /\ N <= MaxRequests /\ N \in Nat /\ MaxRequests \in Nat
        /\ handed \in Nat /\ handed <= l /\ usedIndex = l /\ l \in Nat
    BY Numbers, RingNumbers DEF BlockInv, QueueInv, RingInv
  <1>6. published \in Seq(Nat) /\ n \in Nat
    BY <1>4, <1>5 DEF BlockInv, QueueInv, Types
  <1>7. /\ published' \in Seq(Nat) /\ Len(published') = l + 1
        /\ \A i \in 1..l : published'[i] = published[i]
        /\ published'[l + 1] = n
    BY <1>2, <1>6
  <1>8. verdict[n] \in Answers
    <2>1. n \in 1..MaxRequests
      BY <1>4, <1>5
    <2> QED BY <1>4, <2>1 DEF BlockInv, QueueInv, Types
  <1>9. /\ \A i \in 1..l : published[i] \in 1..taken /\ verdict[published[i]] \in Answers
        /\ \A i, j \in 1..l : published[i] = published[j] => i = j
        /\ \A i \in 1..l : usedRing[i - 1] = Place(published[i], 0)
    BY DEF BlockInv, QueueInv, DeviceInv, RingInv
  <1>10. usedRing \in [Slots -> Slots]
    BY DEF BlockInv, QueueInv, Types
  <1> HIDE DEF n, l
  <1>11. /\ \A i \in 1..(l + 1) : published'[i] \in 1..taken /\ verdict[published'[i]] \in Answers
         /\ \A i, j \in 1..(l + 1) : published'[i] = published'[j] => i = j
    <2>1. \A i \in 1..(l + 1) : i \in 1..l \/ i = l + 1
      BY <1>5
    <2>2. ASSUME NEW i \in 1..(l + 1)
          PROVE  published'[i] \in 1..taken /\ verdict[published'[i]] \in Answers
      <3>1. CASE i \in 1..l
        BY <1>7, <1>9, <3>1
      <3>2. CASE i = l + 1
        BY <1>4, <1>7, <1>8, <3>2
      <3> QED BY <2>1, <3>1, <3>2
    <2>3. ASSUME NEW i \in 1..(l + 1), NEW j \in 1..(l + 1), published'[i] = published'[j]
          PROVE  i = j
      <3>1. CASE i \in 1..l /\ j \in 1..l
        BY <1>7, <1>9, <2>3, <3>1
      <3>2. CASE i \in 1..l /\ j = l + 1
        BY <1>4, <1>7, <2>3, <3>2
      <3>3. CASE i = l + 1 /\ j \in 1..l
        BY <1>4, <1>7, <2>3, <3>3
      <3> QED BY <2>1, <3>1, <3>2, <3>3
    <2> QED BY <2>2, <2>3
  \* The device has something to publish, so the ring is not full.
  <1>12. l + 1 <= taken
    <2> DEFINE k == l + 1
               s == published'
    <2>1. k \in Nat /\ (\A i \in 1..k : s[i] \in 1..taken)
          /\ (\A i, j \in 1..k : s[i] = s[j] => i = j)
      BY <1>5, <1>11
    <2> HIDE DEF k, s
    <2>2. k <= taken
      BY <1>5, <2>1, Distinct
    <2> QED BY <2>2 DEF k
  <1>13. RingSize \in Nat \ {0} /\ IndexMod >= RingSize /\ IndexMod \in Nat \ {0}
         /\ MaxRequests < RingSize
    BY RingNumbers DEF BlockInv
  <1>14. usedIndex % RingSize = l /\ usedIndex' = l + 1 /\ l \in Slots
    <2>1. l < RingSize /\ l + 1 < IndexMod /\ l + 1 \in Nat
      BY <1>5, <1>12, <1>13
    <2>2. l % RingSize = l /\ (l + 1) % IndexMod = l + 1
      BY <1>5, <1>13, <2>1, ModLess
    <2> QED BY <1>2, <1>5, <1>13, <2>1, <2>2 DEF Slots
  <1>15. usedRing' = [usedRing EXCEPT ![l] = c.head]
    BY <1>2, <1>14
  <1>16. usedRing' \in [Slots -> Slots]
    BY <1>4, <1>10, <1>15
  <1>17. Types'
    BY <1>1, <1>3, <1>7, <1>16 DEF BlockInv, QueueInv, Types
  <1>18. N' = N /\ Open' = Open
    <2>1. \A i \in 1..handed : published'[i] = published[i]
      BY <1>5, <1>7
    <2> QED BY <1>1, <2>1 DEF N, Open
  <1>19. RingInv'
    <2>1. \A i \in 1..(l + 1) : usedRing'[i - 1] = Place(published'[i], 0)
      <3> SUFFICES ASSUME NEW i \in 1..(l + 1)
                   PROVE  usedRing'[i - 1] = Place(published'[i], 0)
        OBVIOUS
      <3>1. CASE i \in 1..l
        <4>1. usedRing'[i - 1] = usedRing[i - 1]
          BY <1>5, <1>10, <1>14, <1>15, <3>1
        <4> QED BY <1>7, <1>9, <3>1, <4>1
      <3>2. CASE i = l + 1
        <4>1. i - 1 = l
          BY <1>5, <3>2
        <4> QED BY <1>4, <1>7, <1>10, <1>14, <1>15, <3>2, <4>1
      <3> QED BY <1>5, <3>1, <3>2
    <2>2. handed <= l + 1
      BY <1>5
    <2> QED BY <1>1, <1>7, <1>14, <1>18, <2>1, <2>2 DEF BlockInv, QueueInv, RingInv
  <1>20. DeviceInv'
    <2>1. ASSUME NEW e \in inflight'
          PROVE  /\ e \in [serial : 1..taken, head : Slots, answered : BOOLEAN, status : Addresses]
                 /\ e.head = Place(e.serial, 0)
                 /\ verdict[e.serial] = "none" <=> ~e.answered
                 /\ \A i \in 1..(l + 1) : published'[i] # e.serial
      <3>1. e \in inflight /\ e.serial # n
        BY <1>2 DEF BlockInv, QueueInv, DeviceInv, n
      <3>2. /\ e \in [serial : 1..taken, head : Slots, answered : BOOLEAN, status : Addresses]
            /\ e.head = Place(e.serial, 0)
            /\ verdict[e.serial] = "none" <=> ~e.answered
            /\ \A i \in 1..l : published[i] # e.serial
        BY <3>1 DEF BlockInv, QueueInv, DeviceInv, l
      <3>3. \A i \in 1..(l + 1) : published'[i] # e.serial
        <4>1. \A i \in 1..(l + 1) : i \in 1..l \/ i = l + 1
          BY <1>5
        <4> QED BY <1>7, <3>1, <3>2, <4>1
      <3> QED BY <3>2, <3>3
    <2>2. \A e, f \in inflight' : e.serial = f.serial => e = f
      BY <1>2 DEF BlockInv, QueueInv, DeviceInv
    <2>3. \A k \in 1..MaxRequests : k > taken => verdict[k] = "none"
      BY DEF BlockInv, QueueInv, DeviceInv
    <2> QED BY <1>1, <1>7, <1>11, <2>1, <2>2, <2>3 DEF DeviceInv
  <1>21. AskedInv' /\ PollsInv'
    BY <1>1, <1>18 DEF BlockInv, QueueInv, AskedInv, PollsInv
  <1>22. NoPollFailed' => NoPollFailed
    BY <1>1 DEF NoPollFailed
  <1>23. ASSUME NoPollFailed PROVE MemoryInv' /\ IgnoredInv' /\ ReportInv'
    <2>1. MemoryInv /\ IgnoredInv /\ ReportInv
      BY <1>23 DEF BlockInv
    <2>2. MemoryInv'
      BY <1>1, <1>2, <1>18, <2>1 DEF MemoryInv
    <2>3. IgnoredInv'
      BY <1>1, <2>1 DEF IgnoredInv
    <2>4. ReportInv'
      BY <1>1, <1>18, <2>1 DEF ReportInv, Settled
    <2> QED BY <2>2, <2>3, <2>4
  <1> QED BY <1>17, <1>19, <1>20, <1>21, <1>22, <1>23 DEF BlockInv, QueueInv, CallersKeepWindow

-----------------------------------------------------------------------------
(* The invariant is kept by every step, and with it the properties. *)

LEMMA BlockNext ==
  ASSUME BlockInv, [Next]_vars
  PROVE  BlockInv'
  <1>1. CASE \E p \in Ptrs : StartAsync(p) \/ StartPoll(p)
    BY <1>1, StartActions
  <1>2. CASE RejectAsync \/ UNCHANGED vars
    BY <1>2, QuietActions
  <1>3. CASE KernelStep
    <2>1. CASE PollOk \/ PollFailed
      BY <2>1, PollActions
    <2>2. CASE Interrupt \/ NotifyDone \/ InterruptDone
      BY <2>2, QuietActions
    <2>3. CASE \E p \in Ptrs : NotifyIgnored(p) \/ NotifyResult(p)
      BY <2>3, NotifyIgnoredKeeps, NotifyResultKeeps
    <2>4. CASE Callback
      BY <2>4, CallbackKeeps
    <2> QED BY <1>3, <2>1, <2>2, <2>3, <2>4 DEF KernelStep
  <1>4. CASE DeviceStep
    <2>1. CASE DeviceTake
      BY <2>1, DeviceTakeKeeps
    <2>2. CASE \E c \in inflight : DevicePublish(c)
      BY <2>2, DevicePublishKeeps
    <2>3. CASE \E c \in inflight : \E a \in {"ok", "failed"} : DeviceAnswer(c, a)
      BY <2>3, DeviceAnswerKeeps DEF Answers
    <2> QED BY <1>4, <2>1, <2>2, <2>3 DEF DeviceStep
  <1> QED BY <1>1, <1>2, <1>3, <1>4 DEF Next

LEMMA BlockInvariant == Spec /\ CallersKeepWindow => []BlockInv
  <1>1. Init /\ CallersKeepWindow => BlockInv
    BY BlockInit
  <1>2. BlockInv /\ [Next]_vars => BlockInv'
    BY BlockNext
  <1> QED BY <1>1, <1>2, PTL DEF Spec

\* In whatever order the device completes, and however its steps fall between
\* the driver's: notify() only touches a request that is alive and is the one
\* completed, and the device only writes into the request it was given, as
\* long as the callers stay within what the ring can hold.
THEOREM RequestsStayOwned ==
  Spec /\ CallersKeepWindow => []RequestMemoryOwned
  <1>1. BlockInv => RequestMemoryOwned
    BY InvImplies
  <1> QED BY <1>1, BlockInvariant, PTL

\* A callback is made at most once for an id and with the device's answer to
\* it, and a poll method reports the device's answer to its own request.
THEOREM AnswersAreReported ==
  Spec /\ CallersKeepWindow => []AnswersReported
  <1>1. BlockInv => AnswersReported
    BY InvImplies
  <1> QED BY <1>1, BlockInvariant, PTL

\* Once every operation is acknowledged, no request object is left and no
\* address is left in m_ignored_requests.
THEOREM RequestsAreFreed ==
  Spec /\ CallersKeepWindow => []NothingLeaks
  <1>1. BlockInv => NothingLeaks
    BY InvImplies
  <1> QED BY <1>1, BlockInvariant, PTL

\* get_next_used_descriptor reports an element only when the device has
\* published one that was not handed out.  With more operations than the ring
\* has elements this fails (run block_wrap): the acknowledgement is kept below the
\* ring size and the device's index is not.
THEOREM UsedElementsHandedOnce ==
  Spec /\ CallersKeepWindow => []UsedElementsOnce
  <1>1. BlockInv => UsedElementsOnce
    BY InvImplies
  <1> QED BY <1>1, BlockInvariant, PTL

-----------------------------------------------------------------------------
(* The boot.                                                               *)

\* s is a sequence, whatever its elements.
IsSeq(s) == s \in Seq(Range(s))

LEMMA SeqShape ==
  ASSUME NEW s, IsSeq(s)
  PROVE  /\ Len(s) \in Nat /\ DOMAIN s = 1..Len(s) /\ s = [i \in 1..Len(s) |-> s[i]]
  <1> DEFINE R == Range(s)
  <1>1. s \in Seq(R)
    BY DEF IsSeq
  <1> HIDE DEF R
  <1> QED BY <1>1

LEMMA ShapeSeq ==
  ASSUME NEW s, NEW n \in Nat, DOMAIN s = 1..n, s = [i \in 1..n |-> s[i]]
  PROVE  IsSeq(s) /\ Len(s) = n
  <1>1. \A i \in 1..n : s[i] \in Range(s)
    BY DEF Range
  <1> DEFINE R == Range(s)
  <1> HIDE DEF R
  <1>2. s \in [1..n -> R]
    BY <1>1 DEF R
  <1>3. s \in Seq(R) /\ Len(s) = n
    BY <1>2
  <1> QED BY <1>3 DEF IsSeq, R

LEMMA ExceptShape ==
  ASSUME NEW s, IsSeq(s), NEW t, DOMAIN t = DOMAIN s, t = [i \in DOMAIN t |-> t[i]]
  PROVE  IsSeq(t) /\ Len(t) = Len(s)
  BY SeqShape, ShapeSeq

LEMMA AppendShape ==
  ASSUME NEW s, IsSeq(s), NEW e
  PROVE  IsSeq(Append(s, e)) /\ Len(Append(s, e)) = Len(s) + 1
  <1> DEFINE R == Range(s) \cup {e}
             n == Len(s)
             t == Append(s, e)
  <1>1. s \in Seq(R) /\ e \in R
    <2>1. s \in Seq(Range(s))
      BY DEF IsSeq
    <2>2. Range(s) \subseteq R
      OBVIOUS
    <2> HIDE DEF R
    <2> QED BY <2>1, <2>2, SeqMonotonic DEF R
  <1> HIDE DEF R
  <1>2. t \in Seq(R) /\ Len(t) = n + 1 /\ n \in Nat
    BY <1>1
  <1> HIDE DEF t
  <1>3. DOMAIN t = 1..(n + 1) /\ t = [i \in 1..(n + 1) |-> t[i]] /\ n + 1 \in Nat
    BY <1>2
  <1>4. IsSeq(t) /\ Len(t) = n + 1
    BY <1>3, ShapeSeq
  <1> QED BY <1>4 DEF t

-----------------------------------------------------------------------------
(* The parser: it is over when the root is set, and the nodes stay a       *)
(* sequence.                                                               *)
ParserInv ==
  /\ IsSeq(nodes)
  /\ root # "parsing" => calls = <<>>

LEMMA ParserKept ==
  ASSUME ParserInv, ParseStep
  PROVE  /\ ParserInv' /\ root = "parsing" /\ calls # <<>>
  <1>1. calls # <<>>
    BY DEF ParseStep, ParseNone, BeginNode, NodeName, Prop, EndNode, End, RunOut, Running
  <1>2. root = "parsing"
    BY <1>1 DEF ParserInv
  <1> SUFFICES ParserInv'
    BY <1>1, <1>2
  <1>3. ASSUME nodes' = nodes PROVE IsSeq(nodes)'
    BY <1>3 DEF ParserInv, IsSeq
  <1>4. ASSUME NEW n, NEW kept, NEW from, Returned(n, kept, from)
        PROVE  ParserInv'
    <2>1. root' = root \/ calls' = <<>>
      <3>1. CASE Len(calls) = 1
        <4>1. calls' = SubSeq(calls, 1, 0)
          BY <1>4, <3>1 DEF Returned, Front
        <4> QED BY <4>1, SubSeqEmpty
      <3>2. CASE Len(calls) # 1
        BY <1>4, <3>2 DEF Returned
      <3> QED BY <3>1, <3>2
    <2>2. IsSeq(nodes)'
      <3>1. CASE nodes' = nodes
        BY <1>3, <3>1
      <3>2. CASE nodes' # nodes
        <4>1. nodes' = [nodes EXCEPT ![n].parent = calls[Len(calls) - 1].node]
          BY <1>4, <3>2 DEF Returned
        <4>2. DOMAIN nodes' = DOMAIN nodes /\ nodes' = [i \in DOMAIN nodes' |-> nodes'[i]]
          BY <4>1
        <4> QED BY <4>2, ExceptShape DEF ParserInv
      <3> QED BY <3>1, <3>2
    <2> QED BY <1>2, <2>1, <2>2 DEF ParserInv
  <1>5. ASSUME root' = root, nodes' = nodes PROVE ParserInv'
    BY <1>2, <1>3, <1>5 DEF ParserInv
  <1>6. CASE ParseNone
    BY <1>4, <1>5, <1>6 DEF ParseNone
  <1>7. ASSUME root' = root, NEW v, NEW w, \/ nodes' = [nodes EXCEPT ![v].name = w]
                                           \/ nodes' = [nodes EXCEPT ![v].props = w]
        PROVE  ParserInv'
    <2>1. DOMAIN nodes' = DOMAIN nodes /\ nodes' = [i \in DOMAIN nodes' |-> nodes'[i]]
      BY <1>7
    <2>2. IsSeq(nodes)'
      BY <2>1, ExceptShape DEF ParserInv
    <2> QED BY <1>2, <1>7, <2>2 DEF ParserInv
  <1>8. CASE BeginNode
    BY <1>7, <1>8 DEF BeginNode
  <1>9. CASE Prop
    <2>1. root' = root /\ nodes' = [nodes EXCEPT ![Node].props = Append(@, Item.prop)]
      BY <1>9 DEF Prop
    <2>2. DOMAIN nodes' = DOMAIN nodes /\ nodes' = [i \in DOMAIN nodes' |-> nodes'[i]]
      BY <2>1
    <2>3. IsSeq(nodes)'
      BY <2>2, ExceptShape DEF ParserInv
    <2> QED BY <1>2, <2>1, <2>3 DEF ParserInv
  <1>10. CASE NodeName
    <2>1. CASE nodes' = nodes /\ root' = root
      BY <1>5, <2>1
    <2>2. CASE nodes' = Append(nodes, NewNode) /\ root' = root
      <3>1. IsSeq(nodes)'
        BY <2>2, AppendShape DEF ParserInv
      <3> QED BY <1>2, <2>2, <3>1 DEF ParserInv
    <2>3. CASE Returned(Node, FALSE, Last(calls).from)
      BY <1>4, <2>3
    <2> QED BY <1>10, <2>1, <2>2, <2>3 DEF NodeName
  <1>11. CASE EndNode \/ RunOut
    BY <1>4, <1>11 DEF EndNode, RunOut
  <1>12. CASE End
    BY <1>5, <1>12 DEF End
  <1> QED BY <1>6, <1>8, <1>9, <1>10, <1>11, <1>12 DEF ParseStep
-----------------------------------------------------------------------------
(* Types.                                                                  *)

VirtIOSlots == FindNodes(VirtIOPath)
DeviceRecords ==
  [type : {"Block", "Entropy", "None", "Console"},
   under : {"virtio"} \cup {TypeString(n) : n \in DOMAIN nodes},
   irqs : {PropertyOf(n, "interrupts") : n \in DOMAIN nodes},
   address : {AddressOf(n) : n \in DOMAIN nodes},
   needs_driver : BOOLEAN, driver : {"none", "VirtIO", "NS16550A"}, error : BOOLEAN, queue : Nat]

LEMMA SameTree ==
  ASSUME UNCHANGED parser
  PROVE  /\ nodes' = nodes /\ root' = root
         /\ \A n : AddressOf(n)' = AddressOf(n)
         /\ \A n, p : PropertyOf(n, p)' = PropertyOf(n, p)
         /\ DeviceRecords' = DeviceRecords
         /\ VirtIOSlots' = VirtIOSlots
  <1>1. nodes' = nodes /\ root' = root
    BY DEF parser
  <1>2. \A n : AddressOf(n)' = AddressOf(n)
    BY <1>1 DEF AddressOf
  <1>3. \A n, p : PropertyOf(n, p)' = PropertyOf(n, p)
    BY <1>1 DEF PropertyOf
  <1>4. \A n : TypeString(n)' = TypeString(n)
    BY <1>3 DEF TypeString
  <1>5. DeviceRecords' = DeviceRecords
    <2>1. {TypeString(n) : n \in DOMAIN nodes}' = {TypeString(n) : n \in DOMAIN nodes}
      BY <1>1, <1>4
    <2>2. {PropertyOf(n, "interrupts") : n \in DOMAIN nodes}'
            = {PropertyOf(n, "interrupts") : n \in DOMAIN nodes}
      BY <1>1, <1>3
    <2>3. {AddressOf(n) : n \in DOMAIN nodes}' = {AddressOf(n) : n \in DOMAIN nodes}
      BY <1>1, <1>2
    <2> QED BY <2>1, <2>2, <2>3, Zenon DEF DeviceRecords
  <1>6. VirtIOSlots' = VirtIOSlots
    BY <1>1 DEF VirtIOSlots, FindNodes, FindNode, Named, Children
  <1> QED BY <1>1, <1>2, <1>3, <1>5, <1>6

LEMMA MinOf ==
  ASSUME NEW S, S \subseteq Nat, S # {}
  PROVE  Min(S) \in S /\ \A x \in S : Min(S) <= x
  <1>1. \E x \in S : \A y \in S : x <= y
    BY LeastNumber
  <1> QED BY <1>1 DEF Min

Busy == {"reset", "features", "reread", "queue", "live"}

BootTypes ==
  /\ ParserInv
  /\ stage # "tree" => root # "parsing"
  /\ devices \in Seq(DeviceRecords)
  /\ probe \subseteq DOMAIN nodes
  /\ machine \in [DOMAIN machine -> Registers]
  /\ stage = "tree" => /\ devices = <<>> /\ probe = {}
                       /\ \A a \in DOMAIN machine : machine[a].status = {}
  /\ stage \in Busy => devices # <<>>

\* The slot that is probed next, and the device it becomes.
LEMMA NextSlot ==
  ASSUME BootTypes, probe # {}
  PROVE  /\ Min(probe) \in probe /\ Min(probe) \in DOMAIN nodes
         /\ LoadedDevice(Min(probe)) \in DeviceRecords
         /\ LoadedDevice(Min(probe)).type # "Console"
         /\ LoadedDevice(Min(probe)).address = AddressOf(Min(probe))
         /\ LoadedDevice(Min(probe)).irqs = PropertyOf(Min(probe), "interrupts")
         /\ LoadedDevice(Min(probe)).queue = 0
  <1> DEFINE n == Min(probe)
             type == TypeOfId(machine[AddressOf(n)].id)
  <1>1. n \in probe /\ n \in DOMAIN nodes
    <2>1. probe \subseteq Nat
      BY SeqShape DEF BootTypes, ParserInv
    <2> QED BY <2>1, MinOf DEF BootTypes
  <1>2. type \in {"Block", "Entropy", "None"}
    BY DEF TypeOfId
  <1> HIDE DEF n, type
  <1>3. LoadedDevice(n) = [type |-> type, under |-> "virtio", irqs |-> PropertyOf(n, "interrupts"),
                           address |-> AddressOf(n), needs_driver |-> type = "Block",
                           driver |-> "none", error |-> type = "None", queue |-> 0]
    BY DEF LoadedDevice, Device, type
  <1>4. LoadedDevice(n) \in DeviceRecords
    <2>1. /\ PropertyOf(n, "interrupts") \in {PropertyOf(m, "interrupts") : m \in DOMAIN nodes}
          /\ AddressOf(n) \in {AddressOf(m) : m \in DOMAIN nodes}
      BY <1>1
    <2>2. (type = "Block") \in BOOLEAN /\ (type = "None") \in BOOLEAN
      OBVIOUS
    <2> QED BY <1>2, <1>3, <2>1, <2>2 DEF DeviceRecords
  <1>5. LoadedDevice(n).type # "Console"
    BY <1>2, <1>3
  <1> QED BY <1>1, <1>3, <1>4, <1>5 DEF n

\* The console that AddConsole adds for node n.
ConsoleOf(n) ==
  Device("Console", TypeString(n), PropertyOf(n, "interrupts"), AddressOf(n), TRUE, TRUE)

\* find_node returns a node.
LEMMA NodeFound ==
  ASSUME IsSeq(nodes), NEW path, Len(path) = 2
  PROVE  FindNode(path) = 0 \/ FindNode(path) \in DOMAIN nodes
  <1> DEFINE Into(p, k) == LET found == IF p = 0 THEN {} ELSE Named(p, path[k])
                           IN  IF found = {} THEN 0 ELSE Min(found)
             first == IF root = "set" THEN 1 ELSE 0
             Sol(f) == f = [k \in 0..Len(path) |-> IF k = 0 THEN first ELSE Into(f[k - 1], k)]
             g == [k \in 0..2 |-> IF k = 0 THEN first ELSE IF k = 1 THEN Into(first, 1)
                                  ELSE Into(Into(first, 1), 2)]
             f == CHOOSE h : Sol(h)
  <1>1. Sol(g)
    <2> HIDE DEF Into, first
    <2>1. g[0] = first /\ g[1] = Into(first, 1) /\ g[2] = Into(Into(first, 1), 2)
      OBVIOUS
    <2>2. \A k \in 0..2 : k = 0 \/ (k = 1 /\ k - 1 = 0) \/ (k = 2 /\ k - 1 = 1)
      OBVIOUS
    <2>3. ASSUME NEW k \in 0..2 PROVE g[k] = IF k = 0 THEN first ELSE Into(g[k - 1], k)
      <3> HIDE DEF g
      <3> QED BY <2>1, <2>2
    <2>4. g = [k \in 0..2 |-> g[k]]
      OBVIOUS
    <2> HIDE DEF g
    <2> QED BY <2>3, <2>4
  <1>2. Sol(f)
    <2> HIDE DEF Sol, g
    <2> QED BY <1>1
  <1>3. FindNode(path) = f[Len(path)]
    BY DEF FindNode
  <1> HIDE DEF f
  <1>4. f[2] = Into(f[1], 2)
    <2> HIDE DEF Into, first
    <2> QED BY <1>2
  <1>5. \A p : Into(p, 2) = 0 \/ Into(p, 2) \in DOMAIN nodes
    <2> SUFFICES ASSUME NEW p PROVE Into(p, 2) = 0 \/ Into(p, 2) \in DOMAIN nodes
      OBVIOUS
    <2>1. Named(p, path[2]) \subseteq DOMAIN nodes
      BY DEF Named, Children
    <2>2. DOMAIN nodes \subseteq Nat
      BY SeqShape
    <2>3. Named(p, path[2]) # {} => Min(Named(p, path[2])) \in DOMAIN nodes
      BY <2>1, <2>2, MinOf
    <2> QED BY <2>3
  <1> HIDE DEF Into
  <1> QED BY <1>3, <1>4, <1>5

LEMMA ConsoleNode ==
  ASSUME BootTypes, NEW n, n = FindNode(SerialPath), n # 0
  PROVE  /\ n \in DOMAIN nodes
         /\ ConsoleOf(n) = [type |-> "Console", under |-> TypeString(n),
                            irqs |-> PropertyOf(n, "interrupts"), address |-> AddressOf(n),
                            needs_driver |-> TRUE, driver |-> "none", error |-> TRUE, queue |-> 0]
         /\ ConsoleOf(n) \in DeviceRecords
  <1>1. Len(SerialPath) = 2
    BY DEF SerialPath
  <1>2. n \in DOMAIN nodes
    BY <1>1, NodeFound DEF BootTypes, ParserInv
  <1>3. ConsoleOf(n) = [type |-> "Console", under |-> TypeString(n),
                        irqs |-> PropertyOf(n, "interrupts"), address |-> AddressOf(n),
                        needs_driver |-> TRUE, driver |-> "none", error |-> TRUE, queue |-> 0]
    BY DEF ConsoleOf, Device
  <1>4. ConsoleOf(n) \in DeviceRecords
    <2>1. /\ PropertyOf(n, "interrupts") \in {PropertyOf(m, "interrupts") : m \in DOMAIN nodes}
          /\ AddressOf(n) \in {AddressOf(m) : m \in DOMAIN nodes}
          /\ TypeString(n) \in {"virtio"} \cup {TypeString(m) : m \in DOMAIN nodes}
      BY <1>2
    <2> QED BY <1>3, <2>1 DEF DeviceRecords
  <1> QED BY <1>2, <1>3, <1>4

\* The device that is being initialised.
LEMMA Initialised ==
  ASSUME BootTypes, stage \in Busy
  PROVE  /\ Len(devices) \in Nat \ {0} /\ Len(devices) \in DOMAIN devices
         /\ DOMAIN devices = 1..Len(devices)
         /\ devices[Len(devices)] \in DeviceRecords
         /\ Initialising = devices[Len(devices)].address
  <1> DEFINE R == DeviceRecords
  <1>1. devices \in Seq(R) /\ devices # <<>>
    BY DEF BootTypes
  <1> HIDE DEF R
  <1>2. Len(devices) \in Nat \ {0} /\ DOMAIN devices = 1..Len(devices)
    BY <1>1, EmptySeq
  <1>3. Len(devices) \in DOMAIN devices
    BY <1>2
  <1>4. devices[Len(devices)] \in R
    BY <1>1, <1>2, <1>3
  <1> QED BY <1>2, <1>3, <1>4 DEF Initialising, Last, R

\* The steps after the tree is parsed, which leave the parser alone.
BootTail ==
  \/ TreeParsed \/ NamelessFault \/ ProbeSlot \/ ResetAndDriver \/ FeaturesOk \/ ReReadStatus
  \/ SetUpQueue \/ DriverOk \/ AddConsole \/ LoadDrivers \/ MountRoot
  \/ SetUpInterrupts \/ LookUpConsole \/ InitTimer \/ StartScheduling
  \/ \E source \in DeviceIrqs : DeviceInterrupt(source)

LEMMA StepKinds ==
  ASSUME BootTypes, [BootNext]_bootVars
  PROVE  \/ ParseStep /\ UNCHANGED boot /\ stage = "tree"
         \/ UNCHANGED parser /\ BootTail
         \/ UNCHANGED <<parser, boot>>
  <1>1. CASE ParseStep /\ UNCHANGED boot
    <2>1. root = "parsing"
      BY <1>1, ParserKept DEF BootTypes
    <2> QED BY <1>1, <2>1 DEF BootTypes
  <1>2. CASE BootTail
    <2>1. UNCHANGED parser
      BY <1>2 DEF BootTail, TreeParsed, NamelessFault, ProbeSlot, InitStep, ResetAndDriver,
        FeaturesOk, ReReadStatus, SetUpQueue, DriverOk, AddConsole, LoadDrivers, MountRoot,
        SetUpInterrupts, LookUpConsole, InitTimer, StartScheduling, DeviceInterrupt
    <2> QED BY <1>2, <2>1
  <1>3. CASE UNCHANGED bootVars
    BY <1>3 DEF bootVars
  <1> QED BY <1>1, <1>2, <1>3 DEF BootNext, BootStep, BootTail

\* The stage after a call of kmain.
LEMMA AtStage ==
  ASSUME NEW s, NEW uses, NEW makes, NEW next, At(s, uses, makes, next)
  PROVE  stage = s /\ (stage' = next \/ stage' = "fault")
  BY DEF At

\* A change of one device or of one slot's registers keeps their types.
LEMMA DevicesChanged ==
  ASSUME devices \in Seq(DeviceRecords), NEW t, DOMAIN t = DOMAIN devices,
         t = [k \in DOMAIN t |-> t[k]], \A k \in DOMAIN t : t[k] \in DeviceRecords
  PROVE  t \in Seq(DeviceRecords) /\ Len(t) = Len(devices)
  <1> DEFINE R == DeviceRecords
  <1>1. devices \in Seq(R) /\ \A k \in DOMAIN t : t[k] \in R
    OBVIOUS
  <1> HIDE DEF R
  <1>2. Len(devices) \in Nat /\ DOMAIN devices = 1..Len(devices)
    BY <1>1
  <1>3. t \in [1..Len(devices) -> R]
    BY <1>1, <1>2
  <1>4. t \in Seq(R) /\ Len(t) = Len(devices)
    BY <1>2, <1>3
  <1> QED BY <1>4 DEF R

LEMMA DeviceAppended ==
  ASSUME devices \in Seq(DeviceRecords), NEW d \in DeviceRecords
  PROVE  /\ Append(devices, d) \in Seq(DeviceRecords)
         /\ Append(devices, d) # <<>>
         /\ Len(devices) \in Nat
         /\ DOMAIN devices = 1..Len(devices)
         /\ DOMAIN Append(devices, d) = 1..(Len(devices) + 1)
         /\ Len(Append(devices, d)) = Len(devices) + 1
         /\ Append(devices, d)[Len(devices) + 1] = d
         /\ \A k \in DOMAIN devices : Append(devices, d)[k] = devices[k]
  <1> DEFINE R == DeviceRecords
  <1>1. devices \in Seq(R) /\ d \in R
    OBVIOUS
  <1> HIDE DEF R
  <1>2. /\ Append(devices, d) \in Seq(R)
        /\ Append(devices, d) # <<>>
        /\ Len(devices) \in Nat
        /\ DOMAIN devices = 1..Len(devices)
        /\ DOMAIN Append(devices, d) = 1..(Len(devices) + 1)
        /\ Len(Append(devices, d)) = Len(devices) + 1
        /\ Append(devices, d)[Len(devices) + 1] = d
        /\ \A k \in DOMAIN devices : Append(devices, d)[k] = devices[k]
    BY <1>1
  <1> QED BY <1>2 DEF R

\* The parts of BootTypes that a step may disturb.
LEMMA TypesFrom ==
  ASSUME BootTypes, UNCHANGED parser, stage # "tree" \/ root # "parsing", stage' # "tree",
         devices' \in Seq(DeviceRecords), probe' \subseteq DOMAIN nodes,
         machine' \in [DOMAIN machine -> Registers], stage' \in Busy => devices' # <<>>
  PROVE  BootTypes'
  <1>1. nodes' = nodes /\ root' = root /\ DeviceRecords' = DeviceRecords
    BY SameTree
  <1>2. ParserInv'
    BY DEF BootTypes, ParserInv, parser, IsSeq, Range
  <1>3. root # "parsing"
    BY DEF BootTypes
  <1>4. DOMAIN machine' = DOMAIN machine
    OBVIOUS
  <1>5. devices' \in Seq(DeviceRecords)'
    BY <1>1
  <1>6. machine' \in [DOMAIN machine' -> Registers]
    BY <1>4
  <1> QED BY <1>1, <1>2, <1>3, <1>5, <1>6 DEF BootTypes

\* Writing a register.
LEMMA StatusWritten ==
  ASSUME machine \in [DOMAIN machine -> Registers], NEW a, NEW v \in SUBSET StatusBits
  PROVE  /\ [machine EXCEPT ![a].status = v] \in [DOMAIN machine -> Registers]
         /\ a \in DOMAIN machine =>
              /\ [machine EXCEPT ![a].status = v][a].status = v
              /\ [machine EXCEPT ![a].status = v][a].queue_num = machine[a].queue_num
              /\ [machine EXCEPT ![a].status = v][a].queue_num_max = machine[a].queue_num_max
              /\ [machine EXCEPT ![a].status = v][a].queue_pfn = machine[a].queue_pfn
         /\ \A b \in DOMAIN machine : b # a => [machine EXCEPT ![a].status = v][b] = machine[b]
  BY DEF Registers

LEMMA SizeWritten ==
  ASSUME machine \in [DOMAIN machine -> Registers], NEW a, NEW v \in Nat,
         NEW n, n = [machine EXCEPT ![a].queue_num = v]
  PROVE  /\ n \in [DOMAIN machine -> Registers]
         /\ \A b \in DOMAIN machine : n[b].status = machine[b].status
         /\ \A b \in DOMAIN machine : b # a => n[b] = machine[b]
  BY DEF Registers

LEMMA QueueWritten ==
  ASSUME machine \in [DOMAIN machine -> Registers], NEW a, NEW v \in Nat, NEW w \in Nat,
         NEW m, m = [machine EXCEPT ![a].queue_num = v, ![a].queue_pfn = w]
  PROVE  /\ m \in [DOMAIN machine -> Registers]
         /\ a \in DOMAIN machine =>
              /\ m[a].status = machine[a].status
              /\ m[a].queue_num = v /\ m[a].queue_pfn = w
              /\ m[a].queue_num_max = machine[a].queue_num_max
         /\ \A b \in DOMAIN machine : b # a => m[b] = machine[b]
  BY DEF Registers

LEMMA StatusType ==
  ASSUME BootTypes
  PROVE  Initialising \in DOMAIN machine => Status \in SUBSET StatusBits
  BY DEF BootTypes, Status, Registers

\* An error or a queue is noted at the last device.
LEMMA LastNoted ==
  ASSUME BootTypes, stage \in Busy, NEW q \in Nat
  PROVE  LET e == [devices EXCEPT ![Len(devices)].error = TRUE]
             d == [devices EXCEPT ![Len(devices)].queue = q]
         IN  /\ e \in Seq(DeviceRecords) /\ Len(e) = Len(devices) /\ e # <<>>
             /\ d \in Seq(DeviceRecords) /\ Len(d) = Len(devices) /\ d # <<>>
             /\ e[Len(devices)].error = TRUE /\ d[Len(devices)].queue = q
             /\ e[Len(devices)].queue = devices[Len(devices)].queue
             /\ d[Len(devices)].error = devices[Len(devices)].error
             /\ \A k \in 1..Len(devices) :
                  /\ e[k].type = devices[k].type /\ d[k].type = devices[k].type
                  /\ e[k].address = devices[k].address /\ d[k].address = devices[k].address
                  /\ e[k].irqs = devices[k].irqs /\ d[k].irqs = devices[k].irqs
                  /\ k # Len(devices) => e[k] = devices[k] /\ d[k] = devices[k]
  <1> DEFINE e == [devices EXCEPT ![Len(devices)].error = TRUE]
             d == [devices EXCEPT ![Len(devices)].queue = q]
             n == Len(devices)
  <1>1. /\ n \in Nat \ {0} /\ n \in DOMAIN devices /\ DOMAIN devices = 1..n
        /\ devices[n] \in DeviceRecords
    BY Initialised
  <1>2. \A k \in DOMAIN devices : devices[k] \in DeviceRecords
    <2> DEFINE R == DeviceRecords
    <2>1. devices \in Seq(R)
      BY DEF BootTypes
    <2> HIDE DEF R
    <2>2. \A k \in DOMAIN devices : devices[k] \in R
      BY <2>1
    <2> QED BY <2>2 DEF R
  <1>3. DOMAIN e = DOMAIN devices /\ DOMAIN d = DOMAIN devices
    OBVIOUS
  <1>4. \A k \in DOMAIN devices : k # n => e[k] = devices[k] /\ d[k] = devices[k]
    OBVIOUS
  <1>5. e[n] = [devices[n] EXCEPT !.error = TRUE] /\ d[n] = [devices[n] EXCEPT !.queue = q]
    BY <1>1
  <1>6. e = [k \in DOMAIN e |-> e[k]] /\ d = [k \in DOMAIN d |-> d[k]]
    OBVIOUS
  <1> HIDE DEF e, d, n
  <1>7. ASSUME NEW r \in DeviceRecords
        PROVE  LET x == [r EXCEPT !.error = TRUE]
                   y == [r EXCEPT !.queue = q]
               IN  /\ x \in DeviceRecords /\ y \in DeviceRecords
                   /\ x.error = TRUE /\ y.queue = q /\ x.queue = r.queue /\ y.error = r.error
                   /\ x.type = r.type /\ y.type = r.type /\ x.address = r.address
                   /\ y.address = r.address /\ x.irqs = r.irqs /\ y.irqs = r.irqs
    <2> DEFINE U == {"virtio"} \cup {TypeString(m) : m \in DOMAIN nodes}
               I == {PropertyOf(m, "interrupts") : m \in DOMAIN nodes}
               A == {AddressOf(m) : m \in DOMAIN nodes}
               S == [type : {"Block", "Entropy", "None", "Console"}, under : U, irqs : I, address : A,
                     needs_driver : BOOLEAN, driver : {"none", "VirtIO", "NS16550A"},
                     error : BOOLEAN, queue : Nat]
    <2>1. DeviceRecords = S
      BY DEF DeviceRecords
    <2> HIDE DEF U, I, A
    <2>2. r \in S
      BY <2>1
    <2>3. LET x == [r EXCEPT !.error = TRUE]
              y == [r EXCEPT !.queue = q]
          IN  /\ x \in S /\ y \in S
              /\ x.error = TRUE /\ y.queue = q /\ x.queue = r.queue /\ y.error = r.error
              /\ x.type = r.type /\ y.type = r.type /\ x.address = r.address
              /\ y.address = r.address /\ x.irqs = r.irqs /\ y.irqs = r.irqs
      BY <2>2
    <2> HIDE DEF S
    <2> QED BY <2>1, <2>3
  <1>8. /\ e[n] \in DeviceRecords /\ d[n] \in DeviceRecords
        /\ e[n].error = TRUE /\ d[n].queue = q /\ e[n].queue = devices[n].queue
        /\ d[n].error = devices[n].error
        /\ e[n].type = devices[n].type /\ d[n].type = devices[n].type
        /\ e[n].address = devices[n].address /\ d[n].address = devices[n].address
        /\ e[n].irqs = devices[n].irqs /\ d[n].irqs = devices[n].irqs
    BY <1>1, <1>5, <1>7
  <1>9. /\ \A k \in DOMAIN e : e[k] \in DeviceRecords
        /\ \A k \in DOMAIN d : d[k] \in DeviceRecords
    BY <1>2, <1>3, <1>4, <1>8
  <1>10. devices \in Seq(DeviceRecords)
    BY DEF BootTypes
  <1>11. /\ e \in Seq(DeviceRecords) /\ Len(e) = n
         /\ d \in Seq(DeviceRecords) /\ Len(d) = n
    BY <1>3, <1>6, <1>9, <1>10, DevicesChanged DEF n
  <1>12. e # <<>> /\ d # <<>>
    <2>1. n \in DOMAIN e /\ n \in DOMAIN d
      BY <1>1, <1>3
    <2>2. DOMAIN <<>> = {}
      OBVIOUS
    <2> QED BY <2>1, <2>2
  <1>13. ASSUME NEW k \in 1..n
         PROVE  /\ e[k].type = devices[k].type /\ d[k].type = devices[k].type
                /\ e[k].address = devices[k].address /\ d[k].address = devices[k].address
                /\ e[k].irqs = devices[k].irqs /\ d[k].irqs = devices[k].irqs
                /\ k # n => e[k] = devices[k] /\ d[k] = devices[k]
    <2>1. CASE k = n
      BY <1>8, <2>1
    <2>2. CASE k # n
      BY <1>1, <1>4, <2>2
    <2> QED BY <2>1, <2>2
  <1> QED BY <1>8, <1>11, <1>12, <1>13 DEF e, d, n

WithDrivers ==
  [k \in DOMAIN devices |-> IF devices[k].needs_driver
                            THEN [devices[k] EXCEPT !.driver = CompatibleDriver(devices[k])]
                            ELSE devices[k]]

LEMMA DriversLoaded ==
  ASSUME BootTypes
  PROVE  /\ WithDrivers \in Seq(DeviceRecords) /\ Len(WithDrivers) = Len(devices)
         /\ DOMAIN devices = 1..Len(devices)
         /\ \A k \in DOMAIN devices :
              /\ WithDrivers[k].type = devices[k].type
              /\ WithDrivers[k].under = devices[k].under
              /\ WithDrivers[k].irqs = devices[k].irqs
              /\ WithDrivers[k].address = devices[k].address
              /\ WithDrivers[k].needs_driver = devices[k].needs_driver
              /\ WithDrivers[k].error = devices[k].error
              /\ WithDrivers[k].queue = devices[k].queue
              /\ devices[k].needs_driver => WithDrivers[k].driver = CompatibleDriver(devices[k])
  <1> DEFINE t == WithDrivers
  <1>1. devices \in Seq(DeviceRecords)
    BY DEF BootTypes
  <1>2. (\A k \in DOMAIN devices : devices[k] \in DeviceRecords) /\ DOMAIN devices = 1..Len(devices)
    <2> DEFINE R == DeviceRecords
    <2>1. devices \in Seq(R)
      BY <1>1
    <2> HIDE DEF R
    <2>2. (\A k \in DOMAIN devices : devices[k] \in R) /\ DOMAIN devices = 1..Len(devices)
      BY <2>1
    <2> QED BY <2>2 DEF R
  <1>3. ASSUME NEW r \in DeviceRecords, NEW v \in {"none", "VirtIO", "NS16550A"},
               NEW x, x = [r EXCEPT !.driver = v]
        PROVE  /\ x \in DeviceRecords
               /\ x.type = r.type /\ x.under = r.under /\ x.irqs = r.irqs
               /\ x.address = r.address /\ x.needs_driver = r.needs_driver
               /\ x.error = r.error /\ x.queue = r.queue /\ x.driver = v
    <2> DEFINE U == {"virtio"} \cup {TypeString(m) : m \in DOMAIN nodes}
               I == {PropertyOf(m, "interrupts") : m \in DOMAIN nodes}
               A == {AddressOf(m) : m \in DOMAIN nodes}
               S == [type : {"Block", "Entropy", "None", "Console"}, under : U, irqs : I, address : A,
                     needs_driver : BOOLEAN, driver : {"none", "VirtIO", "NS16550A"},
                     error : BOOLEAN, queue : Nat]
    <2>1. DeviceRecords = S
      BY DEF DeviceRecords
    <2> HIDE DEF U, I, A
    <2>2. r \in S
      BY <2>1
    <2>3. /\ x \in S
          /\ x.type = r.type /\ x.under = r.under /\ x.irqs = r.irqs
          /\ x.address = r.address /\ x.needs_driver = r.needs_driver
          /\ x.error = r.error /\ x.queue = r.queue /\ x.driver = v
      BY <1>3, <2>2
    <2> HIDE DEF S
    <2> QED BY <2>1, <2>3
  <1>4. \A r : CompatibleDriver(r) \in {"none", "VirtIO", "NS16550A"}
    BY DEF CompatibleDriver
  <1>5. ASSUME NEW k \in DOMAIN devices
        PROVE  /\ t[k] \in DeviceRecords
               /\ t[k].type = devices[k].type
               /\ t[k].under = devices[k].under
               /\ t[k].irqs = devices[k].irqs
               /\ t[k].address = devices[k].address
               /\ t[k].needs_driver = devices[k].needs_driver
               /\ t[k].error = devices[k].error
               /\ t[k].queue = devices[k].queue
               /\ devices[k].needs_driver => t[k].driver = CompatibleDriver(devices[k])
    <2>1. CASE devices[k].needs_driver
      <3>1. t[k] = [devices[k] EXCEPT !.driver = CompatibleDriver(devices[k])]
        BY <2>1 DEF WithDrivers
      <3> HIDE DEF t
      <3>2. PICK r \in DeviceRecords, v \in {"none", "VirtIO", "NS16550A"} :
               r = devices[k] /\ v = CompatibleDriver(devices[k])
        BY <1>2, <1>4
      <3>3. PICK x : x = t[k]
        OBVIOUS
      <3>4. x = [r EXCEPT !.driver = v]
        BY <3>1, <3>2, <3>3
      <3>5. /\ x \in DeviceRecords
            /\ x.type = r.type /\ x.under = r.under /\ x.irqs = r.irqs
            /\ x.address = r.address /\ x.needs_driver = r.needs_driver
            /\ x.error = r.error /\ x.queue = r.queue /\ x.driver = v
        BY <1>3, <3>4
      <3> QED BY <3>2, <3>3, <3>5
    <2>2. CASE ~devices[k].needs_driver
      <3>1. t[k] = devices[k]
        BY <2>2 DEF WithDrivers
      <3> HIDE DEF t
      <3> QED BY <1>2, <2>2, <3>1
    <2> QED BY <2>1, <2>2
  <1>6. DOMAIN t = DOMAIN devices /\ t = [k \in DOMAIN t |-> t[k]]
    BY DEF WithDrivers
  <1> HIDE DEF t
  <1>7. t \in Seq(DeviceRecords) /\ Len(t) = Len(devices)
    BY <1>1, <1>5, <1>6, DevicesChanged
  <1> QED BY <1>2, <1>5, <1>7 DEF t

\* The types when neither devices nor registers change and probing is over.
LEMMA TypesQuiet ==
  ASSUME BootTypes, UNCHANGED parser, UNCHANGED <<devices, probe, machine>>,
         stage # "tree" \/ root # "parsing", stage' \notin Busy \cup {"tree"}
  PROVE  BootTypes'
  <1>1. machine' \in [DOMAIN machine -> Registers] /\ devices' \in Seq(DeviceRecords)
        /\ probe' \subseteq DOMAIN nodes
    BY DEF BootTypes
  <1> QED BY <1>1, TypesFrom

LEMMA TypesKept ==
  ASSUME BootTypes, [BootNext]_bootVars
  PROVE  BootTypes'
  <1>0. /\ devices \in Seq(DeviceRecords) /\ probe \subseteq DOMAIN nodes
        /\ machine \in [DOMAIN machine -> Registers]
    BY DEF BootTypes
  <1>1. CASE ParseStep /\ UNCHANGED boot /\ stage = "tree"
    <2>1. ParserInv'
      BY <1>1, ParserKept DEF BootTypes
    <2>2. devices' = <<>> /\ probe' = {} /\ machine' = machine /\ stage' = "tree"
      BY <1>1 DEF boot, BootTypes
    <2>3. devices' \in Seq(DeviceRecords)'
      BY <2>2
    <2>4. machine' \in [DOMAIN machine' -> Registers]
      BY <1>0, <2>2
    <2>5. \A a \in DOMAIN machine' : machine'[a].status = {}
      BY <1>1, <2>2 DEF BootTypes
    <2> QED BY <2>1, <2>2, <2>3, <2>4, <2>5 DEF BootTypes, Busy
  <1>2. CASE UNCHANGED <<parser, boot>>
    <2>1. UNCHANGED <<nodes, root, calls, devices, probe, machine, stage>>
      BY <1>2 DEF parser, boot
    <2>2. DeviceRecords' = DeviceRecords
      BY <1>2, SameTree
    <2> QED BY <2>1, <2>2 DEF BootTypes, ParserInv, IsSeq, Range
  <1>3. ASSUME UNCHANGED parser, BootTail PROVE BootTypes'
    <2> USE <1>3
    <2>1. CASE TreeParsed
      <3>1. probe' \subseteq DOMAIN nodes
        BY <2>1 DEF TreeParsed, FindNodes, Named, Children
      <3>2. stage' \in {"probe", "fault"} /\ root # "parsing"
        BY <2>1 DEF TreeParsed, At
      <3> QED BY <1>0, <2>1, <3>1, <3>2, TypesFrom DEF TreeParsed, Busy
    <2>2. CASE NamelessFault
      BY <2>2, TypesQuiet DEF NamelessFault, Busy
    <2>3. CASE ProbeSlot
      <3>1. probe' \subseteq DOMAIN nodes /\ machine' = machine /\ stage = "probe"
        BY <1>0, <2>3 DEF ProbeSlot
      <3>2. \/ devices' = devices /\ stage' = stage
            \/ devices' = Append(devices, LoadedDevice(Min(probe))) /\ stage' \in {stage, "reset"}
        BY <2>3 DEF ProbeSlot
      <3>3. LoadedDevice(Min(probe)) \in DeviceRecords
        BY <2>3, NextSlot DEF ProbeSlot
      <3>4. /\ Append(devices, LoadedDevice(Min(probe))) \in Seq(DeviceRecords)
            /\ Append(devices, LoadedDevice(Min(probe))) # <<>>
        BY <1>0, <3>3, DeviceAppended
      <3>5. devices' \in Seq(DeviceRecords) /\ (stage' \in Busy => devices' # <<>>)
        BY <1>0, <3>1, <3>2, <3>4 DEF Busy
      <3> QED BY <1>0, <3>1, <3>2, <3>5, TypesFrom
    <2>4. ASSUME NEW from \in Busy, InitStep(from)
          PROVE  stage \in Busy /\ probe' = probe /\ devices # <<>> /\ stage # "tree"
      BY <2>4 DEF InitStep, Busy, BootTypes
    <2>5. ASSUME NEW v, SetStatus(v), Initialising \in DOMAIN machine => v \in SUBSET StatusBits
          PROVE  machine' \in [DOMAIN machine -> Registers]
      <3>1. CASE Initialising \in DOMAIN machine
        BY <1>0, <2>5, <3>1, StatusWritten DEF SetStatus
      <3>2. CASE Initialising \notin DOMAIN machine
        BY <1>0, <2>5, <3>2 DEF SetStatus
      <3> QED BY <3>1, <3>2
    <2>6. CASE ResetAndDriver
      <3>1. InitStep("reset") /\ "reset" \in Busy /\ stage' = "features" /\ devices' = devices
        BY <2>6 DEF ResetAndDriver, Busy
      <3>2. machine' \in [DOMAIN machine -> Registers]
        <4>1. {"Acknowledge", "Driver"} \in SUBSET StatusBits
          BY DEF StatusBits
        <4>2. SetStatus({"Acknowledge", "Driver"})
          BY <2>6 DEF ResetAndDriver
        <4> QED BY <2>5, <4>1, <4>2, Zenon
      <3> QED BY <1>0, <2>4, <3>1, <3>2, TypesFrom
    <2>7. CASE FeaturesOk
      <3>1. InitStep("features") /\ "features" \in Busy /\ stage' = "reread" /\ devices' = devices
        BY <2>7 DEF FeaturesOk, Busy
      <3>2. machine' \in [DOMAIN machine -> Registers]
        <4>1. PICK kept \in BOOLEAN : SetStatus(IF kept THEN Status \cup {"FeaturesOK"} ELSE Status)
          BY <2>7 DEF FeaturesOk
        <4>2. Initialising \in DOMAIN machine =>
                (IF kept THEN Status \cup {"FeaturesOK"} ELSE Status) \in SUBSET StatusBits
          <5>1. \A s \in SUBSET StatusBits : s \cup {"FeaturesOK"} \in SUBSET StatusBits
            BY DEF StatusBits
          <5> QED BY <5>1, StatusType
        <4> QED BY <2>5, <4>1, <4>2
      <3> QED BY <1>0, <2>4, <3>1, <3>2, TypesFrom
    <2>8. CASE ReReadStatus
      <3>1. InitStep("reread") /\ "reread" \in Busy /\ machine' = machine
        BY <2>8 DEF ReReadStatus, Busy
      <3>2. \/ stage' = "queue" /\ devices' = devices
            \/ stage' = "probe" /\ devices' = [devices EXCEPT ![Len(devices)].error = TRUE]
        BY <2>8 DEF ReReadStatus, InitFails
      <3>3. [devices EXCEPT ![Len(devices)].error = TRUE] \in Seq(DeviceRecords)
        BY <2>4, <3>1, LastNoted
      <3> QED BY <1>0, <2>4, <3>1, <3>2, <3>3, TypesFrom DEF Busy
    <2>9. CASE SetUpQueue
      <3>1. InitStep("queue") /\ "queue" \in Busy
        BY <2>9 DEF SetUpQueue, Busy
      <3>2. Len(devices) \in Nat /\ QueueSize \in Nat
        BY <2>4, <3>1, Initialised, BoardsAssumption
      <3>3. machine' \in [DOMAIN machine -> Registers]
        <4>1. \/ machine' = [machine EXCEPT ![Initialising].queue_num = QueueSize]
              \/ machine' = [machine EXCEPT ![Initialising].queue_num = QueueSize,
                                            ![Initialising].queue_pfn = Len(devices)]
          BY <2>9 DEF SetUpQueue
        <4> QED BY <1>0, <3>2, <4>1, SizeWritten, QueueWritten
      <3>4. \/ /\ devices' = [devices EXCEPT ![Len(devices)].error = TRUE] /\ stage' = "probe"
            \/ /\ devices' = [devices EXCEPT ![Len(devices)].queue = Len(devices)] /\ stage' = "live"
        BY <2>9 DEF SetUpQueue, InitFails
      <3>5. devices' \in Seq(DeviceRecords) /\ devices' # <<>>
        BY <2>4, <3>1, <3>2, <3>4, LastNoted
      <3> QED BY <1>0, <2>4, <3>1, <3>3, <3>4, <3>5, TypesFrom
    <2>10. CASE DriverOk
      <3>1. InitStep("live") /\ "live" \in Busy /\ stage' = "probe" /\ devices' = devices
        BY <2>10 DEF DriverOk, Busy
      <3>2. machine' \in [DOMAIN machine -> Registers]
        <4>1. Initialising \in DOMAIN machine => Status \cup {"DriverOK"} \in SUBSET StatusBits
          <5>1. \A s \in SUBSET StatusBits : s \cup {"DriverOK"} \in SUBSET StatusBits
            BY DEF StatusBits
          <5> QED BY <5>1, StatusType
        <4> QED BY <2>5, <2>10, <4>1 DEF DriverOk
      <3> QED BY <1>0, <2>4, <3>1, <3>2, TypesFrom DEF Busy
    <2>11. CASE AddConsole
      <3>1. stage = "probe" /\ stage' \in {"load", "fault"} /\ machine' = machine /\ probe' = probe
        BY <2>11 DEF AddConsole, At
      <3>2. devices' \in Seq(DeviceRecords)
        <4>1. CASE FindNode(SerialPath) = 0
          BY <1>0, <2>11, <4>1 DEF AddConsole
        <4>2. CASE FindNode(SerialPath) # 0
          <5>1. devices' = Append(devices, ConsoleOf(FindNode(SerialPath)))
            BY <2>11, <4>2 DEF AddConsole, ConsoleOf
          <5>2. ConsoleOf(FindNode(SerialPath)) \in DeviceRecords
            BY <4>2, ConsoleNode
          <5> QED BY <1>0, <5>1, <5>2, DeviceAppended
        <4> QED BY <4>1, <4>2
      <3> QED BY <1>0, <3>1, <3>2, TypesFrom DEF Busy
    <2>12. CASE LoadDrivers
      <3>1. stage = "load" /\ stage' \in {"rootfs", "fault"} /\ machine' = machine /\ probe' = probe
        BY <2>12 DEF LoadDrivers, At
      <3>2. devices' = WithDrivers
        BY <2>12 DEF LoadDrivers, WithDrivers
      <3> QED BY <1>0, <3>1, <3>2, DriversLoaded, TypesFrom DEF Busy
    <2>13. CASE \/ MountRoot \/ SetUpInterrupts \/ LookUpConsole \/ InitTimer \/ StartScheduling
                \/ \E source \in DeviceIrqs : DeviceInterrupt(source)
      <3>1. UNCHANGED <<devices, probe, machine>>
        BY <2>13 DEF MountRoot, SetUpInterrupts, LookUpConsole, InitTimer, StartScheduling,
          DeviceInterrupt
      <3>2. stage # "tree" /\ stage' \in {"fault", "interrupts", "log", "timer", "start", "user"}
        BY <2>13 DEF MountRoot, SetUpInterrupts, LookUpConsole, InitTimer, StartScheduling,
          DeviceInterrupt, At
      <3> QED BY <3>1, <3>2, TypesQuiet DEF Busy
    <2> QED BY <2>1, <2>2, <2>3, <2>6, <2>7, <2>8, <2>9, <2>10, <2>11, <2>12, <2>13 DEF BootTail
  <1> QED BY <1>1, <1>2, <1>3, StepKinds

LEMMA TypesInitially ==
  ASSUME BootInit
  PROVE  BootTypes
  <1>1. PICK board \in Boards : ParserInit(board.tree) /\ machine = board.slots
    BY DEF BootInit
  <1>2. nodes = <<NewNode>> /\ root = "parsing"
    BY <1>1 DEF ParserInit
  <1>3. ParserInv
    <2> DEFINE s == <<NewNode>>
    <2>1. DOMAIN s = 1..1 /\ s = [i \in 1..1 |-> s[i]]
      OBVIOUS
    <2> HIDE DEF s
    <2>2. IsSeq(s)
      BY <2>1, ShapeSeq
    <2> QED BY <1>2, <2>2 DEF ParserInv, s
  <1>4. devices \in Seq(DeviceRecords)
    <2> DEFINE R == DeviceRecords
    <2> HIDE DEF R
    <2>1. devices \in Seq(R)
      BY DEF BootInit
    <2> QED BY <2>1 DEF R
  <1>5. /\ machine \in [DOMAIN machine -> Registers]
        /\ \A a \in DOMAIN machine : machine[a].status = {}
    BY <1>1, BoardsAssumption
  <1> QED BY <1>2, <1>3, <1>4, <1>5 DEF BootInit, BootTypes, Busy

-----------------------------------------------------------------------------
(* The handshake.  A slot is probed once, and its registers are written    *)
(* only while its device is the last one.                                  *)

VirtIODevices == {k \in DOMAIN devices : devices[k].type # "Console"}

Unprobed ==
  /\ probe \subseteq VirtIOSlots
  /\ \A n \in probe : machine[AddressOf(n)].status = {}
Placed ==
  \A k \in VirtIODevices :
    /\ devices[k].address \in DOMAIN machine
    /\ \A n \in probe : AddressOf(n) # devices[k].address
Apart ==
  \A j, k \in VirtIODevices : devices[j].address = devices[k].address => j = k
OwnQueues ==
  \A k \in DOMAIN devices : devices[k].queue \in {0, k}
LiveReady ==
  \A k \in VirtIODevices : Live(devices[k].address) => ReadyFor(k) /\ devices[k].queue = k
\* How far the device has come that is being initialised.
Under(k, at_stage) ==
  /\ k \in VirtIODevices
  /\ ~devices[k].error
  /\ ~Live(devices[k].address)
  /\ at_stage \in {"queue", "live"} => "FeaturesOK" \in machine[devices[k].address].status
  /\ at_stage = "live" => ReadyFor(k) /\ devices[k].queue = k
InProgress == stage \in Busy => Under(Len(devices), stage)

Body == Unprobed /\ Placed /\ Apart /\ OwnQueues /\ LiveReady /\ InProgress
Handshake == (stage # "tree" /\ SlotsListedOnce) => Body

LEMMA SameSlots ==
  ASSUME UNCHANGED parser, DOMAIN machine' = DOMAIN machine
  PROVE  SlotsListedOnce' <=> SlotsListedOnce
  <1>1. VirtIOSlots' = VirtIOSlots /\ \A n : AddressOf(n)' = AddressOf(n)
    BY SameTree
  <1> QED BY <1>1 DEF SlotsListedOnce, VirtIOSlots

LEMMA MachineSlots ==
  ASSUME BootTail
  PROVE  DOMAIN machine' = DOMAIN machine
  BY DEF BootTail, TreeParsed, NamelessFault, ProbeSlot, InitStep, ResetAndDriver,
        FeaturesOk, ReReadStatus, SetUpQueue, DriverOk, AddConsole, LoadDrivers, MountRoot,
        SetUpInterrupts, LookUpConsole, InitTimer, StartScheduling, DeviceInterrupt, SetStatus

\* A step that leaves the registers and what the handshake is about alone.
LEMMA HandshakeQuiet ==
  ASSUME Body, UNCHANGED parser, machine' = machine, probe' \subseteq probe,
         DOMAIN devices' = DOMAIN devices,
         \A k \in DOMAIN devices : /\ devices'[k].type = devices[k].type
                                   /\ devices'[k].address = devices[k].address
                                   /\ devices'[k].error = devices[k].error
                                   /\ devices'[k].queue = devices[k].queue,
         stage' \notin Busy
  PROVE  Body'
  <1>1. VirtIOSlots' = VirtIOSlots /\ \A n : AddressOf(n)' = AddressOf(n)
    BY SameTree
  <1>2. VirtIODevices' = VirtIODevices
    BY DEF VirtIODevices
  <1>3. Unprobed'
    BY <1>1 DEF Body, Unprobed
  <1>4. Placed' /\ Apart'
    BY <1>1, <1>2 DEF Body, Placed, Apart, VirtIODevices
  <1>5. OwnQueues'
    BY DEF Body, OwnQueues
  <1>6. LiveReady'
    BY <1>2 DEF Body, LiveReady, Live, ReadyFor, VirtIODevices
  <1> QED BY <1>3, <1>4, <1>5, <1>6 DEF Body, InProgress

\* A device is added: the next slot's, or the console.
LEMMA HandshakeAdded ==
  ASSUME Body, SlotsListedOnce, UNCHANGED parser, machine' = machine,
         devices \in Seq(DeviceRecords),
         NEW d \in DeviceRecords, devices' = Append(devices, d), d.queue = 0,
         \/ d.type = "Console" /\ probe' = probe
         \/ d.type # "Console" /\ \E n \in probe : d.address = AddressOf(n) /\ probe' = probe \ {n},
         stage' \in Busy => stage' = "reset" /\ ~d.error /\ d.type # "Console"
  PROVE  Body'
  <1> DEFINE l == Len(devices) + 1
  <1>1. VirtIOSlots' = VirtIOSlots /\ \A n : AddressOf(n)' = AddressOf(n)
    BY SameTree
  <1>2. /\ Len(devices) \in Nat
        /\ DOMAIN devices = 1..Len(devices)
        /\ DOMAIN devices' = 1..l
        /\ Len(devices') = l
        /\ devices'[l] = d
        /\ \A k \in DOMAIN devices : devices'[k] = devices[k]
    BY DeviceAppended
  <1>3. probe' \subseteq probe
    OBVIOUS
  <1>4. Unprobed'
    BY <1>1, <1>3 DEF Body, Unprobed
  <1>5. l \in DOMAIN devices' /\ l \notin DOMAIN devices
        /\ \A k \in DOMAIN devices' : k = l \/ k \in DOMAIN devices
    BY <1>2
  <1>6. /\ \A k \in VirtIODevices' : k = l \/ (k \in VirtIODevices /\ k # l)
        /\ d.type = "Console" => l \notin VirtIODevices'
        /\ d.type # "Console" => l \in VirtIODevices'
    BY <1>2, <1>5 DEF VirtIODevices
  <1> HIDE DEF l
  <1>7. d.type # "Console" =>
          /\ d.address \in DOMAIN machine
          /\ \A n \in probe' : AddressOf(n) # d.address
          /\ machine[d.address].status = {}
          /\ \A k \in VirtIODevices : devices[k].address # d.address
    <2> SUFFICES ASSUME d.type # "Console"
                 PROVE  /\ d.address \in DOMAIN machine
                        /\ \A n \in probe' : AddressOf(n) # d.address
                        /\ machine[d.address].status = {}
                        /\ \A k \in VirtIODevices : devices[k].address # d.address
      OBVIOUS
    <2>1. PICK n \in probe : d.address = AddressOf(n) /\ probe' = probe \ {n}
      OBVIOUS
    <2>2. \A m \in probe : m \in VirtIOSlots
      BY DEF Body, Unprobed
    <2>3. d.address \in DOMAIN machine
      BY <2>1, <2>2 DEF SlotsListedOnce, VirtIOSlots
    <2>4. \A m \in probe' : AddressOf(m) # d.address
      BY <2>1, <2>2 DEF SlotsListedOnce, VirtIOSlots
    <2>5. machine[d.address].status = {}
      BY <2>1 DEF Body, Unprobed
    <2>6. \A k \in VirtIODevices : devices[k].address # d.address
      BY <2>1 DEF Body, Placed
    <2> QED BY <2>3, <2>4, <2>5, <2>6
  <1>8. \A k \in VirtIODevices : k \in DOMAIN devices /\ devices'[k] = devices[k]
    BY <1>2 DEF VirtIODevices
  <1>9. Placed'
    <2> SUFFICES ASSUME NEW k \in VirtIODevices'
                 PROVE  /\ devices'[k].address \in DOMAIN machine
                        /\ \A n \in probe' : AddressOf(n) # devices'[k].address
      BY <1>1 DEF Placed
    <2>1. CASE k = l
      BY <1>2, <1>6, <1>7, <2>1
    <2>2. CASE k # l
      BY <1>3, <1>6, <1>8, <2>2 DEF Body, Placed
    <2> QED BY <2>1, <2>2
  <1>10. Apart'
    <2> SUFFICES ASSUME NEW j \in VirtIODevices', NEW k \in VirtIODevices',
                        devices'[j].address = devices'[k].address
                 PROVE  j = k
      BY DEF Apart
    <2>1. CASE j = l /\ k # l
      BY <1>2, <1>6, <1>7, <1>8, <2>1
    <2>2. CASE j # l /\ k = l
      BY <1>2, <1>6, <1>7, <1>8, <2>2
    <2>3. CASE j # l /\ k # l
      BY <1>6, <1>8, <2>3 DEF Body, Apart
    <2> QED BY <2>1, <2>2, <2>3
  <1>11. OwnQueues'
    BY <1>2, <1>5 DEF Body, OwnQueues
  <1>12. l \in VirtIODevices' => ~Live(d.address)
    BY <1>6, <1>7 DEF Live
  <1>13. LiveReady'
    <2> SUFFICES ASSUME NEW k \in VirtIODevices', "DriverOK" \in machine'[devices'[k].address].status
                 PROVE  ReadyFor(k)' /\ devices'[k].queue = k
      BY DEF LiveReady, Live
    <2>0. Live(devices'[k].address)
      BY DEF Live
    <2>1. CASE k = l
      BY <1>2, <1>12, <2>0, <2>1
    <2>2. CASE k # l
      <3>1. k \in VirtIODevices /\ devices'[k] = devices[k]
        BY <1>6, <1>8, <2>2
      <3>2. ReadyFor(k) /\ devices[k].queue = k
        BY <2>0, <3>1 DEF Body, LiveReady
      <3> QED BY <3>1, <3>2 DEF ReadyFor
    <2> QED BY <2>1, <2>2
  <1>14. InProgress'
    <2> SUFFICES ASSUME stage' \in Busy PROVE Under(Len(devices), stage)'
      BY DEF InProgress
    <2>1. stage' = "reset" /\ ~d.error /\ l \in VirtIODevices'
      BY <1>6
    <2>2. ~devices'[l].error /\ "DriverOK" \notin machine'[devices'[l].address].status
      BY <1>2, <1>12, <2>1 DEF Live
    <2> QED BY <1>2, <2>1, <2>2 DEF Under, Live
  <1> QED BY <1>4, <1>9, <1>10, <1>11, <1>13, <1>14 DEF Body

\* A step of the init of the last device.
LEMMA HandshakeWritten ==
  ASSUME BootTypes, Body, SlotsListedOnce, UNCHANGED parser, probe' = probe, stage \in Busy,
         DOMAIN machine' = DOMAIN machine, DOMAIN devices' = DOMAIN devices,
         Len(devices') = Len(devices),
         \A b \in DOMAIN machine : b # Initialising => machine'[b] = machine[b],
         \A k \in DOMAIN devices : /\ devices'[k].type = devices[k].type
                                   /\ devices'[k].address = devices[k].address
                                   /\ k # Len(devices) => devices'[k] = devices[k],
         devices'[Len(devices)].queue \in {0, Len(devices)},
         Live(Initialising)' => ReadyFor(Len(devices))' /\ devices'[Len(devices)].queue = Len(devices),
         stage' \in Busy => Under(Len(devices), stage)'
  PROVE  Body'
  <1> DEFINE l == Len(devices)
             a == Initialising
  <1>1. VirtIOSlots' = VirtIOSlots /\ \A n : AddressOf(n)' = AddressOf(n)
    BY SameTree
  <1>2. VirtIODevices' = VirtIODevices
    BY DEF VirtIODevices
  <1>3. l \in DOMAIN devices /\ a = devices[l].address /\ DOMAIN devices = 1..l
    BY Initialised
  <1>4. l \in VirtIODevices
    BY DEF Body, InProgress, Under
  <1>5. a' = a
    <2>1. l \in DOMAIN devices /\ Len(devices') = l /\ devices'[l].address = devices[l].address
      BY <1>3
    <2> QED BY <2>1 DEF Initialising, Last
  <1>6. \A n \in probe : AddressOf(n) \in DOMAIN machine /\ AddressOf(n) # a
    BY <1>3, <1>4 DEF Body, Placed, Unprobed, SlotsListedOnce, VirtIOSlots
  <1> HIDE DEF a, l
  <1>7. Unprobed'
    BY <1>1, <1>6 DEF Body, Unprobed, a
  <1>8. Placed' /\ Apart'
    BY <1>1, <1>2 DEF Body, Placed, Apart, VirtIODevices
  <1>9. OwnQueues'
    <2> SUFFICES ASSUME NEW k \in DOMAIN devices PROVE devices'[k].queue \in {0, k}
      BY DEF OwnQueues
    <2>1. CASE k = l
      BY <2>1 DEF l
    <2>2. CASE k # l
      BY <2>2 DEF Body, OwnQueues, l
    <2> QED BY <2>1, <2>2
  <1>10. LiveReady'
    <2> SUFFICES ASSUME NEW k \in VirtIODevices, "DriverOK" \in machine'[devices'[k].address].status
                 PROVE  ReadyFor(k)' /\ devices'[k].queue = k
      BY <1>2 DEF LiveReady, Live
    <2>1. CASE k = l
      <3>1. Live(Initialising)'
        <4>1. devices'[k].address = a
          BY <1>3, <2>1 DEF VirtIODevices, l
        <4> QED BY <1>5, <4>1 DEF Live, a
      <3> QED BY <2>1, <3>1 DEF l
    <2>2. CASE k # l
      <3>1. k \in DOMAIN devices /\ devices'[k] = devices[k] /\ devices[k].address # a
            /\ devices[k].address \in DOMAIN machine
        BY <1>3, <1>4, <2>2 DEF VirtIODevices, l, Body, Apart, Placed
      <3>2. machine'[devices[k].address] = machine[devices[k].address]
        BY <3>1 DEF a
      <3>3. Live(devices[k].address)
        BY <3>1, <3>2 DEF Live
      <3>4. ReadyFor(k) /\ devices[k].queue = k
        BY <3>3 DEF Body, LiveReady
      <3> QED BY <3>1, <3>2, <3>4 DEF ReadyFor
    <2> QED BY <2>1, <2>2
  <1>11. InProgress'
    BY DEF InProgress
  <1> QED BY <1>7, <1>8, <1>9, <1>10, <1>11 DEF Body

NotesQueue(d, q) == d = [devices EXCEPT ![Len(devices)].queue = q]

LEMMA QueueNoted ==
  ASSUME BootTypes, stage \in Busy, NEW q \in Nat,
         NEW d, NotesQueue(d, q)
  PROVE  /\ d \in Seq(DeviceRecords) /\ Len(d) = Len(devices)
         /\ d[Len(devices)].queue = q /\ d[Len(devices)].error = devices[Len(devices)].error
         /\ \A k \in 1..Len(devices) :
              /\ d[k].type = devices[k].type /\ d[k].irqs = devices[k].irqs
              /\ d[k].address = devices[k].address
              /\ k # Len(devices) => d[k] = devices[k]
  BY LastNoted, Zenon DEF NotesQueue

\* What holds of the device that is being initialised.
LEMMA InitContext ==
  ASSUME BootTypes, Body, stage \in Busy
  PROVE  LET l == Len(devices)
         IN  /\ l \in DOMAIN devices /\ l \in VirtIODevices /\ l \in Nat
             /\ Initialising = devices[l].address /\ Initialising \in DOMAIN machine
             /\ ~devices[l].error
             /\ "DriverOK" \notin machine[Initialising].status
             /\ devices[l].queue \in {0, l}
             /\ stage \in {"queue", "live"} => "FeaturesOK" \in machine[Initialising].status
             /\ stage = "live" => ReadyFor(l) /\ devices[l].queue = l
  <1>1. /\ Len(devices) \in DOMAIN devices /\ Len(devices) \in Nat
        /\ Initialising = devices[Len(devices)].address
    BY Initialised
  <1>2. Under(Len(devices), stage)
    BY DEF Body, InProgress
  <1>3. Initialising \in DOMAIN machine
    BY <1>1, <1>2 DEF Under, Body, Placed
  <1>4. devices[Len(devices)].queue \in {0, Len(devices)}
    BY <1>1 DEF Body, OwnQueues
  <1> QED BY <1>1, <1>2, <1>3, <1>4 DEF Under, Live

\* A step that writes the status.
LEMMA HandshakeStatus ==
  ASSUME BootTypes, Body, SlotsListedOnce, UNCHANGED parser, probe' = probe, stage \in Busy,
         devices' = devices, NEW v \in SUBSET StatusBits, SetStatus(v),
         "DriverOK" \in v => stage = "live" /\ v = Status \cup {"DriverOK"},
         stage' \in Busy => stage' \in {"features", "reread"} /\ "DriverOK" \notin v
  PROVE  Body'
  <1>1. machine \in [DOMAIN machine -> Registers]
    BY DEF BootTypes
  <1>2. PICK a : a = Initialising
    OBVIOUS
  <1>3. PICK l : l = Len(devices)
    OBVIOUS
  <1>4. /\ l \in DOMAIN devices /\ l \in VirtIODevices /\ a = devices[l].address
        /\ a \in DOMAIN machine /\ ~devices[l].error /\ devices[l].queue \in {0, l}
        /\ stage = "live" => ReadyFor(l) /\ devices[l].queue = l
    BY <1>2, <1>3, InitContext
  <1>5. /\ DOMAIN machine' = DOMAIN machine
        /\ machine'[a].status = v
        /\ machine'[a].queue_num = machine[a].queue_num
        /\ machine'[a].queue_num_max = machine[a].queue_num_max
        /\ machine'[a].queue_pfn = machine[a].queue_pfn
        /\ \A b \in DOMAIN machine : b # a => machine'[b] = machine[b]
    <2>1. machine' = [machine EXCEPT ![a].status = v]
      BY <1>2 DEF SetStatus
    <2>2. DOMAIN machine' = DOMAIN machine
      BY <2>1
    <2> QED BY <1>1, <1>4, <2>1, <2>2 DEF Registers
  <1>6. Initialising' = Initialising /\ VirtIODevices' = VirtIODevices
    BY DEF Initialising, VirtIODevices
  <1>7. "DriverOK" \in v => ReadyFor(l)' /\ devices[l].queue = l
    <2> SUFFICES ASSUME "DriverOK" \in v PROVE ReadyFor(l)' /\ devices[l].queue = l
      OBVIOUS
    <2>1. ReadyFor(l) /\ devices[l].queue = l /\ v = machine[a].status \cup {"DriverOK"}
      BY <1>2, <1>4 DEF Status
    <2> QED BY <1>4, <1>5, <2>1 DEF ReadyFor
  <1>8. Live(Initialising)' => "DriverOK" \in v
    BY <1>2, <1>5, <1>6 DEF Live
  <1>9. stage' \in Busy => Under(Len(devices), stage)'
    <2> SUFFICES ASSUME stage' \in Busy PROVE Under(Len(devices), stage)'
      OBVIOUS
    <2>1. stage' \in {"features", "reread"} /\ "DriverOK" \notin v
      OBVIOUS
    <2> QED BY <1>3, <1>4, <1>5, <1>6, <2>1 DEF Under, Live
  <1>10. Live(Initialising)' =>
           ReadyFor(Len(devices))' /\ devices'[Len(devices)].queue = Len(devices)
    BY <1>3, <1>7, <1>8
  <1> QED BY <1>2, <1>3, <1>4, <1>5, <1>9, <1>10, HandshakeWritten

\* The init of the last device fails.
LEMMA HandshakeFails ==
  ASSUME BootTypes, Body, SlotsListedOnce, UNCHANGED parser, probe' = probe, stage \in Busy,
         InitFails,
         \/ machine' = machine
         \/ machine' = [machine EXCEPT ![Initialising].queue_num = QueueSize]
  PROVE  Body'
  <1>1. machine \in [DOMAIN machine -> Registers] /\ QueueSize \in Nat
    BY BoardsAssumption DEF BootTypes
  <1>2. PICK l : l = Len(devices)
    OBVIOUS
  <1>3. /\ l \in DOMAIN devices /\ l \in Nat
        /\ Initialising = devices[l].address /\ Initialising \in DOMAIN machine
        /\ "DriverOK" \notin machine[Initialising].status
        /\ devices[l].queue \in {0, l}
    BY <1>2, InitContext
  <1>4. DOMAIN machine' = DOMAIN machine
        /\ (\A b \in DOMAIN machine : machine'[b].status = machine[b].status)
        /\ \A b \in DOMAIN machine : b # Initialising => machine'[b] = machine[b]
    <2>1. CASE machine' = machine
      BY <2>1
    <2>2. CASE machine' = [machine EXCEPT ![Initialising].queue_num = QueueSize]
      <3>1. machine' \in [DOMAIN machine -> Registers]
        BY <1>1, <2>2, SizeWritten
      <3> QED BY <1>1, <2>2, <3>1, SizeWritten
    <2> QED BY <2>1, <2>2
  <1>5. devices' = [devices EXCEPT ![Len(devices)].error = TRUE] /\ stage' = "probe"
    BY DEF InitFails
  <1>6. /\ devices' \in Seq(DeviceRecords) /\ Len(devices') = Len(devices)
        /\ devices'[Len(devices)].queue = devices[Len(devices)].queue
        /\ \A k \in 1..Len(devices) :
             /\ devices'[k].type = devices[k].type
             /\ devices'[k].address = devices[k].address
             /\ k # Len(devices) => devices'[k] = devices[k]
    BY <1>2, <1>3, <1>5, LastNoted
  <1>7. DOMAIN devices' = DOMAIN devices /\ DOMAIN devices = 1..Len(devices)
    BY <1>5, Initialised
  <1>8. Initialising' = Initialising
    <2>1. Len(devices') = l /\ devices'[l].address = devices[l].address
      BY <1>2, <1>3, <1>6, <1>7
    <2> QED BY <1>2, <2>1 DEF Initialising, Last
  <1>9. ~Live(Initialising)'
    <2>1. "DriverOK" \notin machine'[Initialising].status
      BY <1>3, <1>4
    <2> QED BY <1>8, <2>1 DEF Live
  <1> QED BY <1>2, <1>3, <1>4, <1>5, <1>6, <1>7, <1>9, HandshakeWritten DEF Busy

\* The queue of the last device is set up.
QueueGiven ==
  /\ machine' = [machine EXCEPT ![Initialising].queue_num = QueueSize,
                                ![Initialising].queue_pfn = Len(devices)]
  /\ devices' = [devices EXCEPT ![Len(devices)].queue = Len(devices)]

LEMMA HandshakeQueue ==
  ASSUME BootTypes, Body, SlotsListedOnce, UNCHANGED parser, probe' = probe, stage = "queue",
         QueueSize <= machine[Initialising].queue_num_max,
         QueueGiven, stage' = "live"
  PROVE  Body'
  <1>0. stage \in Busy
    BY DEF Busy
  <1>1. machine \in [DOMAIN machine -> Registers] /\ QueueSize \in Nat
    BY BoardsAssumption DEF BootTypes
  <1>2. PICK l : l = Len(devices)
    OBVIOUS
  <1>3. PICK a : a = Initialising
    OBVIOUS
  <1>4. /\ l \in DOMAIN devices /\ l \in VirtIODevices /\ l \in Nat
        /\ a = devices[l].address /\ a \in DOMAIN machine
        /\ ~devices[l].error
        /\ "DriverOK" \notin machine[a].status
        /\ "FeaturesOK" \in machine[a].status
    BY <1>0, <1>2, <1>3, InitContext
  <1>5. /\ DOMAIN machine' = DOMAIN machine
        /\ machine'[a].status = machine[a].status
        /\ machine'[a].queue_num = QueueSize /\ machine'[a].queue_pfn = l
        /\ machine'[a].queue_num_max = machine[a].queue_num_max
        /\ \A b \in DOMAIN machine : b # a => machine'[b] = machine[b]
    <2>1. machine' = [machine EXCEPT ![a].queue_num = QueueSize, ![a].queue_pfn = l]
      BY <1>2, <1>3 DEF QueueGiven
    <2>2. DOMAIN machine' = DOMAIN machine
      BY <2>1
    <2>3. PICK m : m = machine'
      OBVIOUS
    <2>4. m = [machine EXCEPT ![a].queue_num = QueueSize, ![a].queue_pfn = l]
      BY <2>1, <2>3
    <2>5. /\ m[a].status = machine[a].status
          /\ m[a].queue_num = QueueSize /\ m[a].queue_pfn = l
          /\ m[a].queue_num_max = machine[a].queue_num_max
          /\ \A b \in DOMAIN machine : b # a => m[b] = machine[b]
      BY <1>1, <1>4, <2>4 DEF Registers
    <2> QED BY <2>2, <2>3, <2>5
  <1>6. /\ devices' \in Seq(DeviceRecords) /\ Len(devices') = l
        /\ devices'[l].queue = l /\ devices'[l].error = devices[l].error
        /\ \A k \in 1..l :
             /\ devices'[k].type = devices[k].type
             /\ devices'[k].address = devices[k].address
             /\ k # l => devices'[k] = devices[k]
    <2>1. PICK d : NotesQueue(d, l)
      BY DEF NotesQueue
    <2>2. d = devices'
      BY <1>2, <2>1 DEF QueueGiven, NotesQueue
    <2>3. /\ d \in Seq(DeviceRecords) /\ Len(d) = Len(devices)
          /\ d[Len(devices)].queue = l /\ d[Len(devices)].error = devices[Len(devices)].error
          /\ \A k \in 1..Len(devices) :
               /\ d[k].type = devices[k].type
               /\ d[k].address = devices[k].address
               /\ k # Len(devices) => d[k] = devices[k]
      <3>1. l \in Nat
        BY <1>4
      <3>2. BootTypes
        OBVIOUS
      <3> QED BY <1>0, <2>1, <3>1, <3>2, QueueNoted
    <2> QED BY <1>2, <2>2, <2>3
  <1>7. DOMAIN devices' = DOMAIN devices /\ DOMAIN devices = 1..l
    BY <1>0, <1>2, Initialised DEF QueueGiven
  <1>8. devices'[l].address = a /\ devices'[l].type = devices[l].type
    BY <1>4, <1>6, <1>7
  <1>9. Initialising' = a
    BY <1>2, <1>6, <1>8 DEF Initialising, Last
  <1>10. ~Live(Initialising)'
    <2>1. "DriverOK" \notin machine'[a].status
      BY <1>4, <1>5
    <2> QED BY <1>9, <2>1 DEF Live
  <1>11. ReadyFor(l)'
    BY <1>3, <1>4, <1>5, <1>6, <1>8 DEF ReadyFor
  <1>12. Under(Len(devices), stage)'
    <2>1. l \in VirtIODevices'
      BY <1>4, <1>7, <1>8 DEF VirtIODevices
    <2>2. Len(devices)' = l
      BY <1>6
    <2> QED BY <1>4, <1>5, <1>6, <1>8, <1>11, <2>1, <2>2 DEF Under, Live
  <1> QED BY <1>0, <1>2, <1>3, <1>5, <1>6, <1>7, <1>10, <1>12, HandshakeWritten

LEMMA HandshakeStep ==
  ASSUME BootTypes, Handshake, [BootNext]_bootVars
  PROVE  Handshake'
  <1>1. CASE ParseStep /\ UNCHANGED boot /\ stage = "tree"
    BY <1>1 DEF boot, Handshake
  <1>2. CASE UNCHANGED <<parser, boot>>
    <2>1. UNCHANGED <<devices, probe, machine, stage>>
      BY <1>2 DEF boot
    <2>2. VirtIOSlots' = VirtIOSlots /\ \A n : AddressOf(n)' = AddressOf(n)
      BY <1>2, SameTree
    <2>3. SlotsListedOnce' <=> SlotsListedOnce
      BY <1>2, <2>1, SameSlots
    <2>4. VirtIODevices' = VirtIODevices
      BY <2>1 DEF VirtIODevices
    <2>5. Body <=> Body'
      BY <2>1, <2>2, <2>4 DEF Body, Unprobed, Placed, Apart, OwnQueues, LiveReady, InProgress,
        Under, Live, ReadyFor
    <2> QED BY <2>1, <2>3, <2>5 DEF Handshake
  <1>3. ASSUME UNCHANGED parser, BootTail PROVE Handshake'
    <2> USE <1>3
    <2>1. SlotsListedOnce' <=> SlotsListedOnce
      BY MachineSlots, SameSlots
    <2> SUFFICES ASSUME SlotsListedOnce PROVE Body' \/ stage' = "tree"
      BY <2>1 DEF Handshake
    <2>2. stage = "tree" => devices = <<>> /\ probe = {}
      BY DEF BootTypes
    <2>3. stage # "tree" => Body
      BY DEF Handshake
    <2>4. devices \in Seq(DeviceRecords)
      BY DEF BootTypes
    <2>5. ASSUME devices' = <<>>, stage' \notin Busy, Unprobed' PROVE Body'
      <3>1. DOMAIN devices' = {}
        BY <2>5
      <3> QED BY <2>5, <3>1 DEF Body, Placed, Apart, OwnQueues, LiveReady, InProgress, VirtIODevices
    <2>6. CASE TreeParsed
      <3>1. /\ devices' = <<>> /\ stage' \notin Busy /\ machine' = machine
            /\ probe' = VirtIOSlots /\ stage = "tree"
        BY <2>2, <2>6 DEF TreeParsed, At, Busy, VirtIOSlots
      <3>2. \A n \in VirtIOSlots : machine[AddressOf(n)].status = {}
        BY <3>1 DEF BootTypes, SlotsListedOnce, VirtIOSlots
      <3>3. Unprobed'
        BY <3>1, <3>2, SameTree DEF Unprobed
      <3> QED BY <2>5, <3>1, <3>3
    <2>7. CASE NamelessFault
      <3>1. devices' = <<>> /\ stage' \notin Busy /\ probe' = {}
        BY <2>2, <2>7 DEF NamelessFault, Busy
      <3>2. Unprobed'
        BY <3>1 DEF Unprobed
      <3> QED BY <2>5, <3>1, <3>2
    <2>8. CASE ProbeSlot
      <3>1. stage = "probe" /\ probe # {} /\ machine' = machine /\ probe' = probe \ {Min(probe)}
        BY <2>8 DEF ProbeSlot
      <3>2. PICK d : d = LoadedDevice(Min(probe))
        OBVIOUS
      <3>3. \/ devices' = devices /\ stage' = stage
            \/ devices' = Append(devices, d) /\ stage' = IF d.error THEN stage ELSE "reset"
        BY <2>8, <3>2 DEF ProbeSlot
      <3>4. /\ Min(probe) \in probe
            /\ d \in DeviceRecords /\ d.type # "Console" /\ d.queue = 0
            /\ d.address = AddressOf(Min(probe))
        BY <3>1, <3>2, NextSlot
      <3>5. CASE devices' = devices /\ stage' = stage
        BY <2>3, <3>1, <3>5, HandshakeQuiet DEF Busy
      <3>6. CASE devices' = Append(devices, d) /\ stage' = IF d.error THEN stage ELSE "reset"
        <4>1. stage' \in Busy => stage' = "reset" /\ ~d.error
          BY <3>1, <3>6 DEF Busy
        <4>2. \E n \in probe : d.address = AddressOf(n) /\ probe' = probe \ {n}
          BY <3>1, <3>4
        <4> QED BY <2>3, <2>4, <3>1, <3>4, <3>6, <4>1, <4>2, HandshakeAdded
      <3> QED BY <3>3, <3>5, <3>6
    <2>9. ASSUME NEW from \in Busy, InitStep(from)
          PROVE  stage = from /\ stage \in Busy /\ probe' = probe /\ Body
      BY <2>3, <2>9 DEF InitStep, Busy
    <2>10. ASSUME stage \in Busy, Body PROVE Status \in SUBSET StatusBits /\ "DriverOK" \notin Status
      BY <2>10, StatusType, InitContext DEF Status
    <2>11. CASE ResetAndDriver
      <3>1. InitStep("reset") /\ "reset" \in Busy /\ stage' = "features" /\ devices' = devices
            /\ SetStatus({"Acknowledge", "Driver"})
        BY <2>11 DEF ResetAndDriver, Busy
      <3>2. PICK v \in SUBSET StatusBits : v = {"Acknowledge", "Driver"}
        BY DEF StatusBits
      <3>3. SetStatus(v) /\ "DriverOK" \notin v
        BY <3>1, <3>2
      <3> QED BY <2>9, <3>1, <3>3, HandshakeStatus
    <2>12. CASE FeaturesOk
      <3>1. InitStep("features") /\ "features" \in Busy /\ stage' = "reread" /\ devices' = devices
        BY <2>12 DEF FeaturesOk, Busy
      <3>2. PICK kept \in BOOLEAN : SetStatus(IF kept THEN Status \cup {"FeaturesOK"} ELSE Status)
        BY <2>12 DEF FeaturesOk
      <3>3. PICK v \in SUBSET StatusBits : v = IF kept THEN Status \cup {"FeaturesOK"} ELSE Status
        BY <2>9, <2>10, <3>1 DEF StatusBits
      <3>4. SetStatus(v) /\ "DriverOK" \notin v
        BY <2>9, <2>10, <3>1, <3>2, <3>3
      <3> QED BY <2>9, <3>1, <3>4, HandshakeStatus
    <2>13. CASE ReReadStatus
      <3>1. InitStep("reread") /\ "reread" \in Busy /\ machine' = machine
        BY <2>13 DEF ReReadStatus, Busy
      <3>2. stage = "reread" /\ stage \in Busy /\ probe' = probe /\ Body
        BY <2>9, <3>1
      <3>3. CASE InitFails
        BY <3>1, <3>2, <3>3, HandshakeFails
      <3>4. CASE "FeaturesOK" \in Status /\ stage' = "queue" /\ devices' = devices
        <4>1. PICK l : l = Len(devices)
          OBVIOUS
        <4>2. /\ l \in DOMAIN devices /\ l \in VirtIODevices /\ Initialising = devices[l].address
              /\ ~devices[l].error /\ "DriverOK" \notin machine[Initialising].status
              /\ devices[l].queue \in {0, l}
          BY <3>2, <4>1, InitContext
        <4>3. Initialising' = Initialising /\ VirtIODevices' = VirtIODevices
          BY <3>4 DEF Initialising, VirtIODevices
        <4>4. Under(Len(devices), stage)' /\ ~Live(Initialising)'
          BY <3>1, <3>4, <4>1, <4>2, <4>3 DEF Under, Live, Status
        <4> QED BY <3>1, <3>2, <3>4, <4>1, <4>2, <4>4, HandshakeWritten
      <3> QED BY <2>13, <3>3, <3>4 DEF ReReadStatus
    <2>14. CASE SetUpQueue
      <3>1. InitStep("queue") /\ "queue" \in Busy
        BY <2>14 DEF SetUpQueue, Busy
      <3>2. stage = "queue" /\ stage \in Busy /\ probe' = probe /\ Body
        BY <2>9, <3>1
      <3>3. CASE InitFails /\ machine' = [machine EXCEPT ![Initialising].queue_num = QueueSize]
        BY <3>2, <3>3, HandshakeFails
      <3>4. CASE QueueGiven /\ stage' = "live" /\ ~(QueueSize > machine[Initialising].queue_num_max)
        <4>1. Initialising \in DOMAIN machine
          BY <3>2, InitContext
        <4>2. machine[Initialising].queue_num_max \in Nat /\ QueueSize \in Nat
          BY <4>1, BoardsAssumption DEF BootTypes, Registers
        <4>3. QueueSize <= machine[Initialising].queue_num_max
          BY <3>4, <4>2
        <4> QED BY <3>2, <3>4, <4>3, HandshakeQueue
      <3> QED BY <2>14, <3>3, <3>4 DEF SetUpQueue, QueueGiven
    <2>15. CASE DriverOk
      <3>1. InitStep("live") /\ "live" \in Busy /\ stage' = "probe" /\ devices' = devices
            /\ SetStatus(Status \cup {"DriverOK"})
        BY <2>15 DEF DriverOk, Busy
      <3>2. PICK v \in SUBSET StatusBits : v = Status \cup {"DriverOK"}
        BY <2>9, <2>10, <3>1 DEF StatusBits
      <3>3. SetStatus(v) /\ stage' \notin Busy
        BY <3>1, <3>2 DEF Busy
      <3> QED BY <2>9, <3>1, <3>2, <3>3, HandshakeStatus
    <2>16. CASE AddConsole
      <3>1. stage = "probe" /\ stage' \notin Busy /\ machine' = machine /\ probe' = probe
        BY <2>16 DEF AddConsole, At, Busy
      <3>2. CASE FindNode(SerialPath) = 0
        <4>1. devices' = devices
          BY <2>16, <3>2 DEF AddConsole
        <4> QED BY <2>3, <3>1, <4>1, HandshakeQuiet
      <3>3. CASE FindNode(SerialPath) # 0
        <4>1. PICK n : n = FindNode(SerialPath)
          OBVIOUS
        <4>2. PICK d : d = ConsoleOf(n)
          OBVIOUS
        <4>3. devices' = Append(devices, d)
          BY <2>16, <3>3, <4>1, <4>2 DEF AddConsole, ConsoleOf
        <4>4. d \in DeviceRecords /\ d.type = "Console" /\ d.queue = 0
          BY <3>3, <4>1, <4>2, ConsoleNode
        <4> QED BY <2>3, <2>4, <3>1, <4>3, <4>4, HandshakeAdded
      <3> QED BY <3>2, <3>3
    <2>17. CASE LoadDrivers
      <3>1. stage = "load" /\ stage' \notin Busy /\ machine' = machine /\ probe' = probe
        BY <2>17 DEF LoadDrivers, At, Busy
      <3>2. devices' = WithDrivers
        BY <2>17 DEF LoadDrivers, WithDrivers
      <3>3. DOMAIN devices' = DOMAIN devices
        BY <3>2 DEF WithDrivers
      <3> QED BY <2>3, <3>1, <3>2, <3>3, DriversLoaded, HandshakeQuiet
    <2>18. CASE \/ MountRoot \/ SetUpInterrupts \/ LookUpConsole \/ InitTimer \/ StartScheduling
                \/ \E source \in DeviceIrqs : DeviceInterrupt(source)
      <3>1. UNCHANGED <<devices, probe, machine>>
        BY <2>18 DEF MountRoot, SetUpInterrupts, LookUpConsole, InitTimer, StartScheduling,
          DeviceInterrupt
      <3>2. stage # "tree" /\ stage' \in {"fault", "interrupts", "log", "timer", "start", "user"}
        BY <2>18 DEF MountRoot, SetUpInterrupts, LookUpConsole, InitTimer, StartScheduling,
          DeviceInterrupt, At
      <3> QED BY <2>3, <3>1, <3>2, HandshakeQuiet DEF Busy
    <2> QED BY <2>6, <2>7, <2>8, <2>11, <2>12, <2>13, <2>14, <2>15, <2>16, <2>17, <2>18 DEF BootTail
  <1> QED BY <1>1, <1>2, <1>3, StepKinds

LEMMA HandshakeEnough ==
  ASSUME BootTypes, Handshake
  PROVE  HandshakeKept
  <1> SUFFICES ASSUME SlotsListedOnce, NEW k \in DOMAIN devices, devices[k].type # "Console",
                      Live(devices[k].address)
               PROVE  /\ ReadyFor(k)
                      /\ \A j \in DOMAIN devices : devices[j].queue = devices[k].queue => j = k
    BY DEF HandshakeKept
  <1>1. stage # "tree"
    <2>1. DOMAIN <<>> = {}
      OBVIOUS
    <2> QED BY <2>1 DEF BootTypes
  <1>2. Body
    BY <1>1 DEF Handshake
  <1>3. ReadyFor(k) /\ devices[k].queue = k
    BY <1>2 DEF Body, LiveReady, VirtIODevices
  <1>4. k # 0
    <2> DEFINE R == DeviceRecords
    <2>1. devices \in Seq(R)
      BY DEF BootTypes
    <2> HIDE DEF R
    <2> QED BY <2>1
  <1> QED BY <1>2, <1>3, <1>4 DEF Body, OwnQueues

(* The types of the boot: the parser's, the registers' and the devices'    *)
(* records, and a device whenever one is being initialised.                *)
THEOREM BootTypeCorrect == BootSpec => []BootTypes
  <1>1. BootInit => BootTypes
    BY TypesInitially
  <1>2. BootTypes /\ [BootNext]_bootVars => BootTypes'
    BY TypesKept
  <1> QED BY <1>1, <1>2, PTL DEF BootSpec

(* VirtIODevice::init, over the whole probe loop of VirtIODriver::init: no *)
(* device is told DRIVER_OK before it kept FEATURES_OK and got its own     *)
(* queue of a size that it can have, on every board whose tree lists each  *)
(* slot once.                                                              *)
THEOREM HandshakeRight == BootSpec => []HandshakeKept
  <1>1. BootInit => Handshake
    BY DEF BootInit, Handshake
  <1>2. BootTypes /\ Handshake /\ [BootNext]_bootVars => Handshake'
    BY HandshakeStep
  <1>3. BootTypes /\ Handshake => HandshakeKept
    BY HandshakeEnough
  <1> QED BY <1>1, <1>2, <1>3, BootTypeCorrect, PTL DEF BootSpec

-----------------------------------------------------------------------------
(* The interrupts and the console.                                         *)

Probing == {"tree", "probe"} \cup Busy
AfterLoad == {"rootfs", "interrupts", "log", "timer", "start", "user"}

\* Every device stands for a node of the tree.
Homes ==
  \A k \in DOMAIN devices :
    \E n \in DOMAIN nodes : /\ devices[k].irqs = PropertyOf(n, "interrupts")
                            /\ devices[k].address = AddressOf(n)
\* The controller is set up once, for the devices that are there from then on.
Lines ==
  plic.base # NoBase =>
    /\ stage \in {"log", "timer", "start", "user", "fault"}
    /\ plic.enabled = Enabled(DeviceIrqs)
    /\ plic.priority = DeviceIrqs
    /\ plic.threshold = 0
Delegated ==
  handled.irq # 0 =>
    /\ stage = "user"
    /\ handled.device \in DOMAIN devices
    /\ handled.irq \in ToSet(devices[handled.device].irqs)
OneConsole ==
  /\ tty # 0 => /\ tty \in DOMAIN devices
                /\ devices[tty].type = "Console" /\ devices[tty].needs_driver
  /\ \A k \in DOMAIN devices : devices[k].type = "Console" => k = tty
  /\ stage \in Probing => tty = 0
UartAtReset == [dlab |-> FALSE, divisor |-> 1, ier |-> 0, fifo |-> FALSE]
UartReady == [dlab |-> FALSE, divisor |-> 3, ier |-> 1, fifo |-> TRUE]
ConsoleSetUp ==
  /\ stage \in Probing \cup {"load"} => uart = UartAtReset
  /\ (stage \in AfterLoad /\ tty # 0 /\ devices[tty].under = "ns16550a") =>
       devices[tty].driver = "NS16550A" /\ uart = UartReady
Logged ==
  /\ log \in [output : {"SBI", "Console", "LogFile"}, console : Nat]
  /\ (stage \in {"timer", "start", "user"} /\ tty # 0) => log.console = tty

Reach == Homes /\ Lines /\ Delegated /\ OneConsole /\ ConsoleSetUp /\ Logged

LEMMA HomeOf ==
  ASSUME devices \in Seq(DeviceRecords), NEW k \in DOMAIN devices
  PROVE  devices[k] \in DeviceRecords /\ DOMAIN devices = 1..Len(devices) /\ Len(devices) \in Nat
  <1> DEFINE R == DeviceRecords
  <1>1. devices \in Seq(R)
    OBVIOUS
  <1> HIDE DEF R
  <1>2. devices[k] \in R /\ DOMAIN devices = 1..Len(devices) /\ Len(devices) \in Nat
    BY <1>1
  <1> QED BY <1>2 DEF R

\* The writes of NS16550ADriver::init.
UartHolds(u, d, v, i, f) == u.dlab = d /\ u.divisor = v /\ u.ier = i /\ u.fifo = f

LEMMA UartFields ==
  ASSUME NEW u, NEW r, NEW value
  PROVE  /\ UartWrite(u, r, value).dlab = IF r = 3 THEN value >= 128 ELSE u.dlab
         /\ UartWrite(u, r, value).divisor = IF u.dlab /\ r = 0 THEN (u.divisor \div 256) * 256 + value
                        ELSE IF u.dlab /\ r = 1 THEN (u.divisor % 256) + 256 * value
                        ELSE u.divisor
         /\ UartWrite(u, r, value).ier = IF ~u.dlab /\ r = 1 THEN value ELSE u.ier
         /\ UartWrite(u, r, value).fifo = IF r = 2 THEN value % 2 = 1 ELSE u.fifo
  <1>1. UartWrite(u, r, value).dlab = IF r = 3 THEN value >= 128 ELSE u.dlab
    BY DEF UartWrite
  <1>2. UartWrite(u, r, value).divisor = IF u.dlab /\ r = 0 THEN (u.divisor \div 256) * 256 + value
                                 ELSE IF u.dlab /\ r = 1 THEN (u.divisor % 256) + 256 * value
                                 ELSE u.divisor
    BY DEF UartWrite
  <1>3. UartWrite(u, r, value).ier = IF ~u.dlab /\ r = 1 THEN value ELSE u.ier
    BY DEF UartWrite
  <1>4. UartWrite(u, r, value).fifo = IF r = 2 THEN value % 2 = 1 ELSE u.fifo
    BY DEF UartWrite
  <1> QED BY <1>1, <1>2, <1>3, <1>4, Zenon

LEMMA UartSetUp == UartInit(UartAtReset) = UartReady
  <1>0. PICK u0 : u0 = UartAtReset
    OBVIOUS
  <1>1. PICK u1 : u1 = UartWrite(u0, 1, 0)
    OBVIOUS
  <1>2. PICK u2 : u2 = UartWrite(u1, 3, 128)
    OBVIOUS
  <1>3. PICK u3 : u3 = UartWrite(u2, 0, 3)
    OBVIOUS
  <1>4. PICK u4 : u4 = UartWrite(u3, 1, 0)
    OBVIOUS
  <1>5. PICK u5 : u5 = UartWrite(u4, 3, 3)
    OBVIOUS
  <1>6. PICK u6 : u6 = UartWrite(u5, 2, 7)
    OBVIOUS
  <1>7. PICK u7 : u7 = UartWrite(u6, 1, 1)
    OBVIOUS
  <1>8. PICK u8 : u8 = UartWrite(u7, 4, 15)
    OBVIOUS
  <1>10. UartHolds(u0, FALSE, 1, 0, FALSE)
    BY <1>0 DEF UartAtReset, UartHolds
  <1>11. UartHolds(u1, FALSE, 1, 0, FALSE)
    BY <1>1, <1>10, UartFields DEF UartHolds
  <1>12. UartHolds(u2, TRUE, 1, 0, FALSE)
    <2>1. (128 >= 128) = TRUE
      OBVIOUS
    <2>2. u2.dlab = (128 >= 128)
      BY <1>2, UartFields
    <2>3. u2.dlab = TRUE
      BY <2>1, <2>2, Zenon
    <2> QED BY <1>2, <1>11, <2>3, UartFields DEF UartHolds
  <1>13. UartHolds(u3, TRUE, 3, 0, FALSE)
    BY <1>3, <1>12, UartFields DEF UartHolds
  <1>14. UartHolds(u4, TRUE, 3, 0, FALSE)
    BY <1>4, <1>13, UartFields DEF UartHolds
  <1>15. UartHolds(u5, FALSE, 3, 0, FALSE)
    <2>1. (3 >= 128) = FALSE
      OBVIOUS
    <2>2. u5.dlab = (3 >= 128)
      BY <1>5, UartFields
    <2>3. u5.dlab = FALSE
      BY <2>1, <2>2, Zenon
    <2> QED BY <1>5, <1>14, <2>3, UartFields DEF UartHolds
  <1>16. UartHolds(u6, FALSE, 3, 0, TRUE)
    <2>1. (7 % 2 = 1) = TRUE
      OBVIOUS
    <2>2. u6.fifo = (7 % 2 = 1)
      BY <1>6, UartFields
    <2>3. u6.fifo = TRUE
      BY <2>1, <2>2, Zenon
    <2> QED BY <1>6, <1>15, <2>3, UartFields DEF UartHolds
  <1>17. UartHolds(u7, FALSE, 3, 1, TRUE)
    BY <1>7, <1>16, UartFields DEF UartHolds
  <1>18. UartHolds(u8, FALSE, 3, 1, TRUE)
    BY <1>8, <1>17, UartFields DEF UartHolds
  <1>20. UartInit(UartAtReset) = u8
    BY <1>0, <1>1, <1>2, <1>3, <1>4, <1>5, <1>6, <1>7, <1>8, Zenon DEF UartInit, WithDivisor
  <1>21. u8 = [dlab |-> u8.dlab, divisor |-> u8.divisor, ier |-> u8.ier, fifo |-> u8.fifo]
    BY <1>8 DEF UartWrite
  <1> QED BY <1>18, <1>20, <1>21 DEF UartHolds, UartReady

\* A step while the slots are probed.
LEMMA ReachProbing ==
  ASSUME Reach, Homes', UNCHANGED <<plic, log, tty, uart, handled>>,
         \A k \in DOMAIN devices' : devices'[k].type # "Console",
         stage \in Probing, stage' \in Probing \cup {"load", "fault"}
  PROVE  Reach'
  <1>1. plic.base = NoBase /\ handled.irq = 0 /\ tty = 0 /\ uart = UartAtReset
    BY DEF Reach, Lines, Delegated, OneConsole, ConsoleSetUp, Probing, Busy
  <1>2. Lines' /\ Delegated'
    BY <1>1 DEF Lines, Delegated
  <1>3. OneConsole'
    BY <1>1 DEF OneConsole
  <1>4. ConsoleSetUp'
    BY <1>1 DEF ConsoleSetUp, AfterLoad, Probing, Busy, UartAtReset
  <1>5. Logged'
    BY <1>1 DEF Reach, Logged
  <1> QED BY <1>2, <1>3, <1>4, <1>5 DEF Reach

\* A step after the drivers are loaded, which leaves the devices alone.
LEMMA ReachAfter ==
  ASSUME Reach, UNCHANGED parser, UNCHANGED <<devices, tty, uart>>,
         stage \in AfterLoad, stage' \in AfterLoad \cup {"fault"},
         Lines', Delegated', Logged'
  PROVE  Reach'
  <1>1. nodes' = nodes
        /\ (\A n : AddressOf(n)' = AddressOf(n))
        /\ \A n, p : PropertyOf(n, p)' = PropertyOf(n, p)
    BY SameTree
  <1>2. Homes'
    BY <1>1 DEF Reach, Homes
  <1>3. stage' \notin Probing \cup {"load"}
    BY DEF AfterLoad, Probing, Busy
  <1>4. OneConsole'
    BY <1>3 DEF Reach, OneConsole
  <1>5. ConsoleSetUp'
    <2>1. UartReady' = UartReady
      BY DEF UartReady
    <2> QED BY <1>3, <2>1 DEF Reach, ConsoleSetUp
  <1> QED BY <1>2, <1>4, <1>5 DEF Reach

\* A device is added for node n.
LEMMA HomesAdded ==
  ASSUME devices \in Seq(DeviceRecords), UNCHANGED parser, Homes,
         NEW d \in DeviceRecords, devices' = Append(devices, d),
         NEW n \in DOMAIN nodes, d.irqs = PropertyOf(n, "interrupts"), d.address = AddressOf(n)
  PROVE  Homes'
  <1>1. nodes' = nodes
        /\ (\A m : AddressOf(m)' = AddressOf(m))
        /\ \A m, p : PropertyOf(m, p)' = PropertyOf(m, p)
    BY SameTree
  <1>2. /\ Len(devices) \in Nat
        /\ DOMAIN devices = 1..Len(devices)
        /\ DOMAIN devices' = 1..(Len(devices) + 1)
        /\ devices'[Len(devices) + 1] = d
        /\ \A k \in DOMAIN devices : devices'[k] = devices[k]
    BY DeviceAppended
  <1> SUFFICES ASSUME NEW k \in DOMAIN devices'
               PROVE  \E m \in DOMAIN nodes : /\ devices'[k].irqs = PropertyOf(m, "interrupts")
                                              /\ devices'[k].address = AddressOf(m)
    BY <1>1 DEF Homes
  <1>3. CASE k = Len(devices) + 1
    BY <1>2, <1>3
  <1>4. CASE k \in DOMAIN devices
    BY <1>2, <1>4 DEF Homes
  <1> QED BY <1>2, <1>3, <1>4

LEMMA HomesKept ==
  ASSUME UNCHANGED parser, Homes, DOMAIN devices' = DOMAIN devices,
         \A k \in DOMAIN devices : /\ devices'[k].irqs = devices[k].irqs
                                   /\ devices'[k].address = devices[k].address
  PROVE  Homes'
  <1>1. nodes' = nodes
        /\ (\A m : AddressOf(m)' = AddressOf(m))
        /\ \A m, p : PropertyOf(m, p)' = PropertyOf(m, p)
    BY SameTree
  <1> QED BY <1>1 DEF Homes

LEMMA ReachInit ==
  ASSUME BootInit
  PROVE  Reach
  <1>1. devices = <<>> /\ DOMAIN <<>> = {}
    BY DEF BootInit
  <1>2. Homes /\ OneConsole
    BY <1>1 DEF BootInit, Homes, OneConsole
  <1>3. Lines /\ Delegated
    BY DEF BootInit, Lines, Delegated
  <1>4. ConsoleSetUp
    BY DEF BootInit, ConsoleSetUp, UartAtReset
  <1>5. Logged
    BY DEF BootInit, Logged
  <1> QED BY <1>2, <1>3, <1>4, <1>5 DEF Reach

\* The first of the devices that handle an interrupt.
LEMMA DelegateOf ==
  ASSUME devices \in Seq(DeviceRecords), NEW source \in DeviceIrqs
  PROVE  Delegate(source) \in DOMAIN devices /\ source \in ToSet(devices[Delegate(source)].irqs)
  <1> DEFINE H == {k \in DOMAIN devices : HandlesInterrupt(devices[k], source)}
  <1>1. PICK k \in DOMAIN devices : source \in ToSet(devices[k].irqs)
    BY DEF DeviceIrqs
  <1>2. H # {}
    BY <1>1 DEF HandlesInterrupt
  <1>3. H \subseteq Nat
    BY HomeOf
  <1>4. Min(H) \in H
    BY <1>2, <1>3, MinOf
  <1>5. Delegate(source) = Min(H)
    BY <1>2 DEF Delegate
  <1> QED BY <1>4, <1>5 DEF HandlesInterrupt

\* The console is added.
LEMMA ReachConsole ==
  ASSUME BootTypes, Reach, UNCHANGED parser, AddConsole
  PROVE  Reach'
  <1>0. stage = "probe" /\ stage' \in {"load", "fault"} /\ UNCHANGED <<plic, log, uart, handled>>
    BY DEF AddConsole, At
  <1>1. plic.base = NoBase /\ handled.irq = 0 /\ tty = 0 /\ uart = UartAtReset
    BY <1>0 DEF Reach, Lines, Delegated, OneConsole, ConsoleSetUp, Probing, Busy
  <1>2. \A k \in DOMAIN devices : devices[k].type # "Console" \/ k = 0
    BY <1>1 DEF Reach, OneConsole
  <1>3. devices \in Seq(DeviceRecords)
    BY DEF BootTypes
  <1>4. \A k \in DOMAIN devices : devices[k].type # "Console"
    BY <1>2, <1>3, HomeOf
  <1>5. CASE FindNode(SerialPath) = 0
    <2>1. devices' = devices /\ tty' = tty
      BY <1>5 DEF AddConsole
    <2>2. Homes'
      BY <2>1, HomesKept DEF Reach
    <2> QED BY <1>0, <1>4, <2>1, <2>2, ReachProbing DEF Probing
  <1>6. CASE FindNode(SerialPath) # 0
    <2>1. PICK n : n = FindNode(SerialPath)
      OBVIOUS
    <2>2. PICK d : d = ConsoleOf(n)
      OBVIOUS
    <2>3. devices' = Append(devices, d) /\ tty' = Len(devices) + 1
      BY <1>6, <2>1, <2>2 DEF AddConsole, ConsoleOf
    <2>4. /\ n \in DOMAIN nodes /\ d \in DeviceRecords /\ d.type = "Console" /\ d.needs_driver
          /\ d.irqs = PropertyOf(n, "interrupts") /\ d.address = AddressOf(n)
      BY <1>6, <2>1, <2>2, ConsoleNode
    <2>5. Homes'
      BY <1>3, <2>3, <2>4, HomesAdded DEF Reach
    <2>6. /\ Len(devices) \in Nat /\ DOMAIN devices = 1..Len(devices)
          /\ DOMAIN devices' = 1..(Len(devices) + 1)
          /\ devices'[Len(devices) + 1] = d
          /\ \A k \in DOMAIN devices : devices'[k] = devices[k]
      BY <1>3, <2>3, <2>4, DeviceAppended
    <2>7. OneConsole'
      <3>1. \A k \in DOMAIN devices' : devices'[k].type = "Console" => k = tty'
        BY <1>4, <2>3, <2>6
      <3>2. tty' \in DOMAIN devices' /\ devices'[tty'] = d
        BY <2>3, <2>6
      <3> QED BY <1>0, <2>4, <3>1, <3>2 DEF OneConsole, Probing, Busy
    <2>8. Lines' /\ Delegated'
      BY <1>0, <1>1 DEF Lines, Delegated
    <2>9. ConsoleSetUp'
      BY <1>0, <1>1 DEF ConsoleSetUp, AfterLoad, UartAtReset
    <2>10. Logged'
      BY <1>0 DEF Reach, Logged
    <2> QED BY <2>5, <2>7, <2>8, <2>9, <2>10 DEF Reach
  <1> QED BY <1>5, <1>6

\* The drivers are loaded.
LEMMA ReachLoaded ==
  ASSUME BootTypes, Reach, UNCHANGED parser, LoadDrivers
  PROVE  Reach'
  <1>0. stage = "load" /\ stage' \in {"rootfs", "fault"} /\ UNCHANGED <<plic, log, tty, handled>>
    BY DEF LoadDrivers, At
  <1>1. plic.base = NoBase /\ handled.irq = 0 /\ uart = UartAtReset
    BY <1>0 DEF Reach, Lines, Delegated, OneConsole, ConsoleSetUp, Probing, Busy
  <1>2. devices' = WithDrivers
    BY DEF LoadDrivers, WithDrivers
  <1>3. DOMAIN devices' = DOMAIN devices
    BY <1>2 DEF WithDrivers
  <1>4. \A k \in DOMAIN devices :
          /\ devices'[k].type = devices[k].type /\ devices'[k].under = devices[k].under
          /\ devices'[k].irqs = devices[k].irqs /\ devices'[k].address = devices[k].address
          /\ devices'[k].needs_driver = devices[k].needs_driver
          /\ devices[k].needs_driver => devices'[k].driver = CompatibleDriver(devices[k])
    BY <1>2, DriversLoaded
  <1>5. Homes'
    BY <1>3, <1>4, HomesKept DEF Reach
  <1>6. OneConsole'
    BY <1>0, <1>3, <1>4 DEF Reach, OneConsole, Probing, Busy
  <1>7. Lines' /\ Delegated'
    BY <1>0, <1>1 DEF Lines, Delegated
  <1>8. ConsoleSetUp'
    <2> SUFFICES ASSUME tty # 0, devices'[tty].under = "ns16550a"
                 PROVE  devices'[tty].driver = "NS16550A" /\ uart' = UartReady
      BY <1>0 DEF ConsoleSetUp, Probing, Busy, UartReady
    <2>1. tty \in DOMAIN devices /\ devices[tty].type = "Console" /\ devices[tty].needs_driver
      BY DEF Reach, OneConsole
    <2>2. devices[tty].under = "ns16550a"
      BY <1>4, <2>1
    <2>3. CompatibleDriver(devices[tty]) = "NS16550A"
      BY <2>1, <2>2 DEF CompatibleDriver, FitsVirtIO, FitsNS16550A
    <2>4. uart' = UartInit(uart)
      BY <2>1, <2>3 DEF LoadDrivers
    <2> QED BY <1>1, <1>4, <2>1, <2>3, <2>4, UartSetUp
  <1>9. Logged'
    BY <1>0 DEF Reach, Logged
  <1> QED BY <1>5, <1>6, <1>7, <1>8, <1>9 DEF Reach

LEMMA ReachStep ==
  ASSUME BootTypes, Reach, [BootNext]_bootVars
  PROVE  Reach'
  <1>0. devices \in Seq(DeviceRecords)
    BY DEF BootTypes
  <1>1. stage \in Probing => /\ tty = 0
                             /\ \A k \in DOMAIN devices : devices[k].type # "Console"
    <2>1. \A k \in DOMAIN devices : k # 0
      BY <1>0, HomeOf
    <2> QED BY <2>1 DEF Reach, OneConsole
  <1>2. CASE ParseStep /\ UNCHANGED boot /\ stage = "tree"
    <2>1. devices' = <<>> /\ stage' = "tree" /\ UNCHANGED <<plic, log, tty, uart, handled>>
      BY <1>2 DEF boot, BootTypes
    <2>2. DOMAIN devices' = {}
      BY <2>1
    <2>3. Homes'
      BY <2>2 DEF Homes
    <2> QED BY <1>2, <2>1, <2>2, <2>3, ReachProbing DEF Probing
  <1>3. CASE UNCHANGED <<parser, boot>>
    <2>1. UNCHANGED <<devices, stage, plic, log, tty, uart, handled>>
      BY <1>3 DEF boot
    <2>2. Homes'
      BY <1>3, <2>1, HomesKept DEF Reach
    <2>3. Lines' /\ Delegated' /\ OneConsole' /\ Logged'
      BY <2>1 DEF Reach, Lines, Delegated, OneConsole, Logged, DeviceIrqs
    <2>4. ConsoleSetUp'
      BY <2>1 DEF Reach, ConsoleSetUp, UartReady, UartAtReset
    <2> QED BY <2>2, <2>3, <2>4 DEF Reach
  <1>4. ASSUME UNCHANGED parser, BootTail PROVE Reach'
    <2> USE <1>4
    <2>1. ASSUME UNCHANGED <<plic, log, tty, uart, handled>>, DOMAIN devices' = DOMAIN devices,
                 \A k \in DOMAIN devices : /\ devices'[k].type = devices[k].type
                                           /\ devices'[k].irqs = devices[k].irqs
                                           /\ devices'[k].address = devices[k].address,
                 stage \in Probing, stage' \in Probing \cup {"fault"}
          PROVE  Reach'
      <3>1. Homes'
        BY <2>1, HomesKept DEF Reach
      <3>2. \A k \in DOMAIN devices' : devices'[k].type # "Console"
        BY <1>1, <2>1
      <3> QED BY <2>1, <3>1, <3>2, ReachProbing
    <2>2. CASE TreeParsed
      <3>1. UNCHANGED <<devices, plic, log, tty, uart, handled>>
            /\ stage \in Probing /\ stage' \in Probing \cup {"fault"}
        BY <2>2 DEF TreeParsed, At, Probing
      <3> QED BY <2>1, <3>1
    <2>3. CASE NamelessFault
      <3>1. UNCHANGED <<devices, plic, log, tty, uart, handled>>
            /\ stage \in Probing /\ stage' \in Probing \cup {"fault"}
        BY <2>3 DEF NamelessFault, Probing
      <3> QED BY <2>1, <3>1
    <2>4. CASE ProbeSlot
      <3>1. /\ stage \in Probing /\ stage = "probe" /\ stage' \in Probing \cup {"fault"}
            /\ probe # {} /\ UNCHANGED <<plic, log, tty, uart, handled>>
        BY <2>4 DEF ProbeSlot, Probing, Busy
      <3>2. PICK n : n = Min(probe)
        OBVIOUS
      <3>3. PICK d : d = LoadedDevice(n)
        OBVIOUS
      <3>4. devices' = devices \/ devices' = Append(devices, d)
        BY <2>4, <3>2, <3>3 DEF ProbeSlot
      <3>5. CASE devices' = devices
        BY <2>1, <3>1, <3>5
      <3>6. CASE devices' = Append(devices, d)
        <4>1. /\ n \in DOMAIN nodes /\ d \in DeviceRecords /\ d.type # "Console"
              /\ d.address = AddressOf(n) /\ d.irqs = PropertyOf(n, "interrupts")
          BY <3>1, <3>2, <3>3, NextSlot
        <4>2. Homes'
          BY <1>0, <3>6, <4>1, HomesAdded DEF Reach
        <4>3. /\ Len(devices) \in Nat /\ DOMAIN devices = 1..Len(devices)
              /\ DOMAIN devices' = 1..(Len(devices) + 1)
              /\ devices'[Len(devices) + 1] = d
              /\ \A k \in DOMAIN devices : devices'[k] = devices[k]
          BY <1>0, <3>6, <4>1, DeviceAppended
        <4>4. \A k \in DOMAIN devices' : devices'[k].type # "Console"
          BY <1>1, <3>1, <4>1, <4>3
        <4> QED BY <3>1, <4>2, <4>4, ReachProbing
      <3> QED BY <3>4, <3>5, <3>6
    <2>5. CASE ResetAndDriver \/ FeaturesOk \/ DriverOk
      <3>1. /\ UNCHANGED <<devices, plic, log, tty, uart, handled>>
            /\ stage \in Probing /\ stage' \in Probing \cup {"fault"}
        BY <2>5 DEF ResetAndDriver, FeaturesOk, DriverOk, InitStep, Probing, Busy
      <3> QED BY <2>1, <3>1
    <2>6. CASE ReReadStatus \/ SetUpQueue
      <3>1. /\ UNCHANGED <<plic, log, tty, uart, handled>>
            /\ stage \in Probing /\ stage \in Busy /\ stage' \in Probing \cup {"fault"}
        BY <2>6 DEF ReReadStatus, SetUpQueue, InitStep, InitFails, Probing, Busy
      <3>2. PICK l : l = Len(devices)
        OBVIOUS
      <3>3. l \in Nat /\ DOMAIN devices = 1..l
        BY <3>1, <3>2, Initialised
      <3>4. \/ devices' = devices
            \/ devices' = [devices EXCEPT ![Len(devices)].error = TRUE]
            \/ NotesQueue(devices', l)
        BY <2>6, <3>2 DEF ReReadStatus, SetUpQueue, InitFails, NotesQueue
      <3>5. CASE devices' = devices
        BY <2>1, <3>1, <3>5
      <3>6. CASE devices' = [devices EXCEPT ![Len(devices)].error = TRUE]
        <4>1. DOMAIN devices' = DOMAIN devices
          BY <3>6
        <4>2. \A k \in 1..Len(devices) : /\ devices'[k].type = devices[k].type
                                         /\ devices'[k].irqs = devices[k].irqs
                                         /\ devices'[k].address = devices[k].address
          BY <3>1, <3>3, <3>6, LastNoted
        <4> QED BY <2>1, <3>1, <3>2, <3>3, <4>1, <4>2
      <3>7. CASE NotesQueue(devices', l)
        <4>1. DOMAIN devices' = DOMAIN devices
          BY <3>7 DEF NotesQueue
        <4>2. \A k \in 1..Len(devices) : /\ devices'[k].type = devices[k].type
                                         /\ devices'[k].irqs = devices[k].irqs
                                         /\ devices'[k].address = devices[k].address
          BY <3>1, <3>3, <3>7, QueueNoted
        <4> QED BY <2>1, <3>1, <3>2, <3>3, <4>1, <4>2
      <3> QED BY <3>4, <3>5, <3>6, <3>7
    <2>7. CASE AddConsole
      BY <2>7, ReachConsole
    <2>8. CASE LoadDrivers
      BY <2>8, ReachLoaded
    <2>9. CASE MountRoot
      <3>1. /\ UNCHANGED <<devices, plic, log, tty, uart, handled>>
            /\ stage = "rootfs" /\ stage' \in {"interrupts", "fault"}
        BY <2>9 DEF MountRoot, At
      <3>2. Lines' /\ Delegated' /\ Logged'
        BY <3>1 DEF Reach, Lines, Delegated, Logged
      <3> QED BY <3>1, <3>2, ReachAfter DEF AfterLoad
    <2>10. CASE SetUpInterrupts
      <3>1. /\ UNCHANGED <<devices, log, tty, uart, handled>>
            /\ stage = "interrupts" /\ stage' \in {"log", "fault"}
        BY <2>10 DEF SetUpInterrupts, At
      <3>2. \/ plic' = plic
            \/ plic' = [base |-> AddressOf(FindNode(PlicPath)), enabled |-> Enabled(DeviceIrqs),
                        priority |-> DeviceIrqs, threshold |-> 0]
        BY <2>10 DEF SetUpInterrupts
      <3>3. DeviceIrqs' = DeviceIrqs
        BY <3>1 DEF DeviceIrqs
      <3>4. Lines'
        <4>1. plic.base = NoBase
          BY <3>1 DEF Reach, Lines
        <4>2. Enabled(DeviceIrqs)' = Enabled(DeviceIrqs)
          BY <3>3 DEF Enabled
        <4> QED BY <3>1, <3>2, <3>3, <4>1, <4>2 DEF Lines
      <3>5. Delegated' /\ Logged'
        BY <3>1 DEF Reach, Delegated, Logged
      <3> QED BY <3>1, <3>4, <3>5, ReachAfter DEF AfterLoad
    <2>11. CASE LookUpConsole
      <3>1. /\ UNCHANGED <<devices, plic, tty, uart, handled>>
            /\ stage = "log" /\ stage' \in {"timer", "fault"}
        BY <2>11 DEF LookUpConsole, At
      <3>2. Lines' /\ Delegated'
        BY <3>1 DEF Reach, Lines, Delegated, DeviceIrqs
      <3>3. Logged'
        <4> DEFINE C == DevicesOf("Console")
        <4>1. C \subseteq Nat
          BY <1>0, HomeOf DEF DevicesOf
        <4>2. C # {} => Min(C) \in C
          BY <4>1, MinOf
        <4>3. log' = IF C = {} THEN log ELSE [output |-> "Console", console |-> Min(C)]
          BY <2>11 DEF LookUpConsole
        <4>4. \A k \in C : k = tty
          BY DEF Reach, OneConsole, DevicesOf
        <4>5. tty # 0 => tty \in C
          BY DEF Reach, OneConsole, DevicesOf
        <4>6. log \in [output : {"SBI", "Console", "LogFile"}, console : Nat]
          BY DEF Reach, Logged
        <4> HIDE DEF C
        <4>7. CASE C = {}
          BY <3>1, <4>3, <4>5, <4>6, <4>7 DEF Logged
        <4>8. CASE C # {}
          <5>1. Min(C) = tty /\ Min(C) \in Nat
            BY <4>1, <4>2, <4>4, <4>8
          <5>2. log' = [output |-> "Console", console |-> tty] /\ tty \in Nat
            BY <4>3, <4>8, <5>1
          <5> QED BY <3>1, <5>2 DEF Logged
        <4> QED BY <4>7, <4>8
      <3> QED BY <3>1, <3>2, <3>3, ReachAfter DEF AfterLoad
    <2>12. CASE InitTimer
      <3>1. /\ UNCHANGED <<devices, plic, log, tty, uart, handled>>
            /\ stage = "timer" /\ stage' \in {"start", "fault"}
        BY <2>12 DEF InitTimer, At
      <3>2. Lines' /\ Delegated' /\ Logged'
        BY <3>1 DEF Reach, Lines, Delegated, Logged, DeviceIrqs
      <3> QED BY <3>1, <3>2, ReachAfter DEF AfterLoad
    <2>13. CASE StartScheduling
      <3>1. /\ UNCHANGED <<devices, plic, tty, uart, handled>>
            /\ stage = "start" /\ stage' \in {"user", "fault"}
            /\ log' = [log EXCEPT !.output = "LogFile"]
        BY <2>13 DEF StartScheduling, At
      <3>2. Lines' /\ Delegated'
        BY <3>1 DEF Reach, Lines, Delegated, DeviceIrqs
      <3>3. Logged'
        BY <3>1 DEF Reach, Logged
      <3> QED BY <3>1, <3>2, <3>3, ReachAfter DEF AfterLoad
    <2>14. CASE \E source \in DeviceIrqs : DeviceInterrupt(source)
      <3>1. PICK source \in DeviceIrqs : DeviceInterrupt(source)
        BY <2>14
      <3>2. /\ UNCHANGED <<devices, plic, log, tty, uart>>
            /\ stage = "user" /\ stage' = "user"
            /\ handled' = [irq |-> source, device |-> Delegate(source)]
        BY <3>1 DEF DeviceInterrupt
      <3>3. Lines' /\ Logged'
        BY <3>2 DEF Reach, Lines, Logged, DeviceIrqs
      <3>4. Delegate(source) \in DOMAIN devices /\ source \in ToSet(devices[Delegate(source)].irqs)
        BY <1>0, DelegateOf
      <3>5. Delegated'
        BY <3>2, <3>4 DEF Delegated
      <3> QED BY <3>2, <3>3, <3>5, ReachAfter DEF AfterLoad
    <2> QED BY <2>2, <2>3, <2>4, <2>5, <2>6, <2>7, <2>8, <2>9, <2>10, <2>11, <2>12, <2>13, <2>14
      DEF BootTail
  <1> QED BY <1>2, <1>3, <1>4, StepKinds

LEMMA ReachEnough ==
  ASSUME BootTypes, Reach
  PROVE  InterruptsReachDevice
  <1> SUFFICES ASSUME stage = "user", plic.base # NoBase
               PROVE  InterruptsReachDevice
    BY DEF InterruptsReachDevice
  <1>1. \A source \in DeviceIrqs : Claimable(source)
    <2>1. plic.enabled = Enabled(DeviceIrqs) /\ plic.priority = DeviceIrqs /\ plic.threshold = 0
      BY DEF Reach, Lines
    <2> QED BY <2>1 DEF Claimable, Enabled
  <1>2. ASSUME handled.irq # 0
        PROVE  /\ handled.device # 0
               /\ \E n \in Declared(handled.irq) : devices[handled.device].address = AddressOf(n)
    <2>1. handled.device \in DOMAIN devices /\ handled.irq \in ToSet(devices[handled.device].irqs)
      BY <1>2 DEF Reach, Delegated
    <2>2. devices \in Seq(DeviceRecords)
      BY DEF BootTypes
    <2>3. handled.device # 0
      BY <2>1, <2>2, HomeOf
    <2>4. PICK n \in DOMAIN nodes : /\ devices[handled.device].irqs = PropertyOf(n, "interrupts")
                                    /\ devices[handled.device].address = AddressOf(n)
      BY <2>1 DEF Reach, Homes
    <2>5. n \in Declared(handled.irq)
      BY <2>1, <2>4 DEF Declared
    <2> QED BY <2>3, <2>4, <2>5
  <1>3. ASSUME tty # 0
        PROVE  /\ log.console = tty
               /\ devices[tty].under = "ns16550a" =>
                    /\ devices[tty].driver = "NS16550A"
                    /\ uart = [dlab |-> FALSE, divisor |-> 3, ier |-> 1, fifo |-> TRUE]
    BY <1>3 DEF Reach, Logged, ConsoleSetUp, AfterLoad, UartReady
  <1> QED BY <1>1, <1>2, <1>3 DEF InterruptsReachDevice

(* enable_device_interrupts, delegate_device_interrupt, MMIODriver::init   *)
(* and try_console_lookup together: once user mode runs, whatever the tree *)
(* lists, every interrupt that a probed node declares can be claimed and   *)
(* goes to the device at such a node's address, and the device tree, the   *)
(* log and the UART's driver mean the same console.                        *)
THEOREM InterruptsRight == BootSpec => []InterruptsReachDevice
  <1>1. BootInit => Reach
    BY ReachInit
  <1>2. BootTypes /\ Reach /\ [BootNext]_bootVars => Reach'
    BY ReachStep
  <1>3. BootTypes /\ Reach => InterruptsReachDevice
    BY ReachEnough
  <1> QED BY <1>1, <1>2, <1>3, BootTypeCorrect, PTL DEF BootSpec
=============================================================================
