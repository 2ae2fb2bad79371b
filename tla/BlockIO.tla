------------------------------- MODULE BlockIO -------------------------------
(***************************************************************************)
(* The block storage path: BlockDevice, its BlockIODriver and the VirtIO   *)
(* split queue they share with the device.                                 *)
(*                                                                         *)
(* Kernel code runs with interrupts off, so the kernel is one sequential   *)
(* process (op says where it is).  The device runs beside it: it may write *)
(* a status or publish a used element between any two steps, also while a  *)
(* poll method busy-waits and while notify() walks the used ring.          *)
(***************************************************************************)
EXTENDS Integers, Sequences

CONSTANTS
    RingSize,      \* VIRTIO_RING_SIZE (128)
    IndexMod,      \* modulus of the u16 ring indices (65536)
    Ptrs,          \* addresses a BlockIO::Request may be allocated at
    MaxRequests,   \* bound on the block operations ever started
    MaxIds,        \* bound on the ids BlockDevice hands out
    Window,        \* how far the callers run ahead of the oldest open operation
    PollMayFail,   \* may the device answer a polled request with an error?
    NoPtr          \* no address

ASSUME BlockAssumption ==
    /\ RingSize \in Nat \ {0}
    /\ IndexMod \in Nat \ {0} /\ IndexMod % RingSize = 0
    /\ MaxRequests \in Nat /\ MaxIds \in Nat /\ Window \in Nat
    /\ PollMayFail \in BOOLEAN
    /\ NoPtr \notin Ptrs

Slots == 0..(RingSize - 1)

VARIABLES
    op,          \* what the kernel is doing: "idle", "poll", "notify", "callbacks"
    poller,      \* the request a poll method waits on
    alive,       \* requests allocated and not deleted
    request,     \* contents of request memory: request_id, status, serial (history)
    desc,        \* queue->descriptors: what each address points to
    queueIndex,  \* m_queue_indexes[0]
    ack,         \* m_queue_acks[0]
    availIndex,  \* queue->available.index
    availRing,   \* queue->available.ring
    usedIndex,   \* queue->used.index
    usedRing,    \* queue->used.ring, the id of each element
    inflight,    \* device: chains taken and not yet published
    irq,         \* device interrupt pending at the PLIC
    ignored,     \* BlockIODriver::m_ignored_requests
    results,     \* results collected by notify(), not yet given to callbacks
    nextId,      \* BlockDevice::m_next_request_id; m_requests holds all ids below it
    asked,       \* history: each block operation, its id or Poll
    taken,       \* history: number of operations the device has taken
    published,   \* history: serials in the order the device published them
    verdict,     \* history: what the device answered to each operation
    handed,      \* history: elements handed out by get_next_used_descriptor
    polls,       \* history: what each poll method reported
    called       \* history: the callbacks made

queue   == <<desc, queueIndex, availIndex, availRing>>
device  == <<usedIndex, usedRing, inflight, irq, taken, published, verdict>>
reports == <<polls, called>>
vars    == <<op, poller, alive, request, queue, ack, device, ignored, results,
             nextId, asked, handed, reports>>

Poll == -1
Address(kind, p) == [kind |-> kind, ptr |-> p]
Null == Address("null", NoPtr)

Init ==
    /\ op = "idle"
    /\ poller = NoPtr
    /\ alive = {}
    /\ request = [p \in Ptrs |-> [id |-> 0, status |-> "pending", serial |-> 0]]
    /\ desc = [i \in Slots |-> Null]
    /\ queueIndex = 0
    /\ ack = 0
    /\ availIndex = 0
    /\ availRing = [i \in Slots |-> 0]
    /\ usedIndex = 0
    /\ usedRing = [i \in Slots |-> 0]
    /\ inflight = {}
    /\ irq = FALSE
    /\ ignored = <<>>
    /\ results = <<>>
    /\ nextId = 0
    /\ asked = <<>>
    /\ taken = 0
    /\ published = <<>>
    /\ verdict = [n \in 1..MaxRequests |-> "none"]
    /\ handed = 0
    /\ polls = <<>>
    /\ called = <<>>

-----------------------------------------------------------------------------
(* VirtIODevice: the driver's end of the queue.                            *)

Slot(i) == (queueIndex + i) % RingSize

(* add_to_queue for the header, the data and the status descriptor of      *)
(* request p.  Nothing is checked: the slots are taken round and round.    *)
AddToQueue(p) ==
    /\ desc' = [desc EXCEPT ![Slot(0)] = Address("header", p),
                            ![Slot(1)] = Address("data", p),
                            ![Slot(2)] = Address("status", p)]
    /\ queueIndex' = Slot(3)

(* Mutated form: the available index is not advanced. *)
AddToAvailableSilent(head) ==
    /\ availRing' = [availRing EXCEPT ![availIndex % RingSize] = head]
    /\ UNCHANGED availIndex

(* add_to_available and the write to the queue's notify register. *)
AddToAvailable(head) ==
    /\ availRing' = [availRing EXCEPT ![availIndex % RingSize] = head]
    /\ availIndex' = (availIndex + 1) % IndexMod

(* get_next_used_descriptor: is an element there, which slot heads it, and *)
(* the acknowledgement, which is kept below the ring size.                 *)
UsedAvailable == ack # usedIndex
UsedSlot == usedRing[ack % RingSize]

Acknowledge ==
    /\ ack' = (ack + 1) % RingSize
    /\ handed' = handed + 1

-----------------------------------------------------------------------------
(* BlockDevice and BlockIODriver.                                          *)

(* Operations notify() has not acknowledged yet. *)
Open == {n \in DOMAIN asked : \A i \in 1..handed : published[i] # n}

(* block_operation: allocate the request and give it to the device.  The   *)
(* window and the bound on requests are the callers'; the driver has none. *)
BlockOperation(p, id, who) ==
    /\ Len(asked) < MaxRequests
    /\ \A n \in Open : Len(asked) + 1 - n < Window
    /\ p \notin alive
    /\ alive' = alive \cup {p}
    /\ request' = [request EXCEPT ![p] =
                     [id |-> id, status |-> "pending", serial |-> Len(asked) + 1]]
    /\ AddToQueue(p)
    /\ AddToAvailable(Slot(0))
    /\ asked' = Append(asked, who)
    /\ UNCHANGED <<ack, device, ignored, results, handed, reports>>

(* read_async and write_async: the id is taken and the request recorded    *)
(* before the driver is asked.                                             *)
StartAsync(p) ==
    /\ op = "idle"
    /\ nextId < MaxIds
    /\ BlockOperation(p, nextId, nextId)
    /\ nextId' = nextId + 1
    /\ UNCHANGED <<op, poller>>

(* The same with a size that is no multiple of 512: an error, and an id    *)
(* that stays in m_requests although nothing was asked of the device.      *)
RejectAsync ==
    /\ op = "idle"
    /\ nextId < MaxIds
    /\ nextId' = nextId + 1
    /\ UNCHANGED <<op, poller, alive, request, queue, ack, device, ignored,
                   results, asked, handed, reports>>

(* read_poll and write_poll up to the busy wait; they pass 0 for the id. *)
StartPoll(p) ==
    /\ op = "idle"
    /\ BlockOperation(p, 0, Poll)
    /\ op' = "poll"
    /\ poller' = p
    /\ UNCHANGED nextId

(* The busy wait of a poll method ends on a status other than the sentinel. *)
PollReturn(answer) ==
    /\ op = "poll"
    /\ request[poller].status = answer
    /\ polls' = Append(polls, [serial |-> request[poller].serial, result |-> answer])
    /\ op' = "idle"
    /\ poller' = NoPtr
    /\ UNCHANGED <<request, queue, ack, device, results, nextId, asked, handed, called>>

(* Mutated form: a poll deletes its request on success too. *)
PollOkDelete ==
    /\ PollReturn("ok")
    /\ alive' = alive \ {poller}
    /\ UNCHANGED ignored

(* Success: the request is kept for notify() to recognise. *)
PollOk ==
    /\ PollReturn("ok")
    /\ ignored' = Append(ignored, poller)
    /\ UNCHANGED alive

(* Failure: the request is deleted at once. *)
PollFailed ==
    /\ PollReturn("failed")
    /\ alive' = alive \ {poller}
    /\ UNCHANGED ignored

(* BlockDevice::handle_interrupt, called with the interrupt claimed. *)
Interrupt ==
    /\ op = "idle"
    /\ irq
    /\ irq' = FALSE
    /\ op' = "notify"
    /\ UNCHANGED <<poller, alive, request, queue, ack, usedIndex, usedRing,
                   inflight, taken, published, verdict, ignored, results,
                   nextId, asked, handed, reports>>

(* One turn of notify()'s loop, on a used element whose head descriptor    *)
(* holds the address of request p (any other address is a wild pointer to  *)
(* the loop, and the model stops there).                                   *)
NextUsed(p) ==
    /\ op = "notify"
    /\ UsedAvailable
    /\ desc[UsedSlot] = Address("header", p)
    /\ Acknowledge
    /\ alive' = alive \ {p}
    /\ desc' = [desc EXCEPT ![UsedSlot] = Null]
    /\ UNCHANGED <<op, poller, request, queueIndex, availIndex, availRing,
                   device, nextId, asked, reports>>

(* Positions of p in m_ignored_requests, and the list without its k-th. *)
IgnoredAt(p) == {i \in DOMAIN ignored : ignored[i] = p}
Without(s, k) == SubSeq(s, 1, k - 1) \o SubSeq(s, k + 1, Len(s))

(* Mutated form: the address stays in m_ignored_requests. *)
NotifyIgnoredKeep(p) ==
    /\ NextUsed(p)
    /\ IgnoredAt(p) # {}
    /\ UNCHANGED <<ignored, results>>

(* A request issued by a poll method is dropped. *)
NotifyIgnored(p) ==
    /\ NextUsed(p)
    /\ \E k \in IgnoredAt(p) : /\ \A i \in IgnoredAt(p) : k <= i
                               /\ ignored' = Without(ignored, k)
    /\ UNCHANGED results

(* Mutated form: the status is not looked at. *)
NotifyResultBlind(p) ==
    /\ NextUsed(p)
    /\ IgnoredAt(p) = {}
    /\ results' = Append(results, [id |-> request[p].id, result |-> "ok",
                                   serial |-> request[p].serial])
    /\ UNCHANGED ignored

(* Any other request yields a result; a status other than 0 is a failure. *)
NotifyResult(p) ==
    /\ NextUsed(p)
    /\ IgnoredAt(p) = {}
    /\ results' = Append(results,
         [id |-> request[p].id,
          result |-> IF request[p].status = "ok" THEN "ok" ELSE "failed",
          serial |-> request[p].serial])
    /\ UNCHANGED ignored

NotifyDone ==
    /\ op = "notify"
    /\ ~UsedAvailable
    /\ op' = "callbacks"
    /\ UNCHANGED <<poller, alive, request, queue, ack, device, ignored, results,
                   nextId, asked, handed, reports>>

(* One turn of handle_interrupt's loop over the results: the callback of   *)
(* the first request with the id, or the message that there is none.       *)
Callback ==
    /\ op = "callbacks"
    /\ results # <<>>
    /\ results' = Tail(results)
    /\ \/ /\ Head(results).id < nextId
          /\ called' = Append(called, [id |-> Head(results).id,
                                       result |-> Head(results).result])
       \/ /\ Head(results).id >= nextId
          /\ UNCHANGED called
    /\ UNCHANGED <<op, poller, alive, request, queue, ack, device, ignored,
                   nextId, asked, handed, polls>>

InterruptDone ==
    /\ op = "callbacks"
    /\ results = <<>>
    /\ op' = "idle"
    /\ UNCHANGED <<poller, alive, request, queue, ack, device, ignored, results,
                   nextId, asked, handed, reports>>

-----------------------------------------------------------------------------
(* The VirtIO device (external).                                           *)

(* It takes the next available chain and reads its descriptors. *)
DeviceTake ==
    /\ taken % IndexMod # availIndex
    /\ LET head == availRing[taken % RingSize]
       IN  inflight' = inflight \cup
             {[serial |-> taken + 1, head |-> head, answered |-> FALSE,
               status |-> desc[(head + 2) % RingSize]]}
    /\ taken' = taken + 1
    /\ UNCHANGED <<op, poller, alive, request, queue, ack, usedIndex, usedRing, irq,
                   published, verdict, ignored, results, nextId, asked, handed, reports>>

(* It writes the answer to the address in the third descriptor. *)
DeviceAnswer(c, answer) ==
    /\ ~c.answered
    /\ answer = "failed" /\ asked[c.serial] = Poll => PollMayFail
    /\ inflight' = (inflight \ {c}) \cup {[c EXCEPT !.answered = TRUE]}
    /\ verdict' = [verdict EXCEPT ![c.serial] = answer]
    /\ request' = IF c.status.kind = "status"
                  THEN [request EXCEPT ![c.status.ptr].status = answer]
                  ELSE request
    /\ UNCHANGED <<op, poller, alive, queue, ack, usedIndex, usedRing, irq, taken,
                   published, ignored, results, nextId, asked, handed, reports>>

(* It publishes the chain in the used ring and raises its interrupt. *)
DevicePublish(c) ==
    /\ c.answered
    /\ inflight' = inflight \ {c}
    /\ usedRing' = [usedRing EXCEPT ![usedIndex % RingSize] = c.head]
    /\ usedIndex' = (usedIndex + 1) % IndexMod
    /\ irq' = TRUE
    /\ published' = Append(published, c.serial)
    /\ UNCHANGED <<op, poller, alive, request, queue, ack, taken, verdict,
                   ignored, results, nextId, asked, handed, reports>>

DeviceStep ==
    \/ DeviceTake
    \/ \E c \in inflight : DevicePublish(c) \/ \E a \in {"ok", "failed"} : DeviceAnswer(c, a)

-----------------------------------------------------------------------------
(* The kernel's part of an operation already begun. *)
KernelStep ==
    \/ PollOk \/ PollFailed
    \/ Interrupt
    \/ \E p \in Ptrs : NotifyIgnored(p) \/ NotifyResult(p)
    \/ NotifyDone \/ Callback \/ InterruptDone

Next ==
    \/ \E p \in Ptrs : StartAsync(p) \/ StartPoll(p)
    \/ RejectAsync
    \/ KernelStep
    \/ DeviceStep

Spec == Init /\ [][Next]_vars

(* The device serves what it is given, and the hart goes on. *)
FairSpec == Spec /\ WF_vars(KernelStep) /\ WF_vars(DeviceStep)

-----------------------------------------------------------------------------
(* Properties. *)

(* Type correctness of driver, queue and device state. *)
TypeOK ==
    /\ op \in {"idle", "poll", "notify", "callbacks"}
    /\ poller \in Ptrs \cup {NoPtr}
    /\ alive \subseteq Ptrs
    /\ \A p \in Ptrs : request[p].status \in {"pending", "ok", "failed"}
    /\ desc \in [Slots -> [kind : {"header", "data", "status", "null"},
                           ptr : Ptrs \cup {NoPtr}]]
    /\ queueIndex \in Slots /\ ack \in Slots
    /\ availIndex \in 0..(IndexMod - 1) /\ usedIndex \in 0..(IndexMod - 1)
    /\ availRing \in [Slots -> Slots] /\ usedRing \in [Slots -> Slots]
    /\ irq \in BOOLEAN
    /\ nextId \in 0..MaxIds
    /\ \A i \in DOMAIN ignored : ignored[i] \in Ptrs

(* No poll method has returned an error so far.  After one that has, the   *)
(* memory of its request is given back while the device's completion of it *)
(* is still to come, and what follows depends on who reuses that memory.   *)
NoPollFailed == \A i \in DOMAIN polls : polls[i].result = "ok"

(* The request notify() is about to read and delete is the one the device  *)
(* completed next, and nobody has deleted it before: no use after free and *)
(* no double free, in whatever order the device completes, until a polled  *)
(* request fails.                                                          *)
CompletesLiveRequest ==
    NoPollFailed /\ op = "notify" /\ UsedAvailable =>
        \E p \in alive : /\ desc[UsedSlot] = Address("header", p)
                         /\ handed < Len(published)
                         /\ request[p].serial = published[handed + 1]

(* The device never writes a status into memory that was given back or     *)
(* belongs to another request: reusing descriptor slots round and round    *)
(* does not redirect it.                                                   *)
DeviceWritesOwnRequest ==
    NoPollFailed => \A c \in inflight :
        \E p \in Ptrs : /\ c.status = Address("status", p)
                        /\ ~c.answered => p \in alive
                        /\ ~c.answered => request[p].serial = c.serial

(* The memory both sides use for a request is that request's until both    *)
(* are done with it.                                                       *)
RequestMemoryOwned == CompletesLiveRequest /\ DeviceWritesOwnRequest

(* A callback is made at most once for an id, only for an id the device    *)
(* was asked about, and with the device's own answer: the id 0 that every  *)
(* poll passes is never taken for the first asynchronous request.          *)
CallbackOnceAndRight ==
    NoPollFailed =>
    /\ \A i, j \in DOMAIN called : called[i].id = called[j].id => i = j
    /\ \A i \in DOMAIN called :
         \E n \in DOMAIN asked : /\ asked[n] = called[i].id
                                 /\ verdict[n] = called[i].result

(* Once every request is acknowledged, no request object is left behind    *)
(* and m_ignored_requests is empty again.                                  *)
NothingLeaks ==
    NoPollFailed /\ op # "poll" /\ handed = Len(asked) => alive = {} /\ ignored = <<>>

(* A poll method reports the device's answer to its own request, also when *)
(* the memory of its request was used by earlier ones, up to and including *)
(* the first that fails.                                                   *)
PollReportsAnswer ==
    \A i \in DOMAIN polls :
        (\A k \in 1..(i - 1) : polls[k].result = "ok")
        => polls[i].result = verdict[polls[i].serial]

(* Both ways to learn an outcome give the device's own answer, once. *)
AnswersReported == CallbackOnceAndRight /\ PollReportsAnswer

(* get_next_used_descriptor hands out no more elements than the device has *)
(* published: with none left it reports that none is available.            *)
UsedElementsOnce == UsedAvailable => handed < Len(published)

(* Nobody waits in vain: a poll method returns, the kernel comes back from  *)
(* every interrupt, and every asynchronous request the device was asked     *)
(* about gets its callback, unless a poll method reports an error.          *)
EveryRequestEnds ==
    /\ []<>(op = "idle")
    /\ \A id \in 0..(MaxIds - 1) :
         (\E n \in DOMAIN asked : asked[n] = id) ~>
         (~NoPollFailed \/ \E i \in DOMAIN called : called[i].id = id)

=============================================================================
