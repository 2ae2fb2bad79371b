--------------------------- MODULE DeviceBringUp ---------------------------
(***************************************************************************)
(* The boot of MatteOS (kmain) from the device tree to user mode: probing  *)
(* the VirtIO slots and initialising their devices, the console, loading   *)
(* the device drivers, the root file system, the interrupt controller and  *)
(* the log output, and then the delivery of device interrupts.             *)
(*                                                                         *)
(* kmain is sequential and interrupts are off; what it does depends on the *)
(* tree and on the devices, which answer the VirtIO handshake as they      *)
(* like.  A singleton is used with X::the(), whose assertion goes on after *)
(* it fails, so a use before its init() is a fault.                        *)
(***************************************************************************)
EXTENDS FdtParser

CONSTANTS
    Boards,      \* device trees, and what answers at the addresses of the VirtIO slots
    QueueSize    \* VIRTIO_RING_SIZE

(* A machine out of reset: the registers of a slot, no device initialised. *)
StatusBits == {"Acknowledge", "Driver", "FeaturesOK", "DriverOK"}
Registers ==
    [magic : BOOLEAN, id : Nat, queue_num_max : Nat, status : SUBSET StatusBits,
     queue_num : Nat, queue_pfn : Nat]
ASSUME BoardsAssumption ==
    /\ QueueSize \in Nat
    /\ \A board \in Boards :
         /\ board.slots \in [DOMAIN board.slots -> Registers]
         /\ \A a \in DOMAIN board.slots : board.slots[a].status = {}

VARIABLES
    machine,   \* the registers of the slots, by address
    devices,   \* m_devices of the DeviceManager
    probe,     \* the slots (nodes of the tree) still to be probed
    stage,     \* where kmain is
    made,      \* the singletons that are initialised
    plic,      \* the base that Plic found, enables, priorities, threshold
    log,       \* the Logger's output and console
    rootfs,    \* whether a file system is mounted on /
    tty,       \* the device behind /dev/tty0, 0 when there is none
    uart,      \* the UART's registers that decide on interrupts
    handled    \* the last interrupt and the device it was delegated to

boot == <<machine, devices, probe, stage, made, plic, log, rootfs, tty, uart, handled>>
bootVars == <<parser, boot>>

MemoryPath == <<"memory">>
NoBase == -1                   \* m_base is not set by the constructor
SerialPath == <<"soc", "serial">>
PlicPath == <<"soc", "plic">>
VirtIOPath == <<"soc", "virtio_mmio">>
CpusPath == <<"cpus">>

(* to_uint(16) of the digits behind the "@"; none are zero. *)
ToUint(digits) == FoldSeq(LAMBDA d, n : n * 16 + d, 0, Reverse(digits))
AddressOf(n) == IF Len(nodes[n].name) < 2 THEN 0 ELSE ToUint(nodes[n].name[2])

BootInit ==
    /\ \E board \in Boards : ParserInit(board.tree) /\ machine = board.slots
    /\ devices = <<>>
    /\ probe = {}
    /\ stage = "tree"
    /\ made = {"MemoryManager", "KernelMemoryAllocator", "Logger", "System",
               "VirtualFileSystem"}
    /\ plic = [base |-> NoBase, enabled |-> {}, priority |-> {}, threshold |-> 7]
    /\ log = [output |-> "SBI", console |-> 0]
    /\ rootfs = "none"
    /\ tty = 0
    /\ uart = [dlab |-> FALSE, divisor |-> 1, ier |-> 0, fifo |-> FALSE]
    /\ handled = [irq |-> 0, device |-> 0]

(* kmain goes from one call to the next, or faults at a singleton that is  *)
(* not there.                                                              *)
At(s, uses, makes, next) ==
    /\ stage = s
    /\ IF uses \subseteq made THEN stage' = next ELSE stage' = "fault"
    /\ made' = made \cup makes

-----------------------------------------------------------------------------
(* DeviceTree::init has run when the parser returns; DeviceManager::init   *)
(* mounts /dev, and VirtIODriver::init lists the slots.                    *)
TreeParsed ==
    /\ root # "parsing"
    /\ At("tree", {"VirtualFileSystem"}, {"DeviceTree", "DeviceManager", "DriverManager"}, "probe")
    /\ probe' = FindNodes(VirtIOPath)
    /\ UNCHANGED <<parser, machine, devices, plic, log, rootfs, tty, uart, handled>>

(* A lookup that comes to a node without a name copies a string from       *)
(* memory nobody initialised: it does not match, or the copy faults.       *)
ReadsNameless ==
    \/ MeetsNameless(MemoryPath) \/ MeetsNameless(Front(VirtIOPath))
    \/ FindNode(Front(VirtIOPath)) # 0 /\ Nameless(FindNode(Front(VirtIOPath)))
    \/ MeetsNameless(SerialPath)
NamelessFault ==
    /\ stage = "tree" /\ root # "parsing"
    /\ ReadsNameless
    /\ stage' = "fault"
    /\ UNCHANGED <<parser, machine, devices, probe, made, plic, log, rootfs, tty, uart, handled>>

(* A device in m_devices.  error: whether its init returned one. *)
Device(type, under, irqs, address, needs_driver, error) ==
    [type |-> type, under |-> under, irqs |-> irqs, address |-> address,
     needs_driver |-> needs_driver, driver |-> "none", error |-> error, queue |-> 0]

TypeOfId(id) == CASE id = 2 -> "Block" [] id = 4 -> "Entropy" [] OTHER -> "None"

(* try_to_load_mmio_device: the device that is added for node n. *)
LoadedDevice(n) ==
    LET type == TypeOfId(machine[AddressOf(n)].id)
    IN  Device(type, "virtio", PropertyOf(n, "interrupts"), AddressOf(n),
               type = "Block", type = "None")

(* The loop of VirtIODriver::init, for the next slot: what does not answer *)
(* with the magic value is no device, and an unknown one fails its init.   *)
ProbeSlot ==
    /\ stage = "probe" /\ probe # {}
    /\ LET device == LoadedDevice(Min(probe))
       IN  IF ~machine[device.address].magic THEN UNCHANGED <<devices, stage>>
           ELSE /\ devices' = Append(devices, device)
                /\ stage' = IF device.error THEN stage ELSE "reset"
    /\ probe' = probe \ {Min(probe)}
    /\ UNCHANGED <<parser, machine, made, plic, log, rootfs, tty, uart, handled>>

-----------------------------------------------------------------------------
(* VirtIODevice::init of the device probed last, register by register.     *)

Initialising == Last(devices).address
SetStatus(value) == machine' = [machine EXCEPT ![Initialising].status = value]
Status == machine[Initialising].status
InitFails ==
    /\ devices' = [devices EXCEPT ![Len(devices)].error = TRUE]
    /\ stage' = "probe"
InitStep(from) ==
    /\ stage = from
    /\ UNCHANGED <<parser, probe, made, plic, log, rootfs, tty, uart, handled>>

(* Steps 1 to 3: reset, and the two bits on what is read back. *)
ResetAndDriver ==
    /\ InitStep("reset")
    /\ SetStatus({"Acknowledge", "Driver"})
    /\ stage' = "features"
    /\ UNCHANGED devices

(* Steps 4 and 5: the drivers ask for no features, and every device has    *)
(* these; the device may take FEATURES_OK back.                            *)
FeaturesOk ==
    /\ InitStep("features")
    /\ \E kept \in BOOLEAN :
         SetStatus(IF kept THEN Status \cup {"FeaturesOK"} ELSE Status)
    /\ stage' = "reread"
    /\ UNCHANGED devices

(* Mutated form: the status is not read again. *)
ReReadStatusNot ==
    /\ InitStep("reread")
    /\ stage' = "queue"
    /\ UNCHANGED <<devices, machine>>

(* Step 6: the status as the device left it. *)
ReReadStatus ==
    /\ InitStep("reread")
    /\ IF "FeaturesOK" \in Status THEN stage' = "queue" /\ UNCHANGED devices ELSE InitFails
    /\ UNCHANGED machine

(* Step 7: the queue size is written before it is compared; the queue is   *)
(* in zeroed pages of its own, and the device gets its page number.        *)
SetUpQueue ==
    /\ InitStep("queue")
    /\ IF QueueSize > machine[Initialising].queue_num_max
       THEN /\ InitFails
            /\ machine' = [machine EXCEPT ![Initialising].queue_num = QueueSize]
       ELSE /\ machine' = [machine EXCEPT ![Initialising].queue_num = QueueSize,
                                          ![Initialising].queue_pfn = Len(devices)]
            /\ devices' = [devices EXCEPT ![Len(devices)].queue = Len(devices)]
            /\ stage' = "live"

(* Step 8: DRIVER_OK on the status that was read. *)
DriverOk ==
    /\ InitStep("live")
    /\ SetStatus(Status \cup {"DriverOK"})
    /\ stage' = "probe"
    /\ UNCHANGED devices

-----------------------------------------------------------------------------
(* The first of the strings in "compatible". *)
TypeString(n) ==
    IF PropertyOf(n, "compatible") = <<>> THEN "unknown" ELSE Head(PropertyOf(n, "compatible"))

(* MMIODriver::init: the console of /soc/serial, with /dev/tty0.  Its init *)
(* always returns an error, which nobody looks at.                         *)
AddConsole ==
    /\ probe = {}
    /\ At("probe", {"DeviceTree", "DeviceManager"}, {}, "load")
    /\ LET n == FindNode(SerialPath)
       IN  IF n = 0 THEN UNCHANGED <<devices, tty>>
           ELSE /\ devices' = Append(devices,
                     Device("Console", TypeString(n), PropertyOf(n, "interrupts"),
                            AddressOf(n), TRUE, TRUE))
                /\ tty' = Len(devices) + 1
    /\ UNCHANGED <<parser, machine, probe, plic, log, rootfs, uart, handled>>

(* is_compatible_with of the two descriptors, in the order in which         *)
(* register_default_drivers enters them.                                   *)
FitsVirtIO(d) == d.under = "virtio" /\ d.type = "Block"
FitsNS16550A(d) == d.type = "Console" /\ d.under = "ns16550a"
CompatibleDriver(d) ==
    CASE FitsVirtIO(d)   -> "VirtIO"
      [] FitsNS16550A(d) -> "NS16550A"
      [] OTHER           -> "none"

(* A write to a register of the UART: with DLAB set in the line control    *)
(* register, the data and the interrupt enable register are the divisor.   *)
UartWrite(u, register, value) ==
    [dlab    |-> IF register = 3 THEN value >= 128 ELSE u.dlab,
     divisor |-> IF u.dlab /\ register = 0 THEN (u.divisor \div 256) * 256 + value
                 ELSE IF u.dlab /\ register = 1 THEN (u.divisor % 256) + 256 * value
                 ELSE u.divisor,
     ier     |-> IF ~u.dlab /\ register = 1 THEN value ELSE u.ier,
     fifo    |-> IF register = 2 THEN value % 2 = 1 ELSE u.fifo]

(* NS16550ADriver::init, its writes in order: interrupts off and the        *)
(* divisor, then the line, the FIFO, the interrupts and the modem.         *)
WithDivisor(u) == UartWrite(UartWrite(UartWrite(UartWrite(u, 1, 0), 3, 128), 0, 3), 1, 0)
UartInit(u) == UartWrite(UartWrite(UartWrite(UartWrite(WithDivisor(u), 3, 3), 2, 7), 1, 1), 4, 15)

(* load_drivers: every device that needs one, whether its init succeeded   *)
(* or not.                                                                 *)
LoadDrivers ==
    /\ At("load", {"DriverManager", "DeviceManager"}, {}, "rootfs")
    /\ devices' = [k \in DOMAIN devices |->
                     IF devices[k].needs_driver
                     THEN [devices[k] EXCEPT !.driver = CompatibleDriver(devices[k])]
                     ELSE devices[k]]
    /\ uart' = IF \E k \in DOMAIN devices : CompatibleDriver(devices[k]) = "NS16550A"
               THEN UartInit(uart) ELSE uart
    /\ UNCHANGED <<parser, machine, probe, plic, log, rootfs, tty, handled>>

DevicesOf(type) == {k \in DOMAIN devices : devices[k].type = type}

(* device_load_filesystem on the first block device polls it: a device     *)
(* whose init failed has no queue to put the request into.                 *)
MountRoot ==
    /\ \/ /\ DevicesOf("Block") = {}
          /\ At("rootfs", {"DeviceManager"}, {}, "interrupts")
          /\ UNCHANGED rootfs
       \/ /\ DevicesOf("Block") # {}
          /\ At("rootfs", {"DeviceManager", "VirtualFileSystem"}, {},
                IF devices[Min(DevicesOf("Block"))].queue = 0 THEN "fault" ELSE "interrupts")
          /\ rootfs' \in {"none", "mounted"}
    /\ UNCHANGED <<parser, machine, devices, probe, plic, log, tty, uart, handled>>

-----------------------------------------------------------------------------
(* The register word and the bit of an interrupt. *)
EnableBit(irq) == <<irq \div 32, irq % 32>>

(* Mutated form: the register is overwritten, and one bit of it is left. *)
EnabledOverwriting(irqs) ==
    {EnableBit(irq) : irq \in {i \in irqs : \A j \in irqs : j \div 32 = i \div 32 => j <= i}}

(* Plic::enable of each of them: a bit is added to its register. *)
Enabled(irqs) == {EnableBit(irq) : irq \in irqs}

(* ProcessManager::init and create_initial_processes, InterruptManager::   *)
(* init with the Plic, set_threshold(0) and enable_device_interrupts.      *)
(* Without /soc/plic the base is an old word of the heap: the writes fault *)
(* or go astray.                                                           *)
DeviceIrqs == UNION {ToSet(devices[k].irqs) : k \in DOMAIN devices}
SetUpInterrupts ==
    LET n == FindNode(PlicPath)
    IN  /\ \E next \in IF n = 0 THEN {"fault", "log"} ELSE {"log"} :
             At("interrupts", {"MemoryManager", "Logger", "DeviceTree", "DeviceManager"},
                {"ProcessManager", "InterruptManager", "Plic"}, next)
        /\ plic' = IF n = 0 THEN plic
                   ELSE [base |-> AddressOf(n),
                         enabled |-> Enabled(DeviceIrqs),
                         priority |-> DeviceIrqs,
                         threshold |-> 0]
        /\ UNCHANGED <<parser, machine, devices, probe, log, rootfs, tty, uart, handled>>

(* Mutated form: the timer is not initialised. *)
LookUpConsoleNoTimer ==
    /\ At("log", {"Logger", "DeviceManager"}, {}, "start")
    /\ log' = IF DevicesOf("Console") = {} THEN log
              ELSE [output |-> "Console", console |-> Min(DevicesOf("Console"))]
    /\ UNCHANGED <<parser, machine, devices, probe, plic, rootfs, tty, uart, handled>>

(* try_console_lookup and switch_to_device. *)
LookUpConsole ==
    /\ At("log", {"Logger", "DeviceManager"}, {}, "timer")
    /\ log' = IF DevicesOf("Console") = {} THEN log
              ELSE [output |-> "Console", console |-> Min(DevicesOf("Console"))]
    /\ UNCHANGED <<parser, machine, devices, probe, plic, rootfs, tty, uart, handled>>

(* Timer::init reads the frequency and asserts, with a message only, that  *)
(* it is there: without it a garbage pointer is followed.  Then Scheduler  *)
(* and SyscallManager.                                                     *)
Timebase == FindNode(CpusPath) # 0 /\ PropertyOf(FindNode(CpusPath), "timebase-frequency") # <<>>
InitTimer ==
    /\ \E next \in IF Timebase THEN {"start"} ELSE {"fault", "start"} :
         At("timer", {"DeviceTree"}, {"Timer", "Scheduler", "SyscallManager"}, next)
    /\ UNCHANGED <<parser, machine, devices, probe, plic, log, rootfs, tty, uart, handled>>

(* switch_to_logfile and start_scheduling.  What is logged from now on     *)
(* carries a time stamp.                                                   *)
StartScheduling ==
    /\ At("start", {"Logger", "Timer", "Scheduler", "ProcessManager", "System"}, {}, "user")
    /\ log' = [log EXCEPT !.output = "LogFile"]
    /\ UNCHANGED <<parser, machine, devices, probe, plic, rootfs, tty, uart, handled>>

-----------------------------------------------------------------------------
(* Interrupts.                                                             *)

(* What the Plic hands out: enabled, with a priority above the threshold. *)
Claimable(irq) ==
    EnableBit(irq) \in plic.enabled /\ irq \in plic.priority /\ plic.threshold < 1

HandlesInterrupt(d, irq) == irq \in ToSet(d.irqs)

(* delegate_device_interrupt: the first device that handles it. *)
Delegate(irq) ==
    LET Handlers == {k \in DOMAIN devices : HandlesInterrupt(devices[k], irq)}
    IN  IF Handlers = {} THEN 0 ELSE Min(Handlers)

(* The device at that node raises its interrupt. *)
DeviceInterrupt(irq) ==
    /\ stage = "user"
    /\ Claimable(irq)
    /\ handled' = [irq |-> irq, device |-> Delegate(irq)]
    /\ UNCHANGED <<parser, machine, devices, probe, stage, made, plic, log, rootfs, tty, uart>>

BootStep ==
    \/ ParseStep /\ UNCHANGED boot
    \/ TreeParsed \/ NamelessFault \/ ProbeSlot \/ ResetAndDriver \/ FeaturesOk \/ ReReadStatus
    \/ SetUpQueue \/ DriverOk \/ AddConsole \/ LoadDrivers \/ MountRoot
    \/ SetUpInterrupts \/ LookUpConsole \/ InitTimer \/ StartScheduling

BootNext == BootStep \/ \E irq \in DeviceIrqs : DeviceInterrupt(irq)

(* kmain runs on the only hart: it goes on while there is something to do. *)
BootSpec == BootInit /\ [][BootNext]_bootVars /\ WF_bootVars(BootStep)

-----------------------------------------------------------------------------
(* Properties. *)

Live(a) == "DriverOK" \in machine[a].status

(* The tree lists a slot once, and only slots that the board has. *)
SlotsListedOnce ==
    /\ \A n \in FindNodes(VirtIOPath) : AddressOf(n) \in DOMAIN machine
    /\ \A m, n \in FindNodes(VirtIOPath) : AddressOf(m) = AddressOf(n) => m = n

(* What a device was given before it may be told that its driver is ready. *)
ReadyFor(k) ==
    LET registers == machine[devices[k].address]
    IN  /\ ~devices[k].error
        /\ "FeaturesOK" \in registers.status
        /\ registers.queue_num <= registers.queue_num_max
        /\ registers.queue_pfn = devices[k].queue

(* A VirtIO device is told that its driver is ready only after it kept     *)
(* FEATURES_OK and got a queue of a size it can have, in pages no other    *)
(* device uses; a device whose init returned an error never is.            *)
HandshakeKept ==
    SlotsListedOnce =>
        \A k \in DOMAIN devices :
            (devices[k].type # "Console" /\ Live(devices[k].address)) =>
                /\ ReadyFor(k)
                /\ \A j \in DOMAIN devices : devices[j].queue = devices[k].queue => j = k

(* When user mode starts, every interrupt that a probed node of the tree   *)
(* declares can be claimed, and goes to the device at that node's address; *)
(* /dev/tty0, the log and the driver of the UART are the same console, and *)
(* the UART raises its interrupt at the rate the driver chose.             *)
Declared(irq) ==
    {n \in DOMAIN nodes : irq \in ToSet(PropertyOf(n, "interrupts"))}
InterruptsReachDevice ==
    (stage = "user" /\ plic.base # NoBase) =>
        /\ \A irq \in DeviceIrqs : Claimable(irq)
        /\ handled.irq # 0 =>
             /\ handled.device # 0
             /\ \E n \in Declared(handled.irq) : devices[handled.device].address = AddressOf(n)
        /\ tty # 0 => /\ log.console = tty
                      /\ devices[tty].under = "ns16550a" =>
                           /\ devices[tty].driver = "NS16550A"
                           /\ uart = [dlab |-> FALSE, divisor |-> 3, ier |-> 1, fifo |-> TRUE]

(* The tree has what kmain cannot do without. *)
TreeSuffices == FindNode(PlicPath) # 0 /\ Timebase /\ ~ReadsNameless
FirstBlockFailed ==
    DevicesOf("Block") # {} /\ devices[Min(DevicesOf("Block"))].error

(* The boot comes to user mode, whatever the devices answer, unless the    *)
(* tree below the limit lacks the interrupt controller or the time base,   *)
(* or a node's name was cut off, or the first block device refused.        *)
BootCompletes ==
    <>(\/ stage = "user"
       \/ stage = "fault" /\ (~TreeSuffices \/ FirstBlockFailed))

=============================================================================
