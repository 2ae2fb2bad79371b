-------------------------- MODULE MCDeviceBringUp --------------------------
(* DeviceBringUp for TLC. *)
EXTENDS DeviceBringUp

Begin(base, digits, len) ==
    [is |-> "begin", name |-> IF digits = <<>> THEN <<base>> ELSE <<base, digits>>, len |-> len]
Property(name, value, len, looks) ==
    [is |-> "prop", prop |-> [name |-> name, value |-> value], len |-> len, looks |-> looks]
Just(is) == [is |-> is]
Irq(n) == Property("interrupts", <<n>>, 4, "begin")

(* The parts of a tree; names and values of all lengths modulo 4, values   *)
(* that look like tokens or like padding.                                  *)
Cpus == <<Begin("cpus", <<>>, 4), Property("timebase-frequency", <<100>>, 4, "end"),
          Just("end_node")>>
Memory == <<Begin("memory", <<8>>, 15), Just("nop"), Just("end_node")>>
Virtio(digit, irq) ==
    <<Begin("virtio_mmio", <<digit>>, 20), Irq(irq), Just("nop"),
      Property("compatible", <<"virtio,mmio">>, 12, "text"), Just("end_node")>>
Serial(kind) ==
    <<Begin("serial", <<1, 0>>, 15), Irq(10), Property("compatible", <<kind, "other">>, 9, "end_node"),
      Just("end_node")>>
Plic0 == <<Begin("plic", <<12>>, 12), Property("reg", <<>>, 0, "zero"), Just("end_node")>>
Soc(parts) == <<Begin("soc", <<>>, 3), Property("ranges", <<>>, 2, "zero")>>
              \o FlattenSeq(parts) \o <<Just("end_node")>>
Tree(parts) == <<Begin("", <<>>, 0), Property("model", <<"m">>, 5, "unknown")>>
               \o FlattenSeq(parts) \o <<Just("end_node"), Just("end")>>

Blob(items, off) ==
    [items |-> items, words |-> WordsIn(items), off_dt_struct |-> off,
     reservations |-> <<[address |-> 8, size |-> 1], [address |-> 0, size |-> 0]>>]

Machines == <<Cpus, Memory, Soc(<<Virtio(2, 2), Virtio(1, 33), Plic0, Serial("ns16550a")>>)>>
Broken == <<Begin("soc", <<>>, 3), Begin("bad", <<>>, 3), Just("unknown"), Just("end_node"),
            Just("end_node")>>
(* A slot answers as a device with a large or a small queue, or not at all. *)
Slot(magic, id, max) ==
    [magic |-> magic, id |-> id, queue_num_max |-> max, status |-> {}, queue_num |-> 0,
     queue_pfn |-> 0]
Empty == Slot(TRUE, 0, 16)
Disk == Slot(TRUE, 2, 16)
Random == Slot(TRUE, 4, 16)
SmallDisk == Slot(TRUE, 2, 4)
Absent == Slot(FALSE, 0, 0)

(* A whole tree cut by headers of every size; the whole tree on boards     *)
(* whose devices refuse, or are not there; trees with another UART,        *)
(* without an interrupt controller, and with a token nobody knows.         *)
Board(tree, slots) == [tree |-> tree, slots |-> slots]
Sound == <<Disk, Random>>
SomeBoards ==
    {Board(Blob(Tree(Machines), off), Sound) : off \in 0..(Len(WordsIn(Tree(Machines))) - 1)}
    \cup {Board(Blob(Tree(Machines), 14), slots) :
            slots \in {<<Empty, Disk>>, <<Disk, Disk>>, <<Absent, SmallDisk>>, <<SmallDisk, Disk>>}}
    \cup {Board(tree, Sound) : tree \in
            {Blob(Tree(<<Soc(<<Serial("sifive,uart0"), Plic0>>), Cpus>>), 14),
             Blob(Tree(<<Soc(<<Virtio(1, 1)>>), Cpus>>), 3),
             Blob(Tree(<<Broken, Cpus>>), 4),
             Blob(Tree(<<Cpus, Broken>>), 14),
             Blob(<<Begin("", <<>>, 0), Just("end"), Just("nop"), Just("nop")>>, 0)}}

=============================================================================
