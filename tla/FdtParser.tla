----------------------------- MODULE FdtParser -----------------------------
(***************************************************************************)
(* The parser of the flattened device tree (FDTParser): the memory         *)
(* reservations, the walk over the structure block that builds the nodes,  *)
(* and the lookups the drivers make.                                       *)
(*                                                                         *)
(* The structure block is a sequence of 32-bit words.  A word is a token,  *)
(* or data that belongs to one: the text of a name, the header of a        *)
(* property, or a property's value, which may look like a token.  Every    *)
(* iteration of the loop in parse_node is an action; parse_node calls      *)
(* itself, and the stack of its calls is a variable.                       *)
(***************************************************************************)
EXTENDS Integers, Sequences, FiniteSets, SequencesExt, FiniteSetsExt

VARIABLES
    blob,      \* the device tree: off_dt_struct in words, reservations, the items
               \* of the structure block, and the words they are stored in
    reserved,  \* m_reserve_entries
    at,        \* current_offset, in words from the start of the structure block
    calls,     \* the calls of parse_node in progress, the innermost last
    nodes,     \* the FDTNodes in the order of their creation
    root       \* m_root_node: "parsing", "set", or "null" when the parse failed

parser == <<blob, reserved, at, calls, nodes, root>>

-----------------------------------------------------------------------------
(* The layout of the structure block.  An item is a node's begin with its  *)
(* name, a property, or a token without data.                              *)

Up(bytes) == (bytes + 3) \div 4      \* align_to(4, .), in words

Data(is, item, n) == [k \in 1..n |-> [is |-> is, item |-> item]]
Token(is, item) == Data(is, item, 1)

(* A name ends in a zero byte, which is a word of its own when the text    *)
(* fills its last word.                                                    *)
NameWords(i, len) ==
    Data("text", i, Up(len)) \o (IF len % 4 = 0 THEN Token("zero", i) ELSE <<>>)

WordsOf(i, item) ==
    Token(item.is, i) \o
    (CASE item.is = "begin" -> NameWords(i, item.len)
       [] item.is = "prop"  -> Data("header", i, 2) \o Data(item.looks, i, Up(item.len))
       [] OTHER             -> <<>>)

WordsIn(items) == FlattenSeq([i \in DOMAIN items |-> WordsOf(i, items[i])])
Words == blob.words   \* WordsIn(blob.items)

(* The loop's condition: the offset, counted from the header, is below the *)
(* size of the structure block.                                            *)
Within == blob.off_dt_struct + at < Len(Words)
Word == Words[at + 1]
Item == blob.items[Word.item]

-----------------------------------------------------------------------------
(* parse_reserve_entries: up to an entry of which a field is zero.         *)
ReserveEntries(entries) ==
    LET Stops == {i \in DOMAIN entries : entries[i].address = 0 \/ entries[i].size = 0}
    IN  SubSeq(entries, 1, (CHOOSE i \in Stops : \A j \in Stops : i <= j) - 1)

NewNode == [name |-> <<>>, props |-> <<>>, parent |-> 0]

(* A call of parse_node for a new node, at the offset `from`. *)
Call(n, from) == [state |-> "None", node |-> n, from |-> from]

(* DeviceTree::init and parse of tree b: the reservations, and the first   *)
(* call.  The magic number is right.                                       *)
ParserInit(b) ==
    /\ blob = b
    /\ reserved = ReserveEntries(blob.reservations)
    /\ at = 0
    /\ calls = <<Call(1, 0)>>
    /\ nodes = <<NewNode>>
    /\ root = "parsing"

Running(state) == calls # <<>> /\ Within /\ Last(calls).state = state
InState(state) == calls' = [calls EXCEPT ![Len(calls)].state = state]
Node == Last(calls).node

-----------------------------------------------------------------------------
(* The call returns: to the parent, which adds a node that is not null and *)
(* goes on behind the offset the child left, or out of parse_nodes.        *)
Returned(n, kept, from) ==
    /\ calls' = Front(calls)
    /\ IF Len(calls) = 1
       THEN root' = (IF kept THEN "set" ELSE "null") /\ UNCHANGED <<at, nodes>>
       ELSE /\ at' = from + 1
            /\ nodes' = IF kept THEN [nodes EXCEPT ![n].parent = calls[Len(calls) - 1].node]
                        ELSE nodes
            /\ UNCHANGED root
    /\ UNCHANGED <<blob, reserved>>

ParseNone ==
    /\ Running("None")
    /\ IF Word.is = "begin"
       THEN InState("BeginNode") /\ at' = at + 1 /\ UNCHANGED <<nodes, root>>
       ELSE Returned(Node, FALSE, Last(calls).from)
    /\ UNCHANGED <<blob, reserved>>

(* The name, and the offset behind its text, aligned: a zero that fills a  *)
(* word of its own is left to the next state.                              *)
BeginNode ==
    /\ Running("BeginNode")
    /\ nodes' = [nodes EXCEPT ![Node].name = Item.name]
    /\ at' = at + Up(Item.len)
    /\ InState("NodeName")
    /\ UNCHANGED <<blob, reserved, root>>

(* State NodeName, by the token.  Anything else than these deletes the     *)
(* node and leaves the caller's offset where the call began.               *)
NodeName ==
    /\ Running("NodeName")
    /\ \/ /\ Word.is \in {"zero", "nop"}
          /\ at' = at + 1
          /\ UNCHANGED <<calls, nodes, root>>
       \/ /\ Word.is = "prop"
          /\ at' = at + 1
          /\ InState("Prop")
          /\ UNCHANGED <<nodes, root>>
       \/ /\ Word.is = "begin"
          /\ calls' = Append(calls, Call(Len(nodes) + 1, at))
          /\ nodes' = Append(nodes, NewNode)
          /\ UNCHANGED <<at, root>>
       \/ /\ Word.is = "end_node"
          /\ InState("EndNode")
          /\ UNCHANGED <<at, nodes, root>>
       \/ /\ Word.is = "end"
          /\ at' = at + 1
          /\ InState("End")
          /\ UNCHANGED <<nodes, root>>
       \/ /\ Word.is \notin {"zero", "nop", "prop", "begin", "end_node", "end"}
          /\ Returned(Node, FALSE, Last(calls).from)
    /\ UNCHANGED <<blob, reserved>>

(* Mutated form: the value's length is taken as it is, in whole words. *)
PropUnaligned ==
    /\ Running("Prop")
    /\ nodes' = [nodes EXCEPT ![Node].props = Append(@, Item.prop)]
    /\ at' = at + 2 + (Item.len \div 4)
    /\ InState("NodeName")
    /\ UNCHANGED <<blob, reserved, root>>

(* A property: its header, its value, aligned. *)
Prop ==
    /\ Running("Prop")
    /\ nodes' = [nodes EXCEPT ![Node].props = Append(@, Item.prop)]
    /\ at' = at + 2 + Up(Item.len)
    /\ InState("NodeName")
    /\ UNCHANGED <<blob, reserved, root>>

(* The node's end.  The offset stays on the token, and the caller skips it. *)
EndNode == Running("EndNode") /\ Returned(Node, TRUE, at)

(* Behind FDT_END the loop runs on without a case. *)
End ==
    /\ Running("End")
    /\ at' = at + 1
    /\ UNCHANGED <<blob, reserved, calls, nodes, root>>

(* The loop ends: the node is returned as far as it was read. *)
RunOut == calls # <<>> /\ ~Within /\ Returned(Node, TRUE, at)

ParseStep == ParseNone \/ BeginNode \/ NodeName \/ Prop \/ EndNode \/ End \/ RunOut

-----------------------------------------------------------------------------
(* Lookups.  A name is what get_name and get_address split it into: the    *)
(* part before the "@" and the digits behind it, or nothing at all for a   *)
(* node whose name the loop did not come to.                               *)

(* m_children of node p.  Nodes are numbered as they are created, and so   *)
(* in the order of that list.                                              *)
Children(p) == {k \in DOMAIN nodes : nodes[k].parent = p}

(* The children of p that are called `part`; get_name of a node without a  *)
(* name indexes an empty list.                                             *)
Named(p, part) == {k \in Children(p) : nodes[k].name # <<>> /\ nodes[k].name[1] = part}
Nameless(p) ==
    root = "set" /\ \E k \in Children(p) : nodes[k].name = <<>>

(* find_node: part by part, always into the first child of that name; 0 is *)
(* "Node not found".                                                       *)
FindNode(path) ==
    LET reached[k \in 0..Len(path)] ==
          IF k = 0 THEN IF root = "set" THEN 1 ELSE 0
          ELSE LET found == IF reached[k - 1] = 0 THEN {} ELSE Named(reached[k - 1], path[k])
               IN  IF found = {} THEN 0 ELSE Min(found)
    IN  reached[Len(path)]

(* find_nodes: all children of that name of the node the others lead to. *)
FindNodes(path) ==
    LET p == FindNode(Front(path))
    IN  IF p = 0 THEN {} ELSE Named(p, Last(path))

(* find_node comes to a node without a name: the last child, when none     *)
(* before it matches.                                                      *)
MeetsNameless(path) ==
    \E k \in DOMAIN path :
        LET p == FindNode(SubSeq(path, 1, k - 1))
        IN  p # 0 /\ Nameless(p) /\ Named(p, path[k]) = {}

(* find_property: the first of that name; the empty value when there is    *)
(* none.                                                                   *)
PropertyOf(n, name) ==
    LET found == {i \in DOMAIN nodes[n].props : nodes[n].props[i].name = name}
    IN  IF found = {} THEN <<>> ELSE nodes[n].props[Min(found)].value

-----------------------------------------------------------------------------
(* Properties. *)

(* The offset of an item's first word, and of the first word that the loop *)
(* does not look at.                                                       *)
Start(i) == (CHOOSE k \in DOMAIN Words : Words[k].item = i /\ (k > 1 => Words[k - 1].item # i)) - 1
Limit == Len(Words) - blob.off_dt_struct

(* Rank of the node that item i begins, and how many nodes are open there. *)
Count(is, n) == Cardinality({j \in 1..n : blob.items[j].is = is})
Rank(i) == Count("begin", i)
Depth(i) == Count("begin", i - 1) - Count("end_node", i - 1)

(* What the tree says up to the limit: the nodes begun below it, with the  *)
(* names and the properties that begin below it.                           *)
TreeUpToLimit ==
    LET depth == [i \in DOMAIN blob.items |-> Depth(i)]
        around == [i \in DOMAIN blob.items |->
                     Max({0} \cup {Rank(j) : j \in {k \in 1..(i - 1) :
                                        blob.items[k].is = "begin" /\ depth[k] = depth[i] - 1}})]
        start == [i \in DOMAIN blob.items |-> Start(i)]
        seen == SelectSeq([i \in DOMAIN blob.items |-> i],
                          LAMBDA i : blob.items[i].is = "begin" /\ start[i] < Limit)
        own == [k \in DOMAIN seen |->
                  SelectSeq([j \in DOMAIN blob.items |-> j],
                            LAMBDA j : /\ blob.items[j].is = "prop"
                                       /\ around[j] = k
                                       /\ start[j] + 1 < Limit)]
    IN  [k \in DOMAIN seen |->
           [name |-> IF start[seen[k]] + 1 < Limit THEN blob.items[seen[k]].name ELSE <<>>,
            props |-> [j \in DOMAIN own[k] |-> blob.items[own[k][j]].prop],
            parent |-> around[seen[k]]]]

WellFormed == \A i \in DOMAIN blob.items : blob.items[i].is # "unknown"

(* parse builds exactly the tree that the blob describes up to the limit:  *)
(* every node under its parent, with its own name and properties, whatever *)
(* the lengths of names and values, whatever their words look like, and    *)
(* whatever tokens the limit cuts off (the loop compares an offset from    *)
(* the header with the size of the structure block, so as many bytes as    *)
(* lie before the block are missed at its end).  A token it does not know  *)
(* below the limit leaves no tree at all.                                  *)
ParsedTreeExact ==
    /\ root = "set" => nodes = TreeUpToLimit
    /\ root = "null" => ~WellFormed
    /\ (root = "set" /\ ~WellFormed) =>
         \A i \in DOMAIN blob.items : blob.items[i].is = "unknown" => Start(i) >= Limit

=============================================================================
