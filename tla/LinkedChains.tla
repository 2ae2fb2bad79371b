---------------------------- MODULE LinkedChains ----------------------------
(***************************************************************************)
(* LinkedQueue (the run queue and the console's lines) and LinkedList (the *)
(* block cache), pointer by pointer: cells on the kernel heap, linked from *)
(* a head and a tail that each container keeps.  A behaviour works with    *)
(* two queues or with two lists.                                           *)
(***************************************************************************)
EXTENDS Integers, FiniteSets, SequencesExt

CONSTANTS
    Cells,       \* addresses of QueueElements and LinkedListElements (1, 2, ...)
    Elements,    \* what is queued
    Nothing,     \* a call that returns no element
    Shapes       \* "queue", "list": the containers exercised

ASSUME ChainsAssumption ==
    /\ IsFiniteSet(Cells) /\ Cells \subseteq Nat \ {0}
    /\ Shapes \subseteq {"queue", "list"}

VARIABLES
    shape,   \* the kind of the two containers
    heap,    \* the cells in use and what they hold
    ends,    \* m_head, m_tail and, of a list, m_size
    found    \* what the last call returned

chains == <<shape, heap, ends, found>>

Nil == 0
Chained == {1, 2}
Cut == [head |-> Nil, tail |-> Nil, size |-> 0]

(* new: a cell with the element and no neighbours. *)
Fresh(h) == CHOOSE x \in Cells : x \notin DOMAIN h
NewCell(e) == [elem |-> e, next |-> Nil, prev |-> Nil]
With(h, x, c) == [y \in DOMAIN h \cup {x} |-> IF y = x THEN c ELSE h[y]]
Without(h, xs) == [y \in DOMAIN h \ xs |-> h[y]]

(* The cells met on the way from x, as far as the links lead to cells. *)
Chain(h, x) ==
    LET from[n \in 0..Cardinality(Cells)] ==
          [y \in Cells \cup {Nil} |->
             IF n = 0 \/ y \notin DOMAIN h THEN <<>> ELSE <<y>> \o from[n - 1][h[y].next]]
    IN IF x = Nil THEN <<>> ELSE from[Cardinality(Cells)][x]

Walked(q) == Chain(heap, ends[q].head)

-----------------------------------------------------------------------------
(* append: of both classes; only a list links back and counts. *)
Append0(h, en, e, x) ==
    LET c == NewCell(e)
        linked == IF shape = "list" THEN [c EXCEPT !.prev = en.tail] ELSE c
        size == IF shape = "list" THEN en.size + 1 ELSE 0
    IN IF en.head = Nil
       THEN [heap |-> With(h, x, c), ends |-> [head |-> x, tail |-> x, size |-> size]]
       ELSE [heap |-> With([h EXCEPT ![en.tail].next = x], x, linked),
             ends |-> [head |-> en.head, tail |-> x, size |-> size]]

Room == Cells \ DOMAIN heap # {}

AppendElement(q, e) ==
    /\ Room
    /\ LET r == Append0(heap, ends[q], e, Fresh(heap))
       IN heap' = r.heap /\ ends' = [ends EXCEPT ![q] = r.ends]
    /\ found' = Nothing
    /\ UNCHANGED shape

PopKeepsTail(q) ==                                                  \* mutant
    LET x == ends[q].head IN
    /\ shape = "queue" /\ x # Nil
    /\ found' = heap[x].elem
    /\ heap' = Without(heap, {x})
    /\ ends' = [ends EXCEPT ![q].head = heap[x].next]
    /\ UNCHANGED shape

(* pop: the callers have tested is_empty(). *)
PopElement(q) ==
    LET x == ends[q].head IN
    /\ shape = "queue" /\ x # Nil
    /\ found' = heap[x].elem
    /\ heap' = Without(heap, {x})
    /\ ends' = [ends EXCEPT ![q] = IF heap[x].next = Nil THEN Cut
                                   ELSE [@ EXCEPT !.head = heap[x].next]]
    /\ UNCHANGED shape

(* rotate_left, which leaves a queue of one element alone. *)
Rotate(q) ==
    LET x == ends[q].head IN
    /\ shape = "queue" /\ x # Nil /\ heap[x].next # Nil
    /\ heap' = [[heap EXCEPT ![ends[q].tail].next = x] EXCEPT ![x].next = Nil]
    /\ ends' = [ends EXCEPT ![q] = [head |-> heap[x].next, tail |-> x, size |-> @.size]]
    /\ found' = Nothing
    /\ UNCHANGED shape

PeekFirst(q) ==
    /\ shape = "queue" /\ ends[q].head # Nil
    /\ found' = heap[ends[q].head].elem
    /\ UNCHANGED <<shape, heap, ends>>

PeekLast(q) ==
    /\ shape = "queue" /\ ends[q].head # Nil
    /\ found' = heap[ends[q].tail].elem
    /\ UNCHANGED <<shape, heap, ends>>

(* clear() and the destructors delete the cells from the head on. *)
Clear(q) ==
    /\ heap' = Without(heap, ToSet(Walked(q)))
    /\ ends' = [ends EXCEPT ![q] = Cut]
    /\ found' = Nothing
    /\ UNCHANGED shape

(* Copy construction and assignment append the other's elements one by one *)
(* to what clear() left.                                                   *)
CopyOf(h, xs) ==
    LET copied[k \in 0..Len(xs)] ==
          IF k = 0 THEN [heap |-> h, ends |-> Cut]
          ELSE Append0(copied[k - 1].heap, copied[k - 1].ends, heap[xs[k]].elem,
                       Fresh(copied[k - 1].heap))
    IN copied[Len(xs)]

CopyQueue(q, r) ==
    LET cleared == Without(heap, ToSet(Walked(q))) IN
    /\ shape = "queue" /\ q # r
    /\ Cardinality(DOMAIN cleared) + Len(Walked(r)) <= Cardinality(Cells)
    /\ heap' = CopyOf(cleared, Walked(r)).heap
    /\ ends' = [ends EXCEPT ![q] = CopyOf(cleared, Walked(r)).ends]
    /\ found' = Nothing
    /\ UNCHANGED shape

MoveQueue(q, r) ==
    /\ shape = "queue" /\ q # r
    /\ heap' = Without(heap, ToSet(Walked(q)))
    /\ ends' = [ends EXCEPT ![q] = ends[r], ![r] = Cut]
    /\ found' = Nothing
    /\ UNCHANGED shape

-----------------------------------------------------------------------------
(* LinkedList: prepend, the move into a new list, and the search. *)
PrependElement(q, e) ==
    LET en == ends[q]
        x == Fresh(heap)
    IN /\ shape = "list" /\ Room
       /\ IF en.head = Nil
          THEN /\ heap' = With(heap, x, NewCell(e))
               /\ ends' = [ends EXCEPT ![q] = [head |-> x, tail |-> x, size |-> en.size + 1]]
          ELSE /\ heap' = With([heap EXCEPT ![en.head].prev = x], x,
                               [NewCell(e) EXCEPT !.next = en.head])
               /\ ends' = [ends EXCEPT ![q] = [head |-> x, tail |-> en.tail, size |-> en.size + 1]]
       /\ found' = Nothing
       /\ UNCHANGED shape

MoveList(q, r) ==
    /\ shape = "list" /\ q # r /\ ends[q] = Cut
    /\ ends' = [ends EXCEPT ![q] = ends[r], ![r] = Cut]
    /\ found' = Nothing
    /\ UNCHANGED <<shape, heap>>

FindFirstMatch(q, e) ==
    /\ shape = "list"
    /\ found' = IF \E x \in ToSet(Walked(q)) : heap[x].elem = e THEN e ELSE Nothing
    /\ UNCHANGED <<shape, heap, ends>>

(* remove(index): the loop ends before it reaches the index, so that every *)
(* call returns with the list as it was.                                   *)
RemoveIndex(q, i) ==
    /\ shape = "list" /\ i < ends[q].size
    /\ UNCHANGED chains

-----------------------------------------------------------------------------
ChainsInit ==
    /\ shape \in Shapes
    /\ heap = [x \in {} |-> NewCell(Nothing)]
    /\ ends = [q \in Chained |-> Cut]
    /\ found = Nothing

ChainsNext ==
    \E q \in Chained :
      \/ PopElement(q) \/ Rotate(q) \/ PeekFirst(q) \/ PeekLast(q) \/ Clear(q)
      \/ \E e \in Elements : AppendElement(q, e) \/ PrependElement(q, e) \/ FindFirstMatch(q, e)
      \/ \E r \in Chained : CopyQueue(q, r) \/ MoveQueue(q, r) \/ MoveList(q, r)
      \/ \E i \in 0..Cardinality(Cells) : RemoveIndex(q, i)

ChainsSpec == ChainsInit /\ [][ChainsNext]_chains

-----------------------------------------------------------------------------
(* A container is in order when its cells, w, run from its head to its     *)
(* tail and are linked back and counted if it is a list.                   *)
InOrder(s, h, en, w) ==
    /\ w = <<>> => en = Cut
    /\ w # <<>> => Last(w) = en.tail /\ h[Last(w)].next = Nil
    /\ s = "list" =>
         /\ Len(w) = en.size
         /\ \A i \in 1..Len(w) : h[w[i]].prev = IF i = 1 THEN Nil ELSE w[i - 1]

(* The sequences the containers stand for; none when they are out of order *)
(* or the cells in use are not theirs, each in one of them.                *)
Elems(h, w) == [i \in 1..Len(w) |-> h[w[i]].elem]
ContentsOf(s, h, ens) ==
    LET w == [q \in Chained |-> Chain(h, ens[q].head)]
    IN IF /\ \A q \in Chained : InOrder(s, h, ens[q], w[q])
          /\ ToSet(w[1]) \cup ToSet(w[2]) = DOMAIN h
          /\ ToSet(w[1]) \cap ToSet(w[2]) = {}
       THEN [q \in Chained |-> Elems(h, w[q])]
       ELSE [q \in Chained |-> <<Nil>>]

Contents == ContentsOf(shape, heap, ends)

Abstract == INSTANCE ElementSequences
              WITH Boxes <- Chained, seq <- Contents, out <- found

(* Every call is the operation of its own name, on its own container and   *)
(* operand, and not merely some operation a sequence has.                  *)
CallAsNamed ==
    chains' # chains => \A q \in Chained :
      /\ PopElement(q) => Abstract!Pop(q)
      /\ Rotate(q) => Abstract!RotateLeft(q)
      /\ Clear(q) => Abstract!Clear(q)
      /\ PeekFirst(q) => Abstract!PeekFirst(q)
      /\ PeekLast(q) => Abstract!PeekLast(q)
      /\ \A e \in Elements : /\ AppendElement(q, e) => Abstract!Append1(q, e)
                             /\ PrependElement(q, e) => Abstract!Prepend1(q, e)
                             /\ FindFirstMatch(q, e) => Abstract!Find(q, e)
      /\ \A r \in Chained : /\ CopyQueue(q, r) => Abstract!Copy(q, r)
                            /\ (MoveQueue(q, r) \/ MoveList(q, r)) => Abstract!Move(q, r)

(* Whatever is appended, popped, rotated, copied and moved, each container *)
(* is a sequence of its own and each call does to it what its name says:   *)
(* no element is lost, repeated or shared, the tail is the last cell, and  *)
(* every cell is freed once.                                               *)
ImplementsSequences == Abstract!Spec /\ [][CallAsNamed]_chains

=============================================================================
