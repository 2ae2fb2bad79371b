----------------------------- MODULE Ownership -----------------------------
(***************************************************************************)
(* Who keeps an object alive: the reference counts of Utils (RefPtr and    *)
(* RefCounted) under the containers that construct, copy, move and destroy *)
(* RefPtrs in raw storage: ArrayList, Array, Optional and ErrorOr.         *)
(*                                                                         *)
(* Memory is a function from slots to what they hold: a slot is a place    *)
(* where a RefPtr may be (a local variable, an element, the member of an   *)
(* object).  Every operation of a container is the sequence of RefPtr      *)
(* operations that its code makes on the slots.  A behaviour works with    *)
(* two containers of one kind.                                             *)
(***************************************************************************)
EXTENDS Integers, FiniteSets, SequencesExt

CONSTANTS
    Objects,       \* addresses at which objects are allocated
    Vars,          \* RefPtr variables
    Buffers,       \* blocks that kmalloc returns for arrays (1, 2, ...)
    DefaultSize,   \* ArrayList::DEFAULT_SIZE
    MaxSize,       \* bound: elements of a container
    Kinds          \* the containers exercised

ASSUME OwnershipAssumption ==
    /\ {0, -1} \cap Objects = {} /\ Buffers \subseteq Nat \ {0}
    /\ DefaultSize \in Nat \ {0} /\ MaxSize \in Nat
    /\ Kinds \subseteq {"list", "array", "optional", "result"}

VARIABLES
    used,    \* the kind of the two containers
    mem,     \* what the slots hold, counts, live objects, a freed one touched
    box      \* the two containers: block, capacity and number of elements

ownership == <<used, mem, box>>

Null == 0
Raw == -1                          \* storage in which nothing is constructed
Var(v) == <<"var", v, 0>>
Member(o) == <<"member", o, 0>>    \* the RefPtr inside an object
Cell(b, i) == <<"cell", b, i>>     \* element i of a block
Inline(c) == <<"inline", c, 0>>    \* m_storage, m_result_data
Temp == <<"temp", 0, 0>>           \* a temporary or a parameter

Boxes == {1, 2}
Slots == {Var(v) : v \in Vars} \cup {Member(o) : o \in Objects}
         \cup {Cell(b, i) : b \in Buffers, i \in 0..(MaxSize - 1)}
         \cup {Inline(c) : c \in Boxes} \cup {Temp}

-----------------------------------------------------------------------------
(* RefCounted: ref, and unref, which deletes the object and with it the    *)
(* object's own RefPtr.                                                    *)
Ref(m, o) ==
    IF o \in Objects
    THEN [m EXCEPT !.count[o] = @ + 1, !.stale = @ \/ o \notin m.live]
    ELSE m

RECURSIVE Unref(_, _)
Unref(m, o) ==
    IF o \notin Objects THEN m
    ELSE LET d == [m EXCEPT !.count[o] = @ - 1, !.stale = @ \/ o \notin m.live]
         IN IF d.count[o] # 0 THEN d
            ELSE Unref([d EXCEPT !.live = @ \ {o}, !.at[Member(o)] = Raw],
                       d.at[Member(o)])

(* RefPtr's constructors, destructor and assignments.  An assignment       *)
(* releases the old object before it reads the new one.                    *)
CopyConstruct(m, d, s) == Ref([m EXCEPT !.at[d] = m.at[s]], m.at[s])

MoveConstruct(m, d, s) == [m EXCEPT !.at[d] = m.at[s], !.at[s] = Null]

Destroy(m, d) == [Unref(m, m.at[d]) EXCEPT !.at[d] = Null]

CopyAssign(m, d, s) ==
    IF d = s THEN m
    ELSE LET r == Unref(m, m.at[d])
         IN Ref([r EXCEPT !.at[d] = r.at[s], !.stale = @ \/ r.at[s] = Raw], r.at[s])

MoveAssignKeep(m, d, s) ==                                        \* mutant
    IF d = s THEN m
    ELSE LET r == Unref(m, m.at[d]) IN [r EXCEPT !.at[d] = r.at[s]]

MoveAssign(m, d, s) ==
    IF d = s THEN m
    ELSE LET r == Unref(m, m.at[d])
         IN [r EXCEPT !.at[d] = r.at[s], !.at[s] = Null]

(* The end of a temporary's life. *)
Gone(m, s) == [Destroy(m, s) EXCEPT !.at[s] = Raw]

-----------------------------------------------------------------------------
(* RefPtr variables: create, assignment, release, the walk to a member     *)
(* (entry = entry->next) and an assignment to a member.                    *)
Create(v) ==
    /\ \E o \in Objects \ mem.live :
         LET made == [mem EXCEPT !.live = @ \cup {o}, !.count[o] = 1,
                                 !.at[Member(o)] = Null, !.at[Temp] = o]
         IN mem' = Gone(MoveAssign(made, Var(v), Temp), Temp)
    /\ UNCHANGED <<used, box>>

Assign(v, w) == mem' = CopyAssign(mem, Var(v), Var(w)) /\ UNCHANGED <<used, box>>

Release(v) == mem' = Destroy(mem, Var(v)) /\ UNCHANGED <<used, box>>

(* The walkers keep the object they leave alive by another reference.      *)
HeldElsewhere(o) == o \in Objects /\ mem.count[o] > 1

WalkOn(v) ==
    LET o == mem.at[Var(v)] IN
    /\ HeldElsewhere(o)
    /\ mem' = CopyAssign(mem, Var(v), Member(o))
    /\ UNCHANGED <<used, box>>

SetMember(v, w) ==
    LET o == mem.at[Var(v)] IN
    /\ o \in Objects
    /\ mem' = CopyAssign(mem, Member(o), Var(w))
    /\ UNCHANGED <<used, box>>

-----------------------------------------------------------------------------
(* A loop over the first n elements. *)
Each(Op(_, _), m, n) == FoldLeft(Op, m, [i \in 1..n |-> i - 1])

DestroyAll(m, b, n) == Each(LAMBDA x, i : Destroy(x, Cell(b, i)), m, n)

(* kfree, and kmalloc of a block that no container has. *)
Kfreed(m, b) ==
    [m EXCEPT !.at = [s \in Slots |->
        IF s[1] = "cell" /\ s[2] = b THEN Raw ELSE m.at[s]]]

Kmalloced == CHOOSE b \in Buffers : \A c \in Boxes : box[c].block # b

Empty == [block |-> Null, size |-> 0, length |-> 0]

(* clear() of ArrayList and Array: the elements, then the block. *)
Cleared(m, c) == Kfreed(DestroyAll(m, box[c].block, box[c].length), box[c].block)

(* Copies of the other container's elements in a new block. *)
Copies(m, b, other) ==
    Each(LAMBDA x, i : CopyConstruct(x, Cell(b, i), Cell(other.block, i)), m, other.length)

(* add: grow() doubles the block by moving the elements. *)
Grown(m, old, b) ==
    Kfreed(Each(LAMBDA x, i :
                  Destroy(MoveConstruct(x, Cell(b, i), Cell(old.block, i)), Cell(old.block, i)),
                m, old.length),
           old.block)

MadeRoom(c) ==
    IF box[c].length < box[c].size THEN [m |-> mem, box |-> box[c]]
    ELSE [m |-> Grown(mem, box[c], Kmalloced),
          box |-> [box[c] EXCEPT !.block = Kmalloced, !.size = 2 * @]]

Usable(c) == used = "list" /\ box[c].size > 0   \* constructed, not moved from

Add(c, v, Construct(_, _, _)) ==
    /\ Usable(c) /\ box[c].length < MaxSize
    /\ mem' = Construct(MadeRoom(c).m, Cell(MadeRoom(c).box.block, box[c].length), Var(v))
    /\ box' = [box EXCEPT ![c] = [MadeRoom(c).box EXCEPT !.length = @ + 1]]
    /\ UNCHANGED used

ListAdd(c, v) == Add(c, v, CopyConstruct)
ListAddMoved(c, v) == Add(c, v, MoveConstruct)

(* remove(): the element is destroyed, the later ones move down by         *)
(* assignment and the last one is destroyed.                               *)
ListRemove(c, i) ==
    LET b == box[c].block
        n == box[c].length
        shifted == Each(LAMBDA x, j : MoveAssign(x, Cell(b, i + j), Cell(b, i + j + 1)),
                        Destroy(mem, Cell(b, i)), n - 1 - i)
    IN /\ Usable(c) /\ i < n
       /\ mem' = Destroy(shifted, Cell(b, n - 1))
       /\ box' = [box EXCEPT ![c].length = @ - 1]
       /\ UNCHANGED used

ListReset(c) ==
    /\ Usable(c)
    /\ mem' = Cleared(mem, c)
    /\ box' = [box EXCEPT ![c] = [block |-> Kmalloced, size |-> DefaultSize, length |-> 0]]
    /\ UNCHANGED used

ListAssign(c, d) ==
    /\ c # d /\ used = "list" /\ Usable(d)
    /\ mem' = Copies(Cleared(mem, c), Kmalloced, box[d])
    /\ box' = [box EXCEPT ![c] = [box[d] EXCEPT !.block = Kmalloced]]
    /\ UNCHANGED used

(* The move assignments of ArrayList and Array. *)
MoveBox(c, d) ==
    /\ used \in {"list", "array"} /\ c # d
    /\ mem' = Cleared(mem, c)
    /\ box' = [box EXCEPT ![c] = box[d], ![d] = Empty]
    /\ UNCHANGED used

(* get(): both copy into a variable. *)
BoxGet(v, c, i) ==
    /\ used \in {"list", "array"} /\ i < box[c].length
    /\ mem' = CopyAssign(mem, Var(v), Cell(box[c].block, i))
    /\ UNCHANGED <<used, box>>

-----------------------------------------------------------------------------
(* Array: n elements constructed at once, copied by assignment. *)
NewArray(m, b, n) == Each(LAMBDA x, i : [x EXCEPT !.at[Cell(b, i)] = Null], m, n)

ArrayMake(c, n) ==
    /\ used = "array"
    /\ mem' = NewArray(Cleared(mem, c), Kmalloced, n)
    /\ box' = [box EXCEPT ![c] =
                 IF n = 0 THEN Empty ELSE [block |-> Kmalloced, size |-> n, length |-> n]]
    /\ UNCHANGED used

ArrayAssign(c, d) ==
    /\ used = "array" /\ c # d
    /\ mem' = Each(LAMBDA x, i : CopyAssign(x, Cell(Kmalloced, i), Cell(box[d].block, i)),
                   NewArray(Cleared(mem, c), Kmalloced, box[d].length), box[d].length)
    /\ box' = [box EXCEPT ![c] = [box[d] EXCEPT !.block = Kmalloced]]
    /\ UNCHANGED used

(* The element is passed by value: copied into a parameter and from there. *)
Passed(v, Use(_)) == mem' = Gone(Use(CopyConstruct(mem, Temp, Var(v))), Temp)

ArraySet(c, i, v) ==
    /\ used = "array" /\ i < box[c].length
    /\ Passed(v, LAMBDA m : CopyAssign(m, Cell(box[c].block, i), Temp))
    /\ UNCHANGED <<used, box>>

ArrayFill(c, v) ==
    /\ used = "array"
    /\ Passed(v, LAMBDA m : Each(LAMBDA x, i : CopyAssign(x, Cell(box[c].block, i), Temp),
                                 m, box[c].length))
    /\ UNCHANGED <<used, box>>

-----------------------------------------------------------------------------
(* Optional and ErrorOr: m_has_value is length 1.  Both destroy the value  *)
(* only where there is one.                                                *)
Has(c) == box[c].length = 1

OptionalReset(m, c) == IF Has(c) THEN Gone(m, Inline(c)) ELSE m

Holding(c, n) == box' = [box EXCEPT ![c].length = n]

(* opt = value: a temporary Optional, moved from. *)
OptionalSet(c, v) ==
    /\ used = "optional"
    /\ Passed(v, LAMBDA m : MoveConstruct(OptionalReset(m, c), Inline(c), Temp))
    /\ Holding(c, 1)
    /\ UNCHANGED used

OptionalCopy(c, d) ==
    /\ used = "optional" /\ c # d
    /\ LET m == OptionalReset(mem, c)
       IN mem' = IF Has(d) THEN CopyConstruct(m, Inline(c), Inline(d)) ELSE m
    /\ Holding(c, box[d].length)
    /\ UNCHANGED used

OptionalMove(c, d) ==
    /\ used = "optional" /\ c # d
    /\ LET m == OptionalReset(mem, c)
       IN mem' = IF Has(d) THEN OptionalReset(MoveConstruct(m, Inline(c), Inline(d)), d) ELSE m
    /\ box' = [box EXCEPT ![c].length = box[d].length, ![d].length = 0]
    /\ UNCHANGED used

OptionalClear(c) ==
    /\ used = "optional"
    /\ mem' = OptionalReset(mem, c)
    /\ Holding(c, 0)
    /\ UNCHANGED used

(* value() and get_value(): the caller has asked has_value(). *)
TakeValue(v, c) ==
    /\ used \in {"optional", "result"} /\ Has(c)
    /\ mem' = Gone(MoveAssign(CopyConstruct(mem, Temp, Inline(c)), Var(v), Temp), Temp)
    /\ UNCHANGED <<used, box>>

(* An ErrorOr lives in one call: constructed from a value or an error,     *)
(* copied to the caller's, destroyed.  size tells that it is alive.        *)
Alive(c) == box[c].size = 1

ResultOf(c, v) ==
    /\ used = "result" /\ ~Alive(c)
    /\ mem' = CopyConstruct(mem, Inline(c), Var(v))
    /\ box' = [box EXCEPT ![c] = [@ EXCEPT !.size = 1, !.length = 1]]
    /\ UNCHANGED used

ResultError(c) ==
    /\ used = "result" /\ ~Alive(c)
    /\ box' = [box EXCEPT ![c].size = 1]
    /\ UNCHANGED <<used, mem>>

ResultCopy(c, d) ==
    /\ used = "result" /\ ~Alive(c) /\ Alive(d)
    /\ mem' = IF Has(d) THEN CopyConstruct(mem, Inline(c), Inline(d)) ELSE mem
    /\ box' = [box EXCEPT ![c] = box[d]]
    /\ UNCHANGED used

ResultDestroy(c) ==
    /\ used = "result" /\ Alive(c)
    /\ mem' = IF Has(c) THEN Gone(mem, Inline(c)) ELSE mem
    /\ box' = [box EXCEPT ![c] = Empty]
    /\ UNCHANGED used

(* TRY: the value is taken out and the result destroyed, or the caller     *)
(* returns with the error.                                                 *)
Try(v, c) ==
    /\ used = "result" /\ Alive(c)
    /\ mem' = IF Has(c)
              THEN Gone(Gone(MoveAssign(CopyConstruct(mem, Temp, Inline(c)), Var(v), Temp), Temp),
                        Inline(c))
              ELSE mem
    /\ box' = [box EXCEPT ![c] = Empty]
    /\ UNCHANGED used

-----------------------------------------------------------------------------
(* Two containers as their default constructors leave them. *)
OwnershipInit ==
    /\ used \in Kinds
    /\ mem = [at |-> [s \in Slots |-> IF s[1] = "var" THEN Null ELSE Raw],
              count |-> [o \in Objects |-> 0], live |-> {}, stale |-> FALSE]
    /\ box = [c \in Boxes |->
                IF used = "list" THEN [block |-> c, size |-> DefaultSize, length |-> 0] ELSE Empty]

VariableStep ==
    \E v \in Vars :
      \/ Create(v)
      \/ Release(v)
      \/ WalkOn(v)
      \/ \E w \in Vars : Assign(v, w) \/ SetMember(v, w)

SequenceStep ==
    \E c \in Boxes :
      \/ ListReset(c)
      \/ \E v \in Vars : ListAdd(c, v) \/ ListAddMoved(c, v) \/ ArrayFill(c, v)
      \/ \E i \in 0..(MaxSize - 1) :
           \/ ListRemove(c, i)
           \/ \E v \in Vars : BoxGet(v, c, i) \/ ArraySet(c, i, v)
      \/ \E n \in 0..MaxSize : ArrayMake(c, n)
      \/ \E d \in Boxes : ListAssign(c, d) \/ MoveBox(c, d) \/ ArrayAssign(c, d)

ValueStep ==
    \E c \in Boxes :
      \/ OptionalClear(c)
      \/ ResultError(c)
      \/ ResultDestroy(c)
      \/ \E v \in Vars : OptionalSet(c, v) \/ TakeValue(v, c) \/ ResultOf(c, v) \/ Try(v, c)
      \/ \E d \in Boxes : OptionalCopy(c, d) \/ OptionalMove(c, d) \/ ResultCopy(c, d)

OwnershipNext == VariableStep \/ SequenceStep \/ ValueStep

-----------------------------------------------------------------------------
Holders(o) == {s \in Slots : mem.at[s] = o}
InUse(c) == {Cell(box[c].block, i) : i \in 0..(box[c].length - 1)}

(* An object lives exactly as long as RefPtrs hold it, its count is their  *)
(* number, and none of them is in storage whose owner has forgotten it: an *)
(* element behind a container's length, a freed block, the storage of an   *)
(* empty Optional or of an error.  So nothing is used after its deletion,  *)
(* and nothing can be lost but in a cycle.                                 *)
ReferencesOwned ==
    /\ ~mem.stale
    /\ \A o \in Objects :
         /\ mem.count[o] = Cardinality(Holders(o))
         /\ o \in mem.live <=> Holders(o) # {}
    /\ \A s \in Slots :
         mem.at[s] \in Objects =>
           \/ s[1] \in {"var", "member"}
           \/ s[1] = "cell" /\ \E c \in Boxes : s \in InUse(c)
           \/ s[1] = "inline" /\ Has(s[2])
    /\ box[1].block = box[2].block => box[1].block = Null

=============================================================================
