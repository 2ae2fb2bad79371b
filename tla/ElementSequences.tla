-------------------------- MODULE ElementSequences --------------------------
(***************************************************************************)
(* What the linked containers of Utils promise: each of them is a sequence *)
(* of elements of its own.                                                 *)
(***************************************************************************)
EXTENDS SequencesExt

CONSTANTS Boxes, Elements, Nothing

VARIABLES
    seq,   \* the elements of each container
    out    \* what the last call returned

Init == seq = [c \in Boxes |-> <<>>] /\ out = Nothing

Append1(c, e) == seq' = [seq EXCEPT ![c] = Append(@, e)] /\ out' = Nothing
Prepend1(c, e) == seq' = [seq EXCEPT ![c] = <<e>> \o @] /\ out' = Nothing

Pop(c) ==
    /\ seq[c] # <<>>
    /\ out' = Head(seq[c])
    /\ seq' = [seq EXCEPT ![c] = Tail(@)]

RotateLeft(c) ==
    /\ seq[c] # <<>>
    /\ seq' = [seq EXCEPT ![c] = Append(Tail(@), Head(@))]
    /\ out' = Nothing

Copy(c, d) == seq' = [seq EXCEPT ![c] = seq[d]] /\ out' = Nothing
Move(c, d) == seq' = [seq EXCEPT ![c] = seq[d], ![d] = <<>>] /\ out' = Nothing
Clear(c) == seq' = [seq EXCEPT ![c] = <<>>] /\ out' = Nothing

PeekFirst(c) == seq[c] # <<>> /\ out' = Head(seq[c]) /\ UNCHANGED seq
PeekLast(c) == seq[c] # <<>> /\ out' = Last(seq[c]) /\ UNCHANGED seq
Find(c, e) == out' = (IF e \in ToSet(seq[c]) THEN e ELSE Nothing) /\ UNCHANGED seq

(* A call without effect: rotating fewer than two elements, say. *)
Idle == UNCHANGED <<seq, out>>

Next ==
    \/ Idle
    \/ \E c \in Boxes :
         \/ \E e \in Elements : Append1(c, e) \/ Prepend1(c, e) \/ Find(c, e)
         \/ Pop(c) \/ RotateLeft(c) \/ Clear(c) \/ PeekFirst(c) \/ PeekLast(c)
         \/ \E d \in Boxes \ {c} : Copy(c, d) \/ Move(c, d)

Spec == Init /\ [][Next]_<<seq, out>>

=============================================================================
