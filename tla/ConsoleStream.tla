---------------------------- MODULE ConsoleStream ----------------------------
(***************************************************************************)
(* What the terminal promises its readers: the characters typed form one   *)
(* stream; each read takes the text up to the next carriage return off the *)
(* front of it, so every line is handed out once, in the order typed, with *)
(* the characters in the order typed.  A text longer than the reader's     *)
(* buffer is cut to the buffer's size and the rest of that line is         *)
(* dropped.                                                                *)
(***************************************************************************)
EXTENDS Naturals, Sequences

CONSTANTS Chars, CR, NUL, BufSize

VARIABLES
    stream,   \* characters typed and not yet read
    output    \* texts read, in order

Init == stream = <<>> /\ output = <<>>

Type(c) ==
    /\ stream' = Append(stream, c)
    /\ UNCHANGED output

Cut(text) == IF Len(text) <= BufSize THEN text ELSE SubSeq(text, 1, BufSize)

(* The line that ends at position n is read. *)
ReadLine(n) ==
    /\ stream[n] = CR
    /\ \A i \in 1..(n - 1) : stream[i] # CR
    /\ output' = Append(output, Cut(Append(SubSeq(stream, 1, n - 1), NUL)))
    /\ stream' = SubSeq(stream, n + 1, Len(stream))

Next ==
    \/ \E c \in Chars \cup {CR} : Type(c)
    \/ \E n \in DOMAIN stream : ReadLine(n)

Spec == Init /\ [][Next]_<<stream, output>>
=============================================================================
