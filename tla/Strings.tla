------------------------------- MODULE Strings -------------------------------
(***************************************************************************)
(* Strings of the kernel (String, StringView, StringValue): the objects    *)
(* that hold their characters, and the algorithms on them.                 *)
(*                                                                         *)
(* A String owns a reference to a StringValue, which += changes in place;  *)
(* a StringView, and the String made from one, refer to the StringValue of *)
(* another.  That a path kept as a key is not changed by what its caller   *)
(* appends next rests on where these operations copy and where they share. *)
(* Characters are one-character strings; a StringValue without an owner is *)
(* deleted (see Ownership).                                                *)
(***************************************************************************)
EXTENDS Integers, Sequences, FiniteSets, SequencesExt, FiniteSetsExt

CONSTANTS
    StringVars,   \* the String variables and members
    Literals,     \* the texts that strings are made from
    MaxText       \* bound on the length of a text

VARIABLES
    holds,    \* the StringValue of every variable
    values,   \* the characters of every StringValue, none when it is deleted
    view,     \* the StringValue of the view that is passed along
    given     \* history: the text that every variable was given

strings == <<holds, values, view, given>>

NoValue == 0                                \* a null RefPtr
Values == 1..(Cardinality(StringVars) + 1)
Text(v) == values[holds[v]]
Set(v) == holds[v] # NoValue                \* constructed, and not moved from

-----------------------------------------------------------------------------
(* equals, with the lengths first. *)
Equals(s, t) == Len(s) = Len(t) /\ \A i \in DOMAIN s : s[i] = t[i]

Place(s, c) == CHOOSE i \in DOMAIN s : s[i] = c
UpperCase == <<"A", "B", "C", "D", "E", "F">>
LowerCase == <<"a", "b", "c", "d", "e", "f">>
ToLower(c) == IF Contains(UpperCase, c) THEN LowerCase[Place(UpperCase, c)] ELSE c
EqualsIgnoreCase(s, t) == Len(s) = Len(t) /\ \A i \in DOMAIN s : ToLower(s[i]) = ToLower(t[i])

StartsWith(s, t) == Len(t) <= Len(s) /\ \A i \in DOMAIN t : s[i] = t[i]

(* split at a separator of one character, index by index: one at the start *)
(* or at the end is skipped, together with what the last part would be.    *)
SplitStep(s, sep, acc, i) ==
    IF s[i] # sep THEN acc
    ELSE IF i = 1 \/ i = Len(s) THEN [acc EXCEPT !.last = i]
    ELSE [last  |-> i,
          parts |-> IF i - 1 > acc.last
                    THEN Append(acc.parts, SubSeq(s, acc.last + 1, i - 1)) ELSE acc.parts]

Split(s, sep) ==
    LET all == FoldLeft(LAMBDA acc, i : SplitStep(s, sep, acc, i), [last |-> 0, parts |-> <<>>],
                        [i \in DOMAIN s |-> i])
    IN  IF all.last < Len(s) THEN Append(all.parts, SubSeq(s, all.last + 1, Len(s)))
        ELSE all.parts

(* atoi up to the first character that is no hexadecimal digit, whatever   *)
(* the base; the kernel reads addresses, which have no sign.               *)
Digits == <<"0", "1", "2", "3", "4", "5", "6", "7", "8", "9">> \o LowerCase
IsDigit(c) == Contains(Digits, ToLower(c))
DigitOf(c) == Place(Digits, ToLower(c)) - 1
Atoi(s, base) ==
    FoldLeft(LAMBDA acc, c : IF acc.stop \/ ~IsDigit(c) THEN [acc EXCEPT !.stop = TRUE]
                             ELSE [acc EXCEPT !.n = @ * base + DigitOf(c)],
             [n |-> 0, stop |-> FALSE], s).n

(* VirtualFileSystem::open: the path that the file system gets. *)
RelativePath(parts) ==
    FoldLeft(LAMBDA path, i : path \o parts[i] \o (IF i < Len(parts) THEN <<"/">> ELSE <<>>),
             <<"/">>, [i \in DOMAIN parts |-> i])

(* FileSystem::open: the key under which the last part is opened. *)
PathSoFar(parts) == FoldLeft(LAMBDA path, name : path \o <<"/">> \o name, <<>>, parts)

-----------------------------------------------------------------------------
StringsInit ==
    /\ holds = [v \in StringVars |-> NoValue]
    /\ values = [id \in Values |-> <<>>]
    /\ view = NoValue
    /\ given = [v \in StringVars |-> <<>>]

(* The new state, in which values without an owner are deleted.  A view is *)
(* an argument, and ends with or before the string it shows.               *)
Become(h, vals, vw, m) ==
    LET owned == {h[v] : v \in StringVars} \ {NoValue}
    IN  /\ holds' = h
        /\ view' = IF vw \in owned THEN vw ELSE NoValue
        /\ values' = [id \in Values |-> IF id \in owned THEN vals[id] ELSE <<>>]
        /\ given' = m

(* StringValue::create: variable v gets a new value with text t. *)
NewValue == CHOOSE id \in Values : \A w \in StringVars : holds[w] # id
Created(v, t, m) ==
    /\ Len(t) <= MaxText
    /\ Become([holds EXCEPT ![v] = NewValue], [values EXCEPT ![NewValue] = t], view,
              [given EXCEPT ![v] = m])

StringOf(v, t) == Created(v, t, t)

(* Mutated form: the assignment shares, as that of a RefPtr does. *)
AssignStringShared(v, w) ==
    /\ v # w /\ Set(w)
    /\ Become([holds EXCEPT ![v] = holds[w]], values, view, [given EXCEPT ![v] = given[w]])

(* Copy construction and assignment. *)
AssignString(v, w) == v # w /\ Set(w) /\ Created(v, Text(w), given[w])

(* Move construction and assignment. *)
MoveString(v, w) ==
    /\ v # w /\ Set(w)
    /\ Become([holds EXCEPT ![v] = holds[w], ![w] = NoValue], values, view,
              [given EXCEPT ![v] = given[w], ![w] = <<>>])

(* StringValue::append, in place: a string may be appended to itself. *)
AppendString(v, w) ==
    /\ Set(v) /\ Set(w)
    /\ Len(Text(v)) + Len(Text(w)) <= MaxText
    /\ Become(holds, [values EXCEPT ![holds[v]] = @ \o Text(w)], view,
              [given EXCEPT ![v] = @ \o given[w]])

AppendChar(v, c) ==
    /\ Set(v)
    /\ Len(Text(v)) < MaxText
    /\ Become(holds, [values EXCEPT ![holds[v]] = Append(@, c)], view,
              [given EXCEPT ![v] = Append(@, c)])

(* operator+, into v: the result is a string of its own. *)
Concatenate(v, w, x) ==
    Set(w) /\ Set(x) /\ Created(v, Text(w) \o Text(x), given[w] \o given[x])

(* A string is passed as a StringView. *)
TakeView(v) ==
    /\ Set(v)
    /\ Become(holds, values, holds[v], given)

DropView ==
    /\ view # NoValue
    /\ Become(holds, values, NoValue, given)

(* A member is assigned from the view: the String that is made from it     *)
(* shares the value, and the assignment copies it.                         *)
KeepView(v) == view # NoValue /\ Created(v, values[view], values[view])

DestroyString(v) ==
    /\ Set(v)
    /\ Become([holds EXCEPT ![v] = NoValue], values, view, [given EXCEPT ![v] = <<>>])

(* An element of what split returns. *)
TakePart(v, w, i) ==
    /\ Set(w)
    /\ i \in DOMAIN Split(Text(w), "/")
    /\ LET part == Split(Text(w), "/")[i] IN Created(v, part, part)

StringsNext ==
    \/ \E v \in StringVars, t \in Literals : StringOf(v, t)
    \/ \E v, w \in StringVars :
         AssignString(v, w) \/ MoveString(v, w) \/ AppendString(v, w)
    \/ \E v \in StringVars, c \in UNION {ToSet(t) : t \in Literals} : AppendChar(v, c)
    \/ \E v, w, x \in StringVars : Concatenate(v, w, x)
    \/ \E v \in StringVars : TakeView(v) \/ KeepView(v) \/ DestroyString(v)
    \/ DropView
    \/ \E v, w \in StringVars, i \in 1..MaxText : TakePart(v, w, i)

-----------------------------------------------------------------------------
(* The runs of other characters between separators, in order. *)
PartsOf(s, sep) ==
    LET starts == {i \in DOMAIN s : s[i] # sep /\ (i = 1 \/ s[i - 1] = sep)}
        end(i) == Max({j \in i..Len(s) : \A k \in i..j : s[k] # sep})
    IN  [k \in 1..Cardinality(starts) |->
           LET i == CHOOSE i \in starts : Cardinality({j \in starts : j <= i}) = k
           IN  SubSeq(s, i, end(i))]

(* Splitting finds every part of a path that does not end in a separator,  *)
(* the two paths that one open builds from the parts are the same, and a   *)
(* number is read as it is written.                                        *)
ReadRight(s) ==
    LET parts == Split(s, "/")
        path  == RelativePath(parts)
    IN  /\ s = <<>> \/ Last(s) # "/" => parts = PartsOf(s, "/")
        /\ parts # <<>> => PathSoFar(Split(path, "/")) = path
        /\ (\A i \in DOMAIN s : IsDigit(s[i])) =>
              Atoi(s, 16) = MapThenSumSet(LAMBDA i : DigitOf(s[i]) * 16 ^ (Len(s) - i), DOMAIN s)

(* Two texts are equal when they are the same, also in the cases of their  *)
(* letters; a text starts with another when some text completes that one.  *)
ComparedRight(s, t) ==
    /\ Equals(s, t) <=> s = t
    /\ EqualsIgnoreCase(s, t) <=>
         [i \in DOMAIN s |-> ToLower(s[i])] = [i \in DOMAIN t |-> ToLower(t[i])]
    /\ StartsWith(s, t) <=> IsPrefix(t, s)

(***************************************************************************)
(* Strings are values: whatever is copied, moved, appended in place, kept  *)
(* from a view or destroyed in whatever order, a string holds the text it  *)
(* was itself given (the key of an open file is not changed by the path    *)
(* that its walk goes on extending, FileSystem.cpp 47-55), and what is     *)
(* read from a text, its parts, its number and its comparisons, is right.  *)
(***************************************************************************)
StringsAreValues ==
    /\ \A v \in StringVars : Set(v) => Text(v) = given[v] /\ ReadRight(Text(v))
    /\ \A v, w \in StringVars : Set(v) /\ Set(w) => ComparedRight(Text(v), Text(w))

=============================================================================
