---------------------------- MODULE SequenceFacts ----------------------------
(***************************************************************************)
(* Facts about numbers and sequences that the proofs of several components *)
(* use: induction over the numbers, and what the community modules'        *)
(* FlattenSeq, a recursively defined function, returns.                    *)
(*                                                                         *)
(* Induction is stated with a set of numbers in the place of a predicate,  *)
(* so that a use of it instantiates no operator.  It rests on the          *)
(* library's theorem that < is well-founded on Nat.                        *)
(***************************************************************************)
EXTENDS Integers, SequencesExt, SequenceTheorems, WellFoundedInduction, TLAPS

(* A non-empty set of numbers has a least element. *)
LEMMA LeastNumber ==
    ASSUME NEW S, S \subseteq Nat, S # {}
    PROVE  \E n \in S : \A m \in S : n <= m
<1>1. PICK n \in S : \A m \in S : ~(<<m, n>> \in OpToRel(<, Nat))
  BY NatLessThanWellFounded, WFMin
<1>2. ASSUME NEW m \in S PROVE n <= m
  <2>1. ~(<<m, n>> \in OpToRel(<, Nat))
    BY <1>1
  <2>2. <<m, n>> \in Nat \X Nat
    BY <1>1
  <2>3. ~(m < n)
    BY <2>1, <2>2 DEF OpToRel
  <2> QED
    BY <2>3
<1> QED
  BY <1>1, <1>2

(* Induction over the numbers up to N, for membership in a set. *)
LEMMA Induction ==
    ASSUME NEW N \in Nat, NEW G,
           \A n \in 1..N : (n = 1 \/ n - 1 \in G) => n \in G
    PROVE  \A n \in 1..N : n \in G
<1> DEFINE Bad == {n \in 1..N : n \notin G}
<1> SUFFICES ASSUME Bad # {} PROVE FALSE
  OBVIOUS
<1>1. PICK n \in Bad : \A m \in Bad : n <= m
  <2>1. Bad \subseteq Nat
    OBVIOUS
  <2> HIDE DEF Bad
  <2> QED
    BY <2>1, LeastNumber
<1>2. n \in 1..N /\ n \notin G
  BY <1>1
<1>3. n # 1 /\ n - 1 \notin G
  BY <1>2
<1>4. n - 1 \in 1..N
  BY <1>2, <1>3
<1>5. n - 1 \in Bad
  BY <1>3, <1>4
<1> QED
  BY <1>1, <1>2, <1>5

(* Joining sequences over S gives one, and the empty one changes nothing. *)
LEMMA JoinType ==
    ASSUME NEW S, NEW a \in Seq(S), NEW b \in Seq(S)
    PROVE  a \o b \in Seq(S)
  OBVIOUS

LEMMA JoinEmpty ==
    ASSUME NEW S, NEW a \in Seq(S)
    PROVE  a \o <<>> = a /\ <<>> \o a = a
  OBVIOUS

LEMMA JoinTwo ==
    ASSUME NEW a, NEW b
    PROVE  <<a>> \o <<b>> = <<a, b>>
<1> DEFINE S == {a, b}
<1>1. <<a>> \in Seq(S) /\ <<b>> \in Seq(S) /\ <<a, b>> \in Seq(S)
  OBVIOUS
<1>2. ASSUME NEW s \in Seq(S), NEW t \in Seq(S), NEW u \in Seq(S),
             Len(s) = 1, Len(t) = 1, Len(u) = 2, u[1] = s[1], u[2] = t[1]
      PROVE  s \o t = u
  <2> HIDE DEF S
  <2> DEFINE r == s \o t
  <2>1. /\ r \in Seq(S) /\ Len(r) = Len(s) + Len(t)
        /\ \A i \in 1 .. Len(s) + Len(t) : r[i] = IF i <= Len(s) THEN s[i] ELSE t[i - Len(s)]
    BY ConcatProperties, Zenon
  <2> HIDE DEF r
  <2>2. Len(r) = 2 /\ r[1] = s[1] /\ r[2] = t[1]
    BY <1>2, <2>1
  <2>3. r = u
    BY <1>2, <2>1, <2>2, SeqEqual
  <2> QED
    BY <2>3 DEF r
<1>3. Len(<<a>>) = 1 /\ Len(<<b>>) = 1 /\ Len(<<a, b>>) = 2
  OBVIOUS
<1>4. <<a, b>>[1] = <<a>>[1] /\ <<a, b>>[2] = <<b>>[1]
  OBVIOUS
<1> HIDE DEF S
<1> QED
  BY <1>1, <1>2, <1>3, <1>4, Zenon

(* f joins the sequences of ss from the first on. *)
Joins(f, ss) == f = [i \in 1..Len(ss) |-> IF i = 1 THEN ss[i] ELSE f[i - 1] \o ss[i]]

(* The function that FlattenSeq chooses exists. *)
LEMMA JoinsExist ==
    ASSUME NEW S, NEW ss \in Seq(Seq(S)), ss # <<>>
    PROVE  \E f : Joins(f, ss)
<1> DEFINE P(n) == \E f : f = [i \in 1..n |-> IF i = 1 THEN ss[i] ELSE f[i - 1] \o ss[i]]
           Bad == {n \in Nat : n >= 1 /\ ~P(n)}
<1>1. Bad = {}
  <2> SUFFICES ASSUME Bad # {} PROVE FALSE
    OBVIOUS
  <2>1. PICK n \in Bad : \A m \in Bad : n <= m
    <3> HIDE DEF Bad, P
    <3>1. Bad \subseteq Nat
      BY DEF Bad
    <3> QED
      BY <3>1, LeastNumber
  <2>2. CASE n = 1
    <3> DEFINE f == [i \in 1..1 |-> ss[1]]
    <3>1. f = [i \in 1..1 |-> IF i = 1 THEN ss[i] ELSE f[i - 1] \o ss[i]]
      OBVIOUS
    <3>2. P(1)
      BY <3>1
    <3> HIDE DEF P
    <3> QED
      BY <2>1, <2>2, <3>2 DEF Bad
  <2>3. CASE n # 1
    <3>1. n - 1 \in Nat /\ n - 1 >= 1 /\ n \in Nat
      BY <2>1, <2>3
    <3>2. P(n - 1)
      <4> HIDE DEF P
      <4> QED
        BY <2>1, <3>1 DEF Bad
    <3>3. PICK g : g = [i \in 1..(n - 1) |-> IF i = 1 THEN ss[i] ELSE g[i - 1] \o ss[i]]
      BY <3>2
    <3> DEFINE f == [i \in 1..n |-> IF i = n THEN g[n - 1] \o ss[n] ELSE g[i]]
    <3>4. ASSUME NEW i \in 1..n
          PROVE  f[i] = IF i = 1 THEN ss[i] ELSE f[i - 1] \o ss[i]
      <4>1. CASE i = n
        <5>1. n - 1 \in 1..n /\ n - 1 # n /\ n # 1 /\ n \in 1..n
          BY <3>1, <2>3
        <5>2. f[n] = g[n - 1] \o ss[n] /\ f[n - 1] = g[n - 1]
          BY <5>1
        <5> QED
          BY <4>1, <5>1, <5>2
      <4>2. CASE i # n /\ i = 1
        BY <3>1, <3>3, <4>2
      <4>3. CASE i # n /\ i # 1
        <5>1. i \in 1..(n - 1) /\ i - 1 \in 1..(n - 1) /\ i - 1 # n /\ i - 1 \in 1..n
          BY <3>1, <4>3
        <5>2. f[i] = g[i] /\ f[i - 1] = g[i - 1]
          BY <4>3, <5>1
        <5>3. g[i] = g[i - 1] \o ss[i]
          BY <3>3, <4>3, <5>1
        <5> QED
          BY <4>3, <5>2, <5>3
      <4> QED
        BY <4>1, <4>2, <4>3
    <3>5. f = [i \in 1..n |-> IF i = 1 THEN ss[i] ELSE f[i - 1] \o ss[i]]
      <4> HIDE DEF f
      <4>1. DOMAIN f = 1..n /\ f = [i \in 1..n |-> f[i]]
        BY DEF f
      <4> QED
        BY <3>4, <4>1
    <3>6. P(n)
      <4> HIDE DEF f
      <4> QED
        BY <3>5
    <3> HIDE DEF P
    <3> QED
      BY <2>1, <3>6 DEF Bad
  <2> QED
    BY <2>2, <2>3
<1>2. Len(ss) \in Nat /\ Len(ss) >= 1
  OBVIOUS
<1>3. P(Len(ss))
  <2> HIDE DEF P
  <2> QED
    BY <1>1, <1>2 DEF Bad
<1> QED
  BY <1>3 DEF Joins

(* What FlattenSeq returns. *)
LEMMA FlattenJoins ==
    ASSUME NEW S, NEW ss \in Seq(Seq(S)), ss # <<>>
    PROVE  \E f : Joins(f, ss) /\ FlattenSeq(ss) = f[Len(ss)]
<1> DEFINE f == CHOOSE g : Joins(g, ss)
<1>1. Joins(f, ss)
  BY JoinsExist
<1>2. FlattenSeq(ss) = f[Len(ss)]
  BY DEF FlattenSeq, Joins
<1> QED
  BY <1>1, <1>2

(* Its value at one place. *)
LEMMA JoinsAt ==
    ASSUME NEW ss, NEW f, Joins(f, ss), NEW i \in 1..Len(ss)
    PROVE  f[i] = IF i = 1 THEN ss[i] ELSE f[i - 1] \o ss[i]
<1> DEFINE e(k) == IF k = 1 THEN ss[k] ELSE f[k - 1] \o ss[k]
<1>1. f = [k \in 1..Len(ss) |-> e(k)]
  BY DEF Joins
<1>2. f[i] = e(i)
  <2> HIDE DEF e
  <2> QED
    BY <1>1
<1> QED
  BY <1>2

(* Its values are sequences over S. *)
LEMMA JoinsType ==
    ASSUME NEW S, NEW ss \in Seq(Seq(S)), NEW f, Joins(f, ss)
    PROVE  \A i \in 1..Len(ss) : f[i] \in Seq(S)
<1> DEFINE G == {i \in 1..Len(ss) : f[i] \in Seq(S)}
<1>1. ASSUME NEW n \in 1..Len(ss), n = 1 \/ n - 1 \in G PROVE n \in G
  <2>1. f[n] = IF n = 1 THEN ss[n] ELSE f[n - 1] \o ss[n]
    BY JoinsAt
  <2>2. ss[n] \in Seq(S)
    OBVIOUS
  <2>3. f[n] \in Seq(S)
    <3>1. CASE n = 1
      BY <2>1, <2>2, <3>1
    <3>2. CASE n # 1
      <4>1. f[n - 1] \in Seq(S)
        BY <1>1, <3>2
      <4>2. f[n - 1] \o ss[n] \in Seq(S)
        BY <2>2, <4>1, JoinType
      <4> QED
        BY <2>1, <3>2, <4>2
    <3> QED
      BY <3>1, <3>2
  <2> QED
    BY <2>3
<1>2. Len(ss) \in Nat
  OBVIOUS
<1>3. \A n \in 1..Len(ss) : n \in G
  <2> HIDE DEF G
  <2> QED
    BY <1>1, <1>2, Induction
<1> QED
  BY <1>3

(* A sequence with one more element is joined to the same up to there. *)
LEMMA JoinsAgree ==
    ASSUME NEW S, NEW ss \in Seq(Seq(S)), NEW t \in Seq(S),
           NEW f, Joins(f, ss), NEW g, Joins(g, Append(ss, t))
    PROVE  \A i \in 1..Len(ss) : f[i] = g[i]
<1> DEFINE tt == Append(ss, t)
           G == {i \in 1..Len(ss) : f[i] = g[i]}
<1>1. /\ tt \in Seq(Seq(S)) /\ Len(ss) \in Nat /\ Len(tt) = Len(ss) + 1
      /\ \A i \in 1..Len(ss) : tt[i] = ss[i]
  OBVIOUS
<1>2. Joins(g, tt)
  OBVIOUS
<1> HIDE DEF tt
<1>3. ASSUME NEW n \in 1..Len(ss), n = 1 \/ n - 1 \in G PROVE n \in G
  <2>1. n \in 1..Len(tt)
    BY <1>1
  <2>2. f[n] = IF n = 1 THEN ss[n] ELSE f[n - 1] \o ss[n]
    BY JoinsAt
  <2>3. g[n] = IF n = 1 THEN tt[n] ELSE g[n - 1] \o tt[n]
    BY <1>2, <2>1, JoinsAt
  <2>4. tt[n] = ss[n]
    BY <1>1
  <2>5. n # 1 => f[n - 1] = g[n - 1]
    BY <1>3
  <2> QED
    BY <2>2, <2>3, <2>4, <2>5
<1>4. \A n \in 1..Len(ss) : n \in G
  <2> HIDE DEF G
  <2> QED
    BY <1>1, <1>3, Induction
<1> QED
  BY <1>4

(* What is joined first stays in front. *)
StartsWith(t, s) == Len(s) <= Len(t) /\ \A k \in 1..Len(s) : t[k] = s[k]

LEMMA JoinsPrefix ==
    ASSUME NEW S, NEW ss \in Seq(Seq(S)), NEW f, Joins(f, ss), NEW i \in 1..Len(ss)
    PROVE  \A n \in 1..Len(ss) : i <= n => StartsWith(f[n], f[i])
<1> DEFINE G == {n \in 1..Len(ss) : i <= n => StartsWith(f[n], f[i])}
<1>1. ASSUME NEW n \in 1..Len(ss), n = 1 \/ n - 1 \in G PROVE n \in G
  <2> SUFFICES ASSUME i <= n PROVE StartsWith(f[n], f[i])
    OBVIOUS
  <2>1. f[n] \in Seq(S) /\ f[i] \in Seq(S)
    BY JoinsType
  <2>2. CASE i = n
    BY <2>1, <2>2 DEF StartsWith
  <2>3. CASE i # n
    <3>1. n # 1 /\ n - 1 \in 1..Len(ss) /\ i <= n - 1
      BY <2>3
    <3>2. StartsWith(f[n - 1], f[i])
      BY <1>1, <3>1
    <3>3. f[n] = f[n - 1] \o ss[n]
      BY <3>1, JoinsAt
    <3>4. f[n - 1] \in Seq(S) /\ ss[n] \in Seq(S)
      BY <3>1, JoinsType
    <3>5. StartsWith(f[n - 1] \o ss[n], f[n - 1])
      <4>1. ASSUME NEW a \in Seq(S), NEW b \in Seq(S) PROVE StartsWith(a \o b, a)
        BY DEF StartsWith
      <4> QED
        BY <3>4, <4>1, Zenon
    <3>6. StartsWith(f[n], f[n - 1])
      BY <3>3, <3>5
    <3> QED
      BY <2>1, <3>2, <3>4, <3>6 DEF StartsWith
  <2> QED
    BY <2>2, <2>3
<1>2. Len(ss) \in Nat
  OBVIOUS
<1>3. \A n \in 1..Len(ss) : n \in G
  <2> HIDE DEF G
  <2> QED
    BY <1>1, <1>2, Induction
<1> QED
  BY <1>3

(* A sequence of sequences over S is flattened to a sequence over S. *)
LEMMA FlattenType ==
    ASSUME NEW S, NEW ss \in Seq(Seq(S))
    PROVE  FlattenSeq(ss) \in Seq(S)
<1>1. CASE ss = <<>>
  BY <1>1 DEF FlattenSeq
<1>2. CASE ss # <<>>
  <2>1. Len(ss) \in 1..Len(ss)
    BY <1>2
  <2> QED
    BY <1>2, <2>1, FlattenJoins, JoinsType
<1> QED
  BY <1>1, <1>2

(* One more element is joined at the end. *)
LEMMA FlattenAppend ==
    ASSUME NEW S, NEW ss \in Seq(Seq(S)), NEW t \in Seq(S)
    PROVE  FlattenSeq(Append(ss, t)) = FlattenSeq(ss) \o t
<1> DEFINE tt == Append(ss, t)
<1>1. tt \in Seq(Seq(S)) /\ Len(ss) \in Nat /\ Len(tt) = Len(ss) + 1
  OBVIOUS
<1>2. tt[Len(ss) + 1] = t
  OBVIOUS
<1> HIDE DEF tt
<1>4. tt # <<>>
  BY <1>1
<1>5. PICK g : Joins(g, tt) /\ FlattenSeq(tt) = g[Len(tt)]
  BY <1>1, <1>4, FlattenJoins
<1>6. g[Len(tt)] = IF Len(tt) = 1 THEN tt[Len(tt)] ELSE g[Len(tt) - 1] \o tt[Len(tt)]
  BY <1>1, <1>5, JoinsAt
<1>7. CASE ss = <<>>
  <2>1. FlattenSeq(ss) = <<>>
    BY <1>7 DEF FlattenSeq
  <2>2. FlattenSeq(tt) = t
    <3>1. Len(ss) = 0
      BY <1>7
    <3> QED
      BY <1>1, <1>2, <1>5, <1>6, <3>1
  <2>3. <<>> \o t = t
    BY JoinEmpty
  <2> QED
    BY <2>1, <2>2, <2>3 DEF tt
<1>8. CASE ss # <<>>
  <2>1. PICK f : Joins(f, ss) /\ FlattenSeq(ss) = f[Len(ss)]
    BY <1>8, FlattenJoins
  <2>2. Len(ss) \in 1..Len(ss) /\ Len(tt) # 1 /\ Len(tt) - 1 = Len(ss)
    BY <1>1, <1>8
  <2>3. f[Len(ss)] = g[Len(ss)]
    <3>1. Joins(f, ss) /\ Joins(g, Append(ss, t))
      BY <1>5, <2>1 DEF tt
    <3> QED
      BY <2>2, <3>1, JoinsAgree
  <2> QED
    BY <1>1, <1>2, <1>5, <1>6, <2>1, <2>2, <2>3 DEF tt
<1> QED
  BY <1>7, <1>8

(* The first element is joined at the front. *)
LEMMA FlattenHead ==
    ASSUME NEW S, NEW ss \in Seq(Seq(S)), ss # <<>>
    PROVE  FlattenSeq(ss) = Head(ss) \o FlattenSeq(Tail(ss))
<1> DEFINE tt == Tail(ss)
<1>1. /\ tt \in Seq(Seq(S)) /\ Len(ss) \in Nat /\ Len(tt) \in Nat /\ Len(ss) = Len(tt) + 1
      /\ ss[1] \in Seq(S) /\ Head(ss) = ss[1]
  OBVIOUS
<1>2. \A i \in 1..Len(tt) : tt[i] = ss[i + 1] /\ tt[i] \in Seq(S)
  OBVIOUS
<1> HIDE DEF tt
<1>3. PICK f : Joins(f, ss) /\ FlattenSeq(ss) = f[Len(ss)]
  BY FlattenJoins
<1>4. f[1] = ss[1]
  BY <1>1, <1>3, JoinsAt
<1>5. CASE tt = <<>>
  <2>1. FlattenSeq(tt) = <<>>
    BY <1>5 DEF FlattenSeq
  <2>2. Len(ss) = 1
    <3>1. Len(tt) = 0
      BY <1>5
    <3> QED
      BY <1>1, <3>1
  <2>3. FlattenSeq(ss) = Head(ss)
    BY <1>1, <1>3, <1>4, <2>2
  <2>4. Head(ss) \o <<>> = Head(ss)
    BY <1>1, JoinEmpty
  <2> QED
    BY <2>1, <2>3, <2>4 DEF tt
<1>6. CASE tt # <<>>
  <2>1. PICK g : Joins(g, tt) /\ FlattenSeq(tt) = g[Len(tt)]
    BY <1>1, <1>6, FlattenJoins
  <2> DEFINE G == {n \in 1..Len(tt) : f[n + 1] = ss[1] \o g[n]}
  <2>2. ASSUME NEW n \in 1..Len(tt), n = 1 \/ n - 1 \in G PROVE n \in G
    <3>1. n \in Nat /\ n + 1 \in 1..Len(ss) /\ n + 1 # 1 /\ (n + 1) - 1 = n
      BY <1>1
    <3>2. f[n + 1] = f[n] \o ss[n + 1]
      <4>1. \A m \in 1..Len(ss) : f[m] = IF m = 1 THEN ss[m] ELSE f[m - 1] \o ss[m]
        BY <1>3, JoinsAt
      <4>2. f[n + 1] = f[(n + 1) - 1] \o ss[n + 1]
        BY <3>1, <4>1
      <4> QED
        BY <3>1, <4>2
    <3>3. tt[n] = ss[n + 1] /\ tt[n] \in Seq(S)
      BY <1>2
    <3>4. g[n] = IF n = 1 THEN tt[n] ELSE g[n - 1] \o tt[n]
      BY <2>1, JoinsAt
    <3>5. CASE n = 1
      BY <1>4, <3>2, <3>3, <3>4, <3>5
    <3>6. CASE n # 1
      <4>1. n - 1 \in 1..Len(tt) /\ f[(n - 1) + 1] = ss[1] \o g[n - 1]
        BY <2>2, <3>6
      <4>5. (n - 1) + 1 = n
        BY <3>1
      <4>2. g[n - 1] \in Seq(S)
        BY <1>1, <2>1, <4>1, JoinsType
      <4>4. ss[1] \in Seq(S) /\ tt[n] \in Seq(S)
        BY <1>1, <3>3
      <4>3. (ss[1] \o g[n - 1]) \o tt[n] = ss[1] \o (g[n - 1] \o tt[n])
        <5>1. ASSUME NEW a \in Seq(S), NEW b \in Seq(S), NEW c \in Seq(S)
              PROVE  (a \o b) \o c = a \o (b \o c)
          OBVIOUS
        <5> QED
          BY <4>2, <4>4, <5>1, Zenon
      <4> QED
        BY <3>2, <3>3, <3>4, <3>6, <4>1, <4>3, <4>5
    <3> QED
      BY <3>5, <3>6
  <2>3. \A n \in 1..Len(tt) : n \in G
    <3> HIDE DEF G
    <3> QED
      BY <1>1, <2>2, Induction
  <2>4. Len(tt) \in 1..Len(tt)
    BY <1>1, <1>6
  <2>5. f[Len(tt) + 1] = ss[1] \o g[Len(tt)]
    BY <2>3, <2>4
  <2> QED
    BY <1>1, <1>3, <2>1, <2>5 DEF tt
<1> QED
  BY <1>5, <1>6
(* Where the elements of each sequence lie in the flattened one. *)
FlatPlaces(ss, es, at) ==
    /\ at \in [1..(Len(ss) + 1) -> Nat \ {0}]
    /\ at[1] = 1 /\ at[Len(ss) + 1] = Len(es) + 1
    /\ \A i \in 1..Len(ss) :
         /\ at[i + 1] = at[i] + Len(ss[i])
         /\ at[i + 1] <= Len(es) + 1
         /\ \A k \in 1..Len(ss[i]) : es[at[i] + k - 1] = ss[i][k]

LEMMA FlattenPlaces ==
    ASSUME NEW S, NEW ss \in Seq(Seq(S))
    PROVE  \E at : FlatPlaces(ss, FlattenSeq(ss), at)
<1>0. Len(ss) \in Nat /\ \A i \in 1..Len(ss) : ss[i] \in Seq(S)
  OBVIOUS
<1>1. CASE ss = <<>>
  <2>1. FlattenSeq(ss) = <<>> /\ Len(ss) = 0
    BY <1>1 DEF FlattenSeq
  <2> DEFINE at == [i \in 1..1 |-> 1]
  <2>2. at \in [1..1 -> Nat \ {0}] /\ at[1] = 1
    OBVIOUS
  <2>3. Len(FlattenSeq(ss)) + 1 = 1 /\ Len(ss) + 1 = 1
    BY <2>1
  <2> HIDE DEF at
  <2>4. FlatPlaces(ss, FlattenSeq(ss), at)
    BY <2>1, <2>2, <2>3 DEF FlatPlaces
  <2> QED
    BY <2>4
<1>2. CASE ss # <<>>
  <2>1. PICK f : Joins(f, ss) /\ FlattenSeq(ss) = f[Len(ss)]
    BY <1>2, FlattenJoins
  <2> DEFINE n == Len(ss)
             at == [i \in 1..(n + 1) |-> IF i = 1 THEN 1 ELSE Len(f[i - 1]) + 1]
             es == FlattenSeq(ss)
  <2>2. n \in Nat /\ n >= 1
    BY <1>2
  <2>3. \A i \in 1..n : f[i] \in Seq(S)
    BY <2>1, JoinsType
  <2>4. \A i \in 1..n : Len(f[i]) \in Nat
    BY <2>3
  <2>5. ASSUME NEW i \in 1..(n + 1) PROVE at[i] \in Nat \ {0} /\ (i # 1 => at[i] = Len(f[i - 1]) + 1)
    <3>1. CASE i = 1
      BY <3>1
    <3>2. CASE i # 1
      <4>1. i - 1 \in 1..n
        BY <2>2, <3>2
      <4> QED
        BY <2>4, <3>2, <4>1
    <3> QED
      BY <3>1, <3>2
  <2>6. at \in [1..(n + 1) -> Nat \ {0}]
    BY <2>5
  <2>7. at[1] = 1 /\ at[n + 1] = Len(es) + 1
    <3>1. 1 \in 1..(n + 1) /\ n + 1 \in 1..(n + 1) /\ n + 1 # 1 /\ (n + 1) - 1 = n
      BY <2>2
    <3> QED
      BY <2>1, <2>5, <3>1
  <2>8. ASSUME NEW i \in 1..n
        PROVE  /\ at[i + 1] = at[i] + Len(ss[i])
               /\ at[i + 1] <= Len(es) + 1
               /\ \A k \in 1..Len(ss[i]) : es[at[i] + k - 1] = ss[i][k]
    <3>1. ss[i] \in Seq(S) /\ f[i] \in Seq(S)
      BY <1>0, <2>3
    <3>2. i + 1 \in 1..(n + 1) /\ i + 1 # 1 /\ (i + 1) - 1 = i /\ i \in 1..(n + 1) /\ n \in 1..n
      BY <2>2
    <3>3. at[i + 1] = Len(f[i]) + 1
      BY <2>5, <3>2
    <3>4. StartsWith(es, f[i])
      BY <2>1, <3>2, JoinsPrefix
    <3>5. f[i] = IF i = 1 THEN ss[i] ELSE f[i - 1] \o ss[i]
      BY <2>1, JoinsAt
    <3>6. /\ Len(f[i]) = at[i] - 1 + Len(ss[i])
          /\ \A k \in 1..Len(ss[i]) : f[i][at[i] + k - 1] = ss[i][k]
      <4>1. CASE i = 1
        <5>1. at[i] = 1
          BY <3>2, <4>1
        <5>2. f[i] = ss[i]
          BY <3>5, <4>1
        <5> HIDE DEF at
        <5>3. \A k \in 1..Len(ss[i]) : 1 + k - 1 = k
          BY <3>1
        <5>4. Len(ss[i]) \in Nat
          BY <3>1
        <5> QED
          BY <5>1, <5>2, <5>3, <5>4
      <4>2. CASE i # 1
        <5>1. i - 1 \in 1..n
          BY <2>2, <4>2
        <5>2. f[i - 1] \in Seq(S)
          BY <2>3, <5>1
        <5>3. PICK a \in Seq(S) : a = f[i - 1]
          BY <5>2
        <5>4. at[i] = Len(a) + 1
          BY <2>5, <3>2, <4>2, <5>3
        <5>5. f[i] = a \o ss[i]
          BY <3>5, <4>2, <5>3
        <5> HIDE DEF at
        <5>6. PICK b \in Seq(S) : b = ss[i]
          BY <3>1
        <5>7. Len(a \o b) = Len(a) + Len(b) /\ \A k \in 1..Len(b) : (a \o b)[Len(a) + k] = b[k]
          OBVIOUS
        <5>8. Len(a) \in Nat /\ Len(b) \in Nat
          OBVIOUS
        <5>9. f[i] = a \o b
          BY <5>5, <5>6
        <5>10. \A k \in 1..Len(b) : at[i] + k - 1 = Len(a) + k
          BY <5>4, <5>8
        <5> QED
          BY <5>4, <5>6, <5>7, <5>8, <5>9, <5>10
      <4> QED
        BY <4>1, <4>2
    <3>7. at[i] \in Nat \ {0} /\ Len(ss[i]) \in Nat
      BY <2>5, <3>1, <3>2
    <3> HIDE DEF at, es
    <3>8. ASSUME NEW k \in 1..Len(ss[i]) PROVE at[i] + k - 1 \in 1..Len(f[i])
      BY <3>6, <3>7
    <3>9. Len(f[i]) <= Len(es) /\ \A k \in 1..Len(f[i]) : es[k] = f[i][k]
      BY <3>4 DEF StartsWith
    <3>10. Len(es) \in Nat /\ Len(f[i]) \in Nat
      <4>1. es \in Seq(S)
        BY <2>1, <2>3, <3>2 DEF es
      <4> QED
        BY <3>1, <4>1
    <3>11. at[i + 1] = at[i] + Len(ss[i]) /\ at[i + 1] <= Len(es) + 1
      BY <3>3, <3>6, <3>7, <3>9, <3>10
    <3>12. ASSUME NEW k \in 1..Len(ss[i]) PROVE es[at[i] + k - 1] = ss[i][k]
      BY <3>6, <3>8, <3>9
    <3> QED
      BY <3>11, <3>12
  <2> HIDE DEF at
  <2>9. FlatPlaces(ss, es, at)
    BY <2>6, <2>7, <2>8 DEF FlatPlaces
  <2> QED
    BY <2>9
<1> QED
  BY <1>1, <1>2

(* A single sequence is flattened to itself. *)
LEMMA FlattenOne ==
    ASSUME NEW S, NEW t \in Seq(S)
    PROVE  FlattenSeq(<<t>>) = t
<1> DEFINE ss == <<t>>
<1>1. ss \in Seq(Seq(S)) /\ Len(ss) = 1 /\ ss[1] = t /\ ss # <<>>
  OBVIOUS
<1> HIDE DEF ss
<1>2. PICK f : Joins(f, ss) /\ FlattenSeq(ss) = f[Len(ss)]
  BY <1>1, FlattenJoins
<1>3. 1 \in 1..Len(ss)
  BY <1>1
<1>4. f[1] = ss[1]
  BY <1>2, <1>3, JoinsAt
<1>5. FlattenSeq(ss) = t
  BY <1>1, <1>2, <1>4
<1> QED
  BY <1>5 DEF ss

(* A function defined from its greater arguments: at i it is v[i], or what *)
(* it is at nx[i], with pre[i] in front unless that is kept as it is.      *)
Stride(f, nx, v, kept, pre, i) ==
    IF nx[i] = 0 THEN v[i] ELSE IF kept[i] THEN f[nx[i]] ELSE pre[i] \o f[nx[i]]

Strides(f, N, nx, v, kept, pre) == f = [i \in 1..N |-> Stride(f, nx, v, kept, pre, i)]

(* There is such a function when each argument leads to a greater one. *)
LEMMA StridesExist ==
    ASSUME NEW N \in Nat, NEW nx \in [1..N -> 0..N], \A i \in 1..N : nx[i] = 0 \/ nx[i] > i,
           NEW v, NEW kept, NEW pre
    PROVE  \E f : Strides(f, N, nx, v, kept, pre)
<1> DEFINE Right(f, n) == /\ f = [i \in 1..N |-> f[i]]
                          /\ \A i \in 1..N : n <= i => f[i] = Stride(f, nx, v, kept, pre, i)
           G == {m \in 1..(N + 1) : \E f : Right(f, N + 2 - m)}
<1>1. ASSUME NEW m \in 1..(N + 1), m = 1 \/ m - 1 \in G PROVE m \in G
  <2>1. CASE m = 1
    <3> DEFINE f == [i \in 1..N |-> 0]
    <3>1. f = [i \in 1..N |-> f[i]]
      OBVIOUS
    <3>2. \A i \in 1..N : ~((N + 2) - m <= i)
      BY <2>1
    <3>3. Right(f, N + 2 - m)
      BY <3>1, <3>2
    <3> HIDE DEF Right, f
    <3> QED
      BY <3>3
  <2>2. CASE m # 1
    <3>1. m - 1 \in 1..(N + 1) /\ \E f : Right(f, N + 2 - (m - 1))
      <4> HIDE DEF Right
      <4> QED
        BY <1>1, <2>2
    <3> DEFINE n == N + 2 - m
    <3>2. n \in 1..N /\ N + 2 - (m - 1) = n + 1
      BY <2>2
    <3>3. PICK g : Right(g, n + 1)
      <4> HIDE DEF Right, n
      <4> QED
        BY <3>1, <3>2
    <3> HIDE DEF n
    <3> DEFINE f == [i \in 1..N |-> IF i = n THEN Stride(g, nx, v, kept, pre, n) ELSE g[i]]
    <3>4. ASSUME NEW i \in 1..N, n <= i PROVE f[i] = Stride(f, nx, v, kept, pre, i)
      <4>1. nx[i] = 0 \/ (nx[i] \in 1..N /\ nx[i] # n)
        BY <3>2, <3>4
      <4>2. nx[i] # 0 => f[nx[i]] = g[nx[i]]
        BY <4>1
      <4>3. Stride(f, nx, v, kept, pre, i) = Stride(g, nx, v, kept, pre, i)
        BY <4>2 DEF Stride
      <4>4. CASE i = n
        BY <4>3, <4>4
      <4>5. CASE i # n
        <5>1. n + 1 <= i
          BY <3>2, <3>4, <4>5
        <5>2. f[i] = g[i]
          BY <4>5
        <5> QED
          BY <3>3, <4>3, <5>1, <5>2
      <4> QED
        BY <4>4, <4>5
    <3>5. f = [i \in 1..N |-> f[i]]
      OBVIOUS
    <3> HIDE DEF f
    <3>6. Right(f, n)
      BY <3>4, <3>5
    <3> HIDE DEF Right
    <3> QED
      BY <3>6 DEF n
  <2> QED
    BY <2>1, <2>2
<1>2. \A m \in 1..(N + 1) : m \in G
  <2> HIDE DEF G
  <2>1. N + 1 \in Nat
    OBVIOUS
  <2> QED
    BY <1>1, <2>1, Induction
<1>3. PICK f : Right(f, N + 2 - (N + 1))
  <2> HIDE DEF Right
  <2>1. N + 1 \in G
    BY <1>2
  <2> QED
    BY <2>1
<1>4. \A i \in 1..N : f[i] = Stride(f, nx, v, kept, pre, i)
  BY <1>3
<1>5. f = [i \in 1..N |-> Stride(f, nx, v, kept, pre, i)]
  <2>1. f = [i \in 1..N |-> f[i]]
    BY <1>3
  <2> QED
    BY <1>4, <2>1
<1> QED
  BY <1>5 DEF Strides
=============================================================================
