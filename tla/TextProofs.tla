---------------------------- MODULE TextProofs ------------------------------
(***************************************************************************)
(* Proofs about ModelTexts, for any streams, cut anywhere, any payloads,   *)
(* any conversation, and any number of rounds and tool calls: that an      *)
(* agent hears what was sent, and sends whole exchanges with the question. *)
(* And about Chunker, for any documents, budgets and overlaps: that chunks *)
(* keep the text and the budget.                                           *)
(*                                                                         *)
(* What the models compute by recursion - sequences put in a row, pieces   *)
(* of calls joined, costs added up, a budget spent, blocks read, parts     *)
(* grouped - is shown to be what its definition says by induction over a   *)
(* set: a set that holds 0 and with each number the next holds all,        *)
(* because the naturals are well ordered. A function that recurs exists    *)
(* because one on 0..n extends to n + 1.                                   *)
(*                                                                         *)
(* Of a stream, text and calls are always those of the lines that have     *)
(* ended, and the buffer is the rest (Decodes): reading c and then d       *)
(* behind what was left of c is reading both at once (EventsMore).  Of the *)
(* messages, every list that is sent begins with the instructions and is   *)
(* made of whole exchanges (Begun, Whole); cutting such a list to a budget *)
(* yields another (BoundedWhole), within the budget (BoundedCost), and     *)
(* with the question (BoundedAsks).                                        *)
(*                                                                         *)
(* Of a document, the blocks have its content in its order (ParsedHolds),  *)
(* the pieces of a block have the characters of its data and fit           *)
(* (BlockPiecesAre), and what the chunks hold so far, with the data of the *)
(* blocks to come, is always the data of all blocks (Holding).             *)
(***************************************************************************)
EXTENDS ModelTexts, Chunker, WellFoundedInduction, SequenceTheorems, FiniteSetTheorems, TLAPS

-----------------------------------------------------------------------------
(* Numbers and sequences *)

\* The order of the natural numbers
Less == {pair \in Nat \X Nat : pair[1] < pair[2]}

\* The natural numbers are well ordered.
LEMMA LeastNumber ==
  ASSUME NEW S \in SUBSET Nat, S # {}
  PROVE  \E n \in S : \A m \in S : n <= m
<1>1. IsWellFoundedOn(Less, Nat)
  BY NatLessThanWellFounded DEF OpToRel, Less
<1>2. PICK n \in S : \A m \in S : ~ (<<m, n>> \in Less)
  BY <1>1, WFMin
<1>3. \A m \in S : ~ (m < n)
  BY <1>2 DEF Less
<1>4. QED
  BY <1>3

\* Induction: a set that holds 0 and with each number the next holds them all.
LEMMA Induct ==
  ASSUME NEW S, 0 \in S, \A n \in Nat : n \in S => n + 1 \in S
  PROVE  Nat \subseteq S
<1> DEFINE missing == {n \in Nat : n \notin S}
<1>1. SUFFICES ASSUME missing # {} PROVE FALSE
  OBVIOUS
<1>2. PICK n \in missing : \A m \in missing : n <= m
  BY <1>1, LeastNumber
<1>3. n # 0 /\ n - 1 \in Nat
  BY <1>2
<1>4. n - 1 \in S
  BY <1>2, <1>3
<1>5. QED
  BY <1>3, <1>4

\* What the parts of two sequences in a row are.
LEMMA Concat ==
  ASSUME NEW T, NEW u \in Seq(T), NEW v \in Seq(T)
  PROVE  /\ u \o v \in Seq(T) /\ Len(u \o v) = Len(u) + Len(v)
         /\ \A i \in 1..Len(u) : (u \o v)[i] = u[i]
         /\ \A j \in 1..Len(v) : (u \o v)[Len(u) + j] = v[j]
OBVIOUS

-----------------------------------------------------------------------------
(* FlattenSeq *)

\* f[n] is what the first n sequences of s are, one after the other.
Flattens(f, s) ==
  /\ f[0] = <<>>
  /\ \A i \in 1..Len(s) : f[i] = f[i - 1] \o s[i]

\* The recursive definition of FlattenSeq defines a function.
LEMMA FlattenExists ==
  ASSUME NEW s, NEW n \in Nat
  PROVE  \E f : f = [i \in 1..n |-> IF i = 1 THEN s[i] ELSE f[i - 1] \o s[i]]
<1> DEFINE Is(f, k) == f = [i \in 1..k |-> IF i = 1 THEN s[i] ELSE f[i - 1] \o s[i]]
           S == {k \in Nat : \E f : Is(f, k)}
<1>1. 0 \in S
  <2>1. Is(<<>>, 0)
    OBVIOUS
  <2>2. QED
    BY <2>1
<1>2. ASSUME NEW k \in Nat, k \in S
      PROVE  k + 1 \in S
  <2>1. PICK f : Is(f, k)
    BY <1>2
  <2> DEFINE g == [i \in 1..(k + 1) |->
                     IF i = k + 1 THEN IF i = 1 THEN s[i] ELSE f[k] \o s[i] ELSE f[i]]
  <2>2. ASSUME NEW i \in 1..(k + 1)
        PROVE  g[i] = IF i = 1 THEN s[i] ELSE g[i - 1] \o s[i]
    <3>1. CASE i = k + 1
      BY <3>1
    <3>2. CASE i # k + 1
      <4>1. i \in 1..k /\ g[i] = f[i]
        BY <3>2
      <4>2. f[i] = IF i = 1 THEN s[i] ELSE f[i - 1] \o s[i]
        BY <2>1, <4>1
      <4>3. i # 1 => g[i - 1] = f[i - 1]
        BY <4>1
      <4>4. QED
        BY <4>1, <4>2, <4>3
    <3>3. QED
      BY <3>1, <3>2
  <2>3. Is(g, k + 1)
    BY <2>2
  <2> HIDE DEF Is, g
  <2>4. QED
    BY <2>3
<1> HIDE DEF S
<1>3. n \in S
  BY <1>1, <1>2, Induct
<1>4. QED
  BY <1>3 DEF S

\* FlattenSeq puts the sequences of s in a row, one after the other.
LEMMA Flattened ==
  ASSUME NEW T, NEW s \in Seq(Seq(T))
  PROVE  \E f \in [0..Len(s) -> Seq(T)] : Flattens(f, s) /\ FlattenSeq(s) = f[Len(s)]
<1>1. CASE Len(s) = 0
  <2> DEFINE f == [i \in 0..Len(s) |-> <<>>]
  <2>1. f \in [0..Len(s) -> Seq(T)] /\ Flattens(f, s)
    BY <1>1 DEF Flattens
  <2>2. FlattenSeq(s) = s /\ s = <<>>
    BY <1>1 DEF FlattenSeq
  <2>3. QED
    BY <1>1, <2>1, <2>2
<1>2. CASE Len(s) # 0
  <2>1. Len(s) \in Nat /\ \A i \in 1..Len(s) : s[i] \in Seq(T)
    OBVIOUS
  <2> DEFINE F == CHOOSE f : f = [i \in 1..Len(s) |-> IF i = 1 THEN s[i] ELSE f[i - 1] \o s[i]]
  <2>2. F = [i \in 1..Len(s) |-> IF i = 1 THEN s[i] ELSE F[i - 1] \o s[i]]
    BY <2>1, FlattenExists
  <2>3. FlattenSeq(s) = F[Len(s)]
    BY <1>2 DEF FlattenSeq
  <2> HIDE DEF F
  <2>4. \A i \in 1..Len(s) : F[i] = IF i = 1 THEN s[i] ELSE F[i - 1] \o s[i]
    BY <2>2
  <2> DEFINE f == [i \in 0..Len(s) |-> IF i = 0 THEN <<>> ELSE F[i]]
  <2>5. \A i \in 1..Len(s) : f[i] = F[i] /\ (i # 1 => f[i - 1] = F[i - 1])
    BY <2>1
  <2>6. Flattens(f, s)
    <3>1. f[0] = <<>>
      BY <2>1
    <3>2. ASSUME NEW i \in 1..Len(s) PROVE f[i] = f[i - 1] \o s[i]
      <4>1. CASE i = 1
        <5>1. f[i] = s[i] /\ f[i - 1] = <<>>
          BY <2>4, <2>5, <3>1, <4>1
        <5>2. <<>> \o s[i] = s[i]
          BY <2>1, ConcatEmptySeq
        <5> HIDE DEF f
        <5>3. QED
          BY <5>1, <5>2
      <4>2. CASE i # 1
        BY <2>4, <2>5, <4>2
      <4>3. QED
        BY <4>1, <4>2
    <3> HIDE DEF f
    <3>3. QED
      BY <3>1, <3>2 DEF Flattens
  <2>7. \A i \in 0..Len(s) : f[i] \in Seq(T)
    <3> DEFINE S == {k \in Nat : k <= Len(s) => f[k] \in Seq(T)}
    <3>1. 0 \in S
      BY <2>1
    <3>2. ASSUME NEW k \in Nat, k \in S PROVE k + 1 \in S
      <4> HIDE DEF f
      <4>1. SUFFICES ASSUME k + 1 <= Len(s) PROVE f[k + 1] \in Seq(T)
        OBVIOUS
      <4>2. f[k] \in Seq(T) /\ k + 1 \in 1..Len(s) /\ (k + 1) - 1 = k
        BY <2>1, <3>2, <4>1
      <4>3. f[k + 1] = f[k] \o s[k + 1]
        BY <2>6, <4>2 DEF Flattens
      <4>4. QED
        BY <2>1, <4>2, <4>3
    <3> HIDE DEF f, S
    <3>3. Nat \subseteq S
      BY <3>1, <3>2, Induct
    <3>4. QED
      BY <2>1, <3>3 DEF S
  <2>8. f[Len(s)] = F[Len(s)]
    BY <1>2, <2>1
  <2>9. f \in [0..Len(s) -> Seq(T)]
    BY <2>7
  <2> HIDE DEF f
  <2>10. QED
    BY <2>3, <2>6, <2>8, <2>9
<1>3. QED
  BY <1>1, <1>2

\* What flattens s is what FlattenSeq computes.
LEMMA FlattensIs ==
  ASSUME NEW T, NEW s \in Seq(Seq(T)), NEW g, Flattens(g, s)
  PROVE  g[Len(s)] = FlattenSeq(s)
<1>1. PICK f \in [0..Len(s) -> Seq(T)] : Flattens(f, s) /\ FlattenSeq(s) = f[Len(s)]
  BY Flattened
<1> DEFINE S == {k \in Nat : k <= Len(s) => g[k] = f[k]}
<1>2. 0 \in S
  BY <1>1 DEF Flattens
<1>3. ASSUME NEW k \in Nat, k \in S PROVE k + 1 \in S
  <2>1. SUFFICES ASSUME k + 1 <= Len(s) PROVE g[k + 1] = f[k + 1]
    OBVIOUS
  <2>2. g[k] = f[k] /\ k + 1 \in 1..Len(s) /\ (k + 1) - 1 = k
    BY <1>3, <2>1
  <2>3. g[k + 1] = g[k] \o s[k + 1] /\ f[k + 1] = f[k] \o s[k + 1]
    BY <1>1, <2>2 DEF Flattens
  <2>4. QED
    BY <2>2, <2>3
<1> HIDE DEF S
<1>4. Len(s) \in S
  BY <1>2, <1>3, Induct
<1>5. QED
  BY <1>1, <1>4 DEF S

\* It yields a sequence of what they hold.
LEMMA FlattenType ==
  ASSUME NEW T, NEW s \in Seq(Seq(T))
  PROVE  FlattenSeq(s) \in Seq(T)
<1>1. PICK f \in [0..Len(s) -> Seq(T)] : Flattens(f, s) /\ FlattenSeq(s) = f[Len(s)]
  BY Flattened
<1>2. Len(s) \in 0..Len(s)
  OBVIOUS
<1>3. QED
  BY <1>1, <1>2

\* The sequences of two in a row flatten to what both flatten to, in a row.
LEMMA FlattenConcat ==
  ASSUME NEW T, NEW s \in Seq(Seq(T)), NEW t \in Seq(Seq(T))
  PROVE  FlattenSeq(s \o t) = FlattenSeq(s) \o FlattenSeq(t)
<1>1. PICK f \in [0..Len(s) -> Seq(T)] : Flattens(f, s) /\ FlattenSeq(s) = f[Len(s)]
  BY Flattened
<1>2. PICK g \in [0..Len(t) -> Seq(T)] : Flattens(g, t) /\ FlattenSeq(t) = g[Len(t)]
  BY Flattened
<1>3. /\ s \o t \in Seq(Seq(T)) /\ Len(s \o t) = Len(s) + Len(t)
      /\ Len(s) \in Nat /\ Len(t) \in Nat
      /\ \A i \in 1..Len(s) : (s \o t)[i] = s[i]
      /\ \A i \in 1..Len(t) : (s \o t)[Len(s) + i] = t[i] /\ t[i] \in Seq(T)
  OBVIOUS
<1> DEFINE u == s \o t
           h == [i \in 0..(Len(s) + Len(t)) |->
                   IF i <= Len(s) THEN f[i] ELSE f[Len(s)] \o g[i - Len(s)]]
<1>4. h[0] = <<>>
  BY <1>1, <1>3 DEF Flattens
<1>5. ASSUME NEW i \in 1..Len(u)
      PROVE  h[i] = h[i - 1] \o u[i]
  <2>1. CASE i <= Len(s)
    <3>1. i \in 1..Len(s)
      BY <1>3, <2>1
    <3>2. h[i] = f[i] /\ h[i - 1] = f[i - 1] /\ u[i] = s[i]
      BY <1>3, <3>1
    <3>3. f[i] = f[i - 1] \o s[i]
      BY <1>1, <3>1 DEF Flattens
    <3>4. QED
      BY <3>2, <3>3
  <2>2. CASE i > Len(s)
    <3> DEFINE j == i - Len(s)
    <3>1. j \in 1..Len(t) /\ i = Len(s) + j /\ u[i] = t[j] /\ t[j] \in Seq(T)
      BY <1>3, <2>2
    <3>2. g[j] = g[j - 1] \o t[j]
      BY <1>2, <3>1 DEF Flattens
    <3>3. h[i] = f[Len(s)] \o g[j]
      BY <1>3, <2>2
    <3>4. h[i - 1] = f[Len(s)] \o g[j - 1]
      <4>1. CASE j = 1
        <5>1. h[i - 1] = f[Len(s)] /\ g[j - 1] = <<>> /\ f[Len(s)] \in Seq(T)
          BY <1>2, <1>3, <3>1, <4>1 DEF Flattens
        <5>2. QED
          BY <5>1
      <4>2. CASE j # 1
        BY <1>3, <2>2, <3>1, <4>2
      <4>3. QED
        BY <4>1, <4>2
    <3>5. f[Len(s)] \in Seq(T) /\ g[j - 1] \in Seq(T)
      <4>1. Len(s) \in 0..Len(s) /\ j - 1 \in 0..Len(t)
        BY <1>3, <3>1
      <4>2. QED
        BY <1>1, <1>2, <4>1
    <3> HIDE DEF j, h, u
    <3>6. (f[Len(s)] \o g[j - 1]) \o t[j] = f[Len(s)] \o (g[j - 1] \o t[j])
      <4>1. \A a, b, c \in Seq(T) : (a \o b) \o c = a \o (b \o c)
        BY ConcatAssociative
      <4>2. QED
        BY <3>1, <3>5, <4>1, Zenon
    <3>7. QED
      BY <3>1, <3>2, <3>3, <3>4, <3>6
  <2>3. i <= Len(s) \/ i > Len(s)
    BY <1>3
  <2> HIDE DEF h, u
  <2>4. QED
    BY <2>1, <2>2, <2>3, Zenon
<1>6. h[Len(u)] = f[Len(s)] \o g[Len(t)]
  <2>1. CASE Len(t) = 0
    <3>1. h[Len(u)] = f[Len(s)] /\ g[Len(t)] = <<>> /\ f[Len(s)] \in Seq(T)
      BY <1>2, <1>3, <2>1 DEF Flattens
    <3>2. QED
      BY <3>1
  <2>2. CASE Len(t) # 0
    BY <1>3, <2>2
  <2>3. QED
    BY <2>1, <2>2
<1>7. u \in Seq(Seq(T))
  BY <1>3
<1> HIDE DEF h, u
<1>8. Flattens(h, u)
  BY <1>4, <1>5 DEF Flattens
<1>9. h[Len(u)] = FlattenSeq(u)
  BY <1>7, <1>8, FlattensIs
<1>10. QED
  BY <1>1, <1>2, <1>6, <1>9 DEF u

\* Where there is nothing in any, there is nothing in all.
LEMMA FlattenNothing ==
  ASSUME NEW T, NEW s \in Seq(Seq(T)), \A i \in 1..Len(s) : s[i] = <<>>
  PROVE  FlattenSeq(s) = <<>>
<1> DEFINE f == [i \in 0..Len(s) |-> <<>>]
<1>1. Len(s) \in Nat /\ <<>> \o <<>> = <<>>
  OBVIOUS
<1>2. f[0] = <<>> /\ f[Len(s)] = <<>>
  BY <1>1
<1>3. ASSUME NEW i \in 1..Len(s) PROVE f[i] = f[i - 1] \o s[i]
  <2>1. f[i] = <<>> /\ f[i - 1] = <<>> /\ s[i] = <<>>
    BY <1>1
  <2> HIDE DEF f
  <2>2. QED
    BY <1>1, <2>1
<1> HIDE DEF f
<1>4. Flattens(f, s)
  BY <1>2, <1>3 DEF Flattens
<1>5. QED
  BY <1>2, <1>4, FlattensIs

\* One sequence flattens to itself.
LEMMA FlattenOne ==
  ASSUME NEW T, NEW x \in Seq(T)
  PROVE  FlattenSeq(<<x>>) = x
<1> DEFINE f == [i \in 0..1 |-> IF i = 0 THEN <<>> ELSE x]
<1>1. <<x>> \in Seq(Seq(T)) /\ Len(<<x>>) = 1 /\ <<x>>[1] = x
  OBVIOUS
<1>2. Flattens(f, <<x>>) /\ f[1] = x
  BY <1>1 DEF Flattens
<1> HIDE DEF f
<1>3. QED
  BY <1>1, <1>2, FlattensIs

-----------------------------------------------------------------------------
(* Lines *)

\* The last end before position i of a text, or 0
LastEnd(bytes, i) == Max({0} \cup {j \in 1..(i - 1) : bytes[j] = "end"})

\* LastEnd is 0 or an end before i, with none between.
LEMMA LastEndIs ==
  ASSUME NEW bytes, NEW i \in Nat
  PROVE  LET m == LastEnd(bytes, i)
         IN  /\ m \in Nat /\ (m < i \/ m = 0)
             /\ m = 0 \/ (m \in 1..(i - 1) /\ bytes[m] = "end")
             /\ \A j \in 1..(i - 1) : j > m => bytes[j] # "end"
<1> DEFINE E == {0} \cup {j \in 1..(i - 1) : bytes[j] = "end"}
           S == {k \in Nat : \E e \in E : k + e = i}
<1>1. \A e \in E : e \in Nat /\ (e < i \/ e = 0)
  OBVIOUS
<1>2. i \in S
  OBVIOUS
<1>3. PICK k \in S : \A l \in S : k <= l
  <2> HIDE DEF E
  <2>1. S \in SUBSET Nat /\ S # {}
    BY <1>2
  <2> HIDE DEF S
  <2>2. QED
    BY <2>1, LeastNumber
<1>4. PICK m \in E : k + m = i
  OBVIOUS
<1>5. \A e \in E : m >= e
  <2> SUFFICES ASSUME NEW e \in E, e > m PROVE FALSE
    BY <1>1
  <2>1. e < i
    BY <1>1, <1>4
  <2>2. i - e \in S
    BY <1>1, <2>1
  <2>3. QED
    BY <1>1, <1>3, <1>4, <2>2
<1>6. \E e \in E : \A f \in E : e >= f
  BY <1>5
<1>7. Max(E) \in E /\ \A f \in E : Max(E) >= f
  <2> HIDE DEF E
  <2>1. QED
    BY <1>6 DEF Max
<1>8. LastEnd(bytes, i) = Max(E)
  BY DEF LastEnd
<1> DEFINE top == Max(E)
<1>9. \A j \in 1..(i - 1) : bytes[j] = "end" => top >= j
  BY <1>7
<1>10. /\ top \in Nat /\ (top < i \/ top = 0)
       /\ top = 0 \/ (top \in 1..(i - 1) /\ bytes[top] = "end")
  BY <1>1, <1>7
<1> HIDE DEF top, E
<1>11. \A j \in 1..(i - 1) : j > top => bytes[j] # "end"
  BY <1>9, <1>10
<1>12. QED
  BY <1>8, <1>10, <1>11 DEF top

\* There is but one such position.
LEMMA LastEndOnly ==
  ASSUME NEW bytes, NEW i \in Nat \ {0}, NEW m \in 0..(i - 1),
         m = 0 \/ bytes[m] = "end",
         \A j \in 1..(i - 1) : j > m => bytes[j] # "end"
  PROVE  LastEnd(bytes, i) = m
<1> DEFINE n == LastEnd(bytes, i)
<1>1. /\ n \in Nat
      /\ n = 0 \/ (n \in 1..(i - 1) /\ bytes[n] = "end")
      /\ \A j \in 1..(i - 1) : j > n => bytes[j] # "end"
  BY LastEndIs
<1> HIDE DEF n
<1>2. n = m
  BY <1>1
<1>3. QED
  BY <1>2 DEF n

\* A line is what follows the last end.
LEMMA LineIs ==
  \A bytes, i : LineAt(bytes, i) = SubSeq(bytes, LastEnd(bytes, i) + 1, i - 1)
BY DEF LineAt, LastEnd

\* The lines of what came first stay what they are when more comes.
LEMMA LineFirst ==
  ASSUME NEW B, NEW p \in Seq(B), NEW w \in Seq(B), NEW i \in 1..(Len(p) + 1)
  PROVE  LineAt(p \o w, i) = LineAt(p, i)
<1> DEFINE c == p \o w
           m == LastEnd(p, i)
<1>1. \A j \in 1..(i - 1) : c[j] = p[j]
  OBVIOUS
<1>2. /\ m \in 0..(i - 1)
      /\ m = 0 \/ (m \in 1..(i - 1) /\ p[m] = "end")
      /\ \A j \in 1..(i - 1) : j > m => p[j] # "end"
  BY LastEndIs
<1> HIDE DEF m, c
<1>3. m = 0 \/ c[m] = "end"
  BY <1>1, <1>2
<1>4. \A j \in 1..(i - 1) : j > m => c[j] # "end"
  BY <1>1, <1>2
<1>5. LastEnd(c, i) = m
  BY <1>2, <1>3, <1>4, LastEndOnly
<1>6. SubSeq(c, m + 1, i - 1) = SubSeq(p, m + 1, i - 1)
  BY <1>2 DEF c
<1>7. QED
  BY <1>5, <1>6, LineIs DEF c, m

\* Behind an end, lines are those of what follows it.
LEMMA LineShift ==
  ASSUME NEW B, NEW p \in Seq(B), NEW w \in Seq(B),
         p = <<>> \/ p[Len(p)] = "end",
         NEW k \in 1..(Len(w) + 1)
  PROVE  LineAt(p \o w, Len(p) + k) = LineAt(w, k)
<1> DEFINE c == p \o w
           n == LastEnd(w, k)
           l == Len(p)
<1>1. /\ l \in Nat /\ Len(w) \in Nat /\ c \in Seq(B) /\ Len(c) = l + Len(w)
      /\ \A j \in 1..l : c[j] = p[j]
      /\ \A j \in 1..Len(w) : c[l + j] = w[j]
  OBVIOUS
<1>2. /\ n \in 0..(k - 1)
      /\ n = 0 \/ (n \in 1..(k - 1) /\ w[n] = "end")
      /\ \A j \in 1..(k - 1) : j > n => w[j] # "end"
  BY LastEndIs
<1>3. l = 0 \/ (l \in 1..l /\ p[l] = "end")
  BY <1>1
<1> HIDE DEF n, c, l
<1>4. PICK i \in Nat, m \in Nat : i = l + k /\ m = l + n
  BY <1>1, <1>2
<1>5. i # 0 /\ m \in 0..(i - 1)
  BY <1>1, <1>2, <1>4
<1>6. m = 0 \/ c[m] = "end"
  <2>1. CASE n = 0
    BY <1>1, <1>3, <1>4, <2>1
  <2>2. CASE n # 0
    <3>1. n \in 1..Len(w)
      BY <1>2, <2>2
    <3>2. QED
      BY <1>1, <1>2, <1>4, <2>2, <3>1
  <2>3. QED
    BY <2>1, <2>2
<1>7. ASSUME NEW j \in 1..(i - 1), j > m
      PROVE  c[j] # "end"
  <2>1. j - l \in 1..(k - 1) /\ j - l > n /\ j - l \in 1..Len(w) /\ j = l + (j - l)
    BY <1>1, <1>2, <1>4, <1>7
  <2>2. c[j] = w[j - l]
    BY <1>1, <2>1
  <2>3. QED
    BY <1>2, <2>1, <2>2
<1>8. LastEnd(c, i) = m
  BY <1>5, <1>6, <1>7, LastEndOnly
<1>9. SubSeq(c, m + 1, i - 1) = SubSeq(w, n + 1, k - 1)
  <2> DEFINE a == SubSeq(c, m + 1, i - 1)
             b == SubSeq(w, n + 1, k - 1)
  <2>1. /\ a = [j \in 1..(k - 1 - n) |-> c[l + (n + j)]]
        /\ b = [j \in 1..(k - 1 - n) |-> w[n + j]]
    BY <1>1, <1>2, <1>4
  <2>2. \A j \in 1..(k - 1 - n) : c[l + (n + j)] = w[n + j]
    BY <1>1, <1>2
  <2> HIDE DEF a, b
  <2>3. a = b
    BY <2>1, <2>2
  <2>4. QED
    BY <2>3 DEF a, b
<1>10. LineAt(c, i) = SubSeq(c, m + 1, i - 1)
  <2>1. LineAt(c, i) = SubSeq(c, LastEnd(c, i) + 1, i - 1)
    BY LineIs
  <2>2. QED
    BY <1>8, <2>1
<1>11. LineAt(c, l + k) = LineAt(w, k)
  <2>1. LineAt(w, k) = SubSeq(w, n + 1, k - 1)
    BY LineIs DEF n
  <2>2. QED
    BY <1>4, <1>9, <1>10, <2>1
<1>12. QED
  BY <1>11 DEF c, l

-----------------------------------------------------------------------------
(* Events *)

\* Whatever a line may carry
Event == {Payload[p] : p \in DOMAIN Payload}

\* What position i of a text adds to its events, and what all of them add
DecodedAt(q, bytes, i) == IF bytes[i] = "end" THEN Decoded(q, LineAt(bytes, i)) ELSE <<>>

Decoding(q, bytes) == [i \in DOMAIN bytes |-> DecodedAt(q, bytes, i)]

\* A line carries one event or none.
LEMMA DecodedType == \A q, line : Decoded(q, line) \in Seq(Event)
<1> TAKE q, line
<1>1. CASE Decoded(q, line) = <<>>
  BY <1>1
<1>2. CASE Decoded(q, line) # <<>>
  <2>1. line[2] \in DOMAIN Payload /\ Decoded(q, line) = <<Payload[line[2]]>>
    BY <1>2 DEF Decoded
  <2>2. Payload[line[2]] \in Event
    BY <2>1 DEF Event
  <2>3. QED
    BY <2>1, <2>2
<1>3. QED
  BY <1>1, <1>2

\* Every position adds events.
LEMMA DecodingType ==
  ASSUME NEW q, NEW B, NEW bytes \in Seq(B)
  PROVE  Decoding(q, bytes) \in Seq(Seq(Event)) /\ Len(Decoding(q, bytes)) = Len(bytes)
<1>1. \A i : DecodedAt(q, bytes, i) \in Seq(Event)
  BY DecodedType DEF DecodedAt
<1>2. DOMAIN bytes = 1..Len(bytes) /\ Len(bytes) \in Nat
  OBVIOUS
<1>3. QED
  BY <1>1, <1>2 DEF Decoding

\* Events is the lines that have ended, decoded and put in a row.
LEMMA EventsAre == \A q, bytes : Events(q, bytes) = FlattenSeq(Decoding(q, bytes))
BY DEF Events, Decoding, DecodedAt

\* They are events.
LEMMA EventsType ==
  ASSUME NEW q, NEW B, NEW bytes \in Seq(B)
  PROVE  Events(q, bytes) \in Seq(Event)
BY EventsAre, DecodingType, FlattenType

\* The events of a text are those up to an end and those of the rest.
LEMMA EventsConcat ==
  ASSUME NEW q, NEW B, NEW p \in Seq(B), NEW w \in Seq(B), p = <<>> \/ p[Len(p)] = "end"
  PROVE  Events(q, p \o w) = Events(q, p) \o Events(q, w)
<1> DEFINE c == p \o w
           l == Len(p)
<1>1. /\ l \in Nat /\ Len(w) \in Nat /\ c \in Seq(B) /\ Len(c) = l + Len(w)
      /\ DOMAIN c = 1..(l + Len(w)) /\ DOMAIN p = 1..l /\ DOMAIN w = 1..Len(w)
      /\ \A j \in 1..l : c[j] = p[j]
      /\ \A j \in 1..Len(w) : c[l + j] = w[j]
  OBVIOUS
<1>2. \A j \in 1..l : DecodedAt(q, c, j) = DecodedAt(q, p, j)
  <2> TAKE j \in 1..l
  <2>1. LineAt(c, j) = LineAt(p, j)
    BY LineFirst
  <2> HIDE DEF c
  <2>2. QED
    BY <1>1, <2>1 DEF DecodedAt
<1>3. \A j \in 1..Len(w) : DecodedAt(q, c, l + j) = DecodedAt(q, w, j)
  <2> TAKE j \in 1..Len(w)
  <2>1. LineAt(c, l + j) = LineAt(w, j)
    BY LineShift
  <2> HIDE DEF c, l
  <2>2. QED
    BY <1>1, <2>1 DEF DecodedAt
<1>4. /\ Decoding(q, p) \in Seq(Seq(Event)) /\ Len(Decoding(q, p)) = l
      /\ Decoding(q, w) \in Seq(Seq(Event)) /\ Len(Decoding(q, w)) = Len(w)
      /\ Decoding(q, c) \in Seq(Seq(Event)) /\ Len(Decoding(q, c)) = l + Len(w)
  BY <1>1, DecodingType
<1> HIDE DEF c, l
<1>5. Decoding(q, c) = Decoding(q, p) \o Decoding(q, w)
  <2> DEFINE a == Decoding(q, c)
             b == Decoding(q, p) \o Decoding(q, w)
  <2>1. /\ b \in Seq(Seq(Event)) /\ Len(b) = Len(a) /\ a \in Seq(Seq(Event))
        /\ \A i \in 1..l : b[i] = Decoding(q, p)[i]
        /\ \A j \in 1..Len(w) : b[l + j] = Decoding(q, w)[j]
    <3> DEFINE u == Decoding(q, p)
               v == Decoding(q, w)
    <3>1. /\ u \in Seq(Seq(Event)) /\ Len(u) = l
          /\ v \in Seq(Seq(Event)) /\ Len(v) = Len(w)
      BY <1>4
    <3> HIDE DEF u, v
    <3>2. /\ u \o v \in Seq(Seq(Event)) /\ Len(u \o v) = l + Len(w)
          /\ \A i \in 1..l : (u \o v)[i] = u[i]
          /\ \A j \in 1..Len(w) : (u \o v)[l + j] = v[j]
      <4> DEFINE T == Seq(Event)
      <4>1. u \in Seq(T) /\ v \in Seq(T)
        BY <3>1
      <4> HIDE DEF T
      <4>2. /\ u \o v \in Seq(T) /\ Len(u \o v) = Len(u) + Len(v)
            /\ \A i \in 1..Len(u) : (u \o v)[i] = u[i]
            /\ \A j \in 1..Len(v) : (u \o v)[Len(u) + j] = v[j]
        BY <4>1
      <4>3. QED
        BY <3>1, <4>2 DEF T
    <3>3. QED
      BY <1>4, <3>2 DEF u, v
  <2>2. \A i \in 1..Len(a) : a[i] = b[i]
    <3> TAKE i \in 1..Len(a)
    <3>1. CASE i <= l
      <4>1. i \in 1..l /\ i \in DOMAIN c /\ i \in DOMAIN p
        BY <1>1, <1>4, <3>1
      <4>2. b[i] = Decoding(q, p)[i]
        BY <2>1, <4>1
      <4>3. QED
        BY <1>2, <4>1, <4>2 DEF Decoding
    <3>2. CASE i > l
      <4>1. PICK j \in 1..Len(w) : i = l + j
        <5>1. i - l \in 1..Len(w) /\ i = l + (i - l)
          BY <1>1, <1>4, <3>2
        <5>2. QED
          BY <5>1
      <4>2. b[i] = Decoding(q, w)[j]
        BY <2>1, <4>1
      <4>3. i \in DOMAIN c /\ j \in DOMAIN w
        BY <1>1, <1>4, <4>1
      <4>4. QED
        BY <1>3, <4>1, <4>2, <4>3 DEF Decoding
    <3>3. i <= l \/ i > l
      BY <1>1, <1>4
    <3>4. QED
      BY <3>1, <3>2, <3>3, Zenon
  <2> HIDE DEF a, b
  <2>3. a = b
    BY <2>1, <2>2, SeqEqual
  <2>4. QED
    BY <2>3 DEF a, b
<1>6. FlattenSeq(Decoding(q, c)) = FlattenSeq(Decoding(q, p)) \o FlattenSeq(Decoding(q, w))
  BY <1>4, <1>5, FlattenConcat
<1>7. QED
  BY <1>6, EventsAre DEF c

\* A text is its ended lines and what is left.
LEMMA Ended ==
  ASSUME NEW B, NEW c \in Seq(B)
  PROVE  \E p \in Seq(B) :
           /\ p = <<>> \/ p[Len(p)] = "end"
           /\ Left(c) \in Seq(B) /\ c = p \o Left(c)
           /\ \A i \in 1..Len(Left(c)) : Left(c)[i] # "end"
<1> DEFINE n == Len(c)
           m == LastEnd(c, n + 1)
           p == SubSeq(c, 1, m)
           l == SubSeq(c, m + 1, n)
<1>1. n \in Nat
  OBVIOUS
<1>2. /\ m \in 0..n /\ (m = 0 \/ (m \in 1..n /\ c[m] = "end"))
      /\ \A j \in 1..n : j > m => c[j] # "end"
  <2>1. n + 1 \in Nat /\ (n + 1) - 1 = n
    BY <1>1
  <2> HIDE DEF n, m
  <2>2. QED
    BY <1>1, <2>1, LastEndIs DEF m
<1>3. Left(c) = l
  <2>1. Left(c) = SubSeq(c, LastEnd(c, n + 1) + 1, (n + 1) - 1)
    BY LineIs DEF Left
  <2>2. (n + 1) - 1 = n
    BY <1>1
  <2> HIDE DEF n
  <2>3. QED
    BY <2>1, <2>2
<1> HIDE DEF m
<1>4. p \in Seq(B) /\ l \in Seq(B) /\ Len(p) = m /\ Len(l) = n - m
  BY <1>2
<1>5. p = <<>> \/ p[Len(p)] = "end"
  BY <1>2, <1>4
<1>6. c = p \o l
  <2>1. p \o l = SubSeq(c, 1, n)
    <3>1. 1 \in 1..(n + 1) /\ m \in (1 - 1)..n /\ n \in m..n
      BY <1>1, <1>2
    <3>2. QED
      BY <3>1, ConcatAdjacentSubSeq
  <2>2. SubSeq(c, 1, n) = c
    BY SubSeqFull
  <2>3. QED
    BY <2>1, <2>2, Zenon
<1>7. \A i \in 1..Len(l) : l[i] # "end"
  <2> TAKE i \in 1..Len(l)
  <2>1. l[i] = c[m + i] /\ m + i \in 1..n /\ m + i > m
    BY <1>2, <1>4
  <2> HIDE DEF l, n
  <2>2. QED
    BY <1>2, <2>1
<1> HIDE DEF p, l
<1>8. QED
  BY <1>3, <1>4, <1>5, <1>6, <1>7

\* Names for what a text and more of it are, and for what is read of the two: the
\* provers shall not look into either
InRow(u, v) == u \o v

ReadBehind(q, c, d) ==
  /\ Events(q, c \o d) = Events(q, c) \o Events(q, Left(c) \o d)
  /\ Left(c \o d) = Left(Left(c) \o d)

\* What is left has no events, and what comes is read behind it.
LEMMA EventsMore ==
  ASSUME NEW q, NEW B, NEW c \in Seq(B), NEW d \in Seq(B)
  PROVE  /\ Left(c) \in Seq(B)
         /\ ReadBehind(q, c, d)
<1> DEFINE l == Left(c)
<1>1. PICK p \in Seq(B) :
           /\ p = <<>> \/ p[Len(p)] = "end"
           /\ l \in Seq(B) /\ c = p \o l
           /\ \A i \in 1..Len(l) : l[i] # "end"
  BY Ended
<1> HIDE DEF l
<1>2. Events(q, l) = <<>>
  <2>1. Decoding(q, l) \in Seq(Seq(Event)) /\ Len(Decoding(q, l)) = Len(l) /\ DOMAIN l = 1..Len(l)
    BY <1>1, DecodingType
  <2>2. \A i \in 1..Len(Decoding(q, l)) : Decoding(q, l)[i] = <<>>
    BY <1>1, <2>1 DEF Decoding, DecodedAt
  <2>3. QED
    BY <2>1, <2>2, FlattenNothing, EventsAre
<1>3. Events(q, p) \in Seq(Event) /\ Events(q, c) = Events(q, p)
  <2>1. Events(q, c) = Events(q, p) \o Events(q, l)
    BY <1>1, EventsConcat
  <2>2. Events(q, p) \in Seq(Event)
    BY EventsType
  <2>3. QED
    BY <1>2, <2>1, <2>2
<1> DEFINE w == l \o d
<1>4. w \in Seq(B) /\ c \o d = p \o w /\ Len(p) \in Nat /\ Len(w) \in Nat
      /\ Len(p \o w) = Len(p) + Len(w)
  BY <1>1
<1> HIDE DEF w
<1>5. Events(q, c \o d) = Events(q, c) \o Events(q, w)
  BY <1>1, <1>3, <1>4, EventsConcat
<1>6. Left(c \o d) = Left(w)
  <2>1. Left(p \o w) = LineAt(p \o w, Len(p) + (Len(w) + 1))
    <3>1. Len(p \o w) + 1 = Len(p) + (Len(w) + 1)
      BY <1>4
    <3>2. QED
      BY <3>1 DEF Left
  <2>2. Len(w) + 1 \in 1..(Len(w) + 1)
    BY <1>4
  <2>3. LineAt(p \o w, Len(p) + (Len(w) + 1)) = LineAt(w, Len(w) + 1)
    BY <1>1, <1>4, <2>2, LineShift
  <2>4. QED
    BY <1>4, <2>1, <2>3 DEF Left
<1>7. QED
  BY <1>1, <1>5, <1>6 DEF l, w, ReadBehind

\* A sequence that begins as one and goes on as another is both in a row.
LEMMA ConcatIs ==
  ASSUME NEW T, NEW a \in Seq(T), NEW b \in Seq(T), NEW c \in Seq(T),
         Len(c) = Len(a) + Len(b),
         \A i \in 1..Len(a) : c[i] = a[i],
         \A j \in 1..Len(b) : c[Len(a) + j] = b[j]
  PROVE  c = a \o b
<1> DEFINE d == a \o b
<1>1. /\ d \in Seq(T) /\ Len(d) = Len(a) + Len(b)
      /\ \A i \in 1..Len(a) : d[i] = a[i]
      /\ \A j \in 1..Len(b) : d[Len(a) + j] = b[j]
  BY Concat
<1> HIDE DEF d
<1>2. ASSUME NEW i \in 1..Len(c) PROVE c[i] = d[i]
  <2>1. CASE i <= Len(a)
    BY <1>1, <2>1
  <2>2. CASE i > Len(a)
    <3>1. i - Len(a) \in 1..Len(b) /\ i = Len(a) + (i - Len(a))
      BY <2>2
    <3>2. QED
      BY <1>1, <3>1
  <2>3. QED
    BY <2>1, <2>2
<1>3. c = d
  BY <1>1, <1>2, SeqEqual
<1>4. QED
  BY <1>3 DEF d

-----------------------------------------------------------------------------
(* The text and the pieces of events *)

\* What texts are made of, and pieces of calls
Letters == UNION {Range(e.text) : e \in Event}
CallPieces == UNION {Range(e.calls) : e \in Event}

\* An event has a text and pieces of calls.
LEMMA EventType ==
  ASSUME NEW e \in Event
  PROVE  e.text \in Seq(Letters) /\ e.calls \in Seq(CallPieces)
<1>1. PICK p \in DOMAIN Payload : e = Payload[p]
  BY DEF Event
<1>2. e.text \in Seq(Range(e.text)) /\ e.calls \in Seq(Range(e.calls))
  BY <1>1, PayloadAssumption
<1>3. Range(e.text) \subseteq Letters /\ Range(e.calls) \subseteq CallPieces
  BY DEF Letters, CallPieces
<1>4. \A A, B : \A s : A \subseteq B /\ s \in Seq(A) => s \in Seq(B)
  OBVIOUS
<1>5. QED
  BY <1>2, <1>3, <1>4, Zenon

\* The texts of events, and their pieces, before they are put in a row
Texts(events) == [n \in DOMAIN events |-> events[n].text]
PiecesOf(events) == [n \in DOMAIN events |-> events[n].calls]

\* The texts of events in a row are those of each.
LEMMA TextsConcat ==
  ASSUME NEW e \in Seq(Event), NEW f \in Seq(Event)
  PROVE  /\ Texts(e) \in Seq(Seq(Letters)) /\ Texts(f) \in Seq(Seq(Letters))
         /\ Texts(e \o f) = Texts(e) \o Texts(f)
<1>1. /\ e \o f \in Seq(Event) /\ Len(e \o f) = Len(e) + Len(f)
      /\ \A i \in 1..Len(e) : (e \o f)[i] = e[i]
      /\ \A j \in 1..Len(f) : (e \o f)[Len(e) + j] = f[j]
  BY Concat
<1>2. ASSUME NEW s \in Seq(Event)
      PROVE  /\ Texts(s) \in Seq(Seq(Letters)) /\ Len(Texts(s)) = Len(s)
             /\ \A i \in 1..Len(s) : Texts(s)[i] = s[i].text
  <2>1. \A i \in 1..Len(s) : s[i].text \in Seq(Letters)
    <3> TAKE i \in 1..Len(s)
    <3>1. s[i] \in Event
      OBVIOUS
    <3>2. QED
      BY <3>1, EventType
  <2>2. QED
    BY <2>1 DEF Texts
<1> DEFINE g == e \o f
           T == Seq(Letters)
           a == Texts(e)
           b == Texts(f)
           c == Texts(g)
<1>3. /\ a \in Seq(T) /\ b \in Seq(T) /\ c \in Seq(T)
      /\ Len(a) = Len(e) /\ Len(b) = Len(f) /\ Len(c) = Len(e) + Len(f)
  BY <1>1, <1>2
<1>4. /\ \A i \in 1..Len(e) : a[i] = e[i].text
      /\ \A i \in 1..Len(f) : b[i] = f[i].text
      /\ \A i \in 1..Len(g) : c[i] = g[i].text
  BY <1>1, <1>2
<1>5. /\ \A i \in 1..Len(e) : g[i] = e[i] /\ i \in 1..Len(g)
      /\ \A j \in 1..Len(f) : g[Len(e) + j] = f[j] /\ Len(e) + j \in 1..Len(g)
  BY <1>1
<1> HIDE DEF a, b, c, g, T
<1>6. /\ \A i \in 1..Len(a) : c[i] = a[i]
      /\ \A j \in 1..Len(b) : c[Len(a) + j] = b[j]
  <2>1. Len(a) = Len(e) /\ Len(b) = Len(f)
    BY <1>3
  <2>2. \A i \in 1..Len(e) : c[i] = a[i]
    BY <1>4, <1>5
  <2>3. ASSUME NEW j \in 1..Len(f) PROVE c[Len(e) + j] = b[j]
    <3>1. g[Len(e) + j] = f[j] /\ Len(e) + j \in 1..Len(g)
      BY <1>5
    <3>2. PICK k \in 1..Len(g) : k = Len(e) + j
      BY <3>1
    <3>3. QED
      BY <1>4, <3>1, <3>2
  <2>4. QED
    BY <2>1, <2>2, <2>3
<1>7. Len(c) = Len(a) + Len(b)
  BY <1>3
<1>8. c = a \o b
  BY <1>3, <1>6, <1>7, ConcatIs
<1>9. QED
  BY <1>3, <1>8 DEF a, b, c, g, T

\* So are their pieces.
LEMMA PiecesConcat ==
  ASSUME NEW e \in Seq(Event), NEW f \in Seq(Event)
  PROVE  /\ PiecesOf(e) \in Seq(Seq(CallPieces)) /\ PiecesOf(f) \in Seq(Seq(CallPieces))
         /\ PiecesOf(e \o f) = PiecesOf(e) \o PiecesOf(f)
<1>1. /\ e \o f \in Seq(Event) /\ Len(e \o f) = Len(e) + Len(f)
      /\ \A i \in 1..Len(e) : (e \o f)[i] = e[i]
      /\ \A j \in 1..Len(f) : (e \o f)[Len(e) + j] = f[j]
  BY Concat
<1>2. ASSUME NEW s \in Seq(Event)
      PROVE  /\ PiecesOf(s) \in Seq(Seq(CallPieces)) /\ Len(PiecesOf(s)) = Len(s)
             /\ \A i \in 1..Len(s) : PiecesOf(s)[i] = s[i].calls
  <2>1. \A i \in 1..Len(s) : s[i].calls \in Seq(CallPieces)
    <3> TAKE i \in 1..Len(s)
    <3>1. s[i] \in Event
      OBVIOUS
    <3>2. QED
      BY <3>1, EventType
  <2>2. QED
    BY <2>1 DEF PiecesOf
<1> DEFINE g == e \o f
           T == Seq(CallPieces)
           a == PiecesOf(e)
           b == PiecesOf(f)
           c == PiecesOf(g)
<1>3. /\ a \in Seq(T) /\ b \in Seq(T) /\ c \in Seq(T)
      /\ Len(a) = Len(e) /\ Len(b) = Len(f) /\ Len(c) = Len(e) + Len(f)
  BY <1>1, <1>2
<1>4. /\ \A i \in 1..Len(e) : a[i] = e[i].calls
      /\ \A i \in 1..Len(f) : b[i] = f[i].calls
      /\ \A i \in 1..Len(g) : c[i] = g[i].calls
  BY <1>1, <1>2
<1>5. /\ \A i \in 1..Len(e) : g[i] = e[i] /\ i \in 1..Len(g)
      /\ \A j \in 1..Len(f) : g[Len(e) + j] = f[j] /\ Len(e) + j \in 1..Len(g)
  BY <1>1
<1> HIDE DEF a, b, c, g, T
<1>6. /\ \A i \in 1..Len(a) : c[i] = a[i]
      /\ \A j \in 1..Len(b) : c[Len(a) + j] = b[j]
  <2>1. Len(a) = Len(e) /\ Len(b) = Len(f)
    BY <1>3
  <2>2. \A i \in 1..Len(e) : c[i] = a[i]
    BY <1>4, <1>5
  <2>3. ASSUME NEW j \in 1..Len(f) PROVE c[Len(e) + j] = b[j]
    <3>1. g[Len(e) + j] = f[j] /\ Len(e) + j \in 1..Len(g)
      BY <1>5
    <3>2. PICK k \in 1..Len(g) : k = Len(e) + j
      BY <3>1
    <3>3. QED
      BY <1>4, <3>1, <3>2
  <2>4. QED
    BY <2>1, <2>2, <2>3
<1>7. Len(c) = Len(a) + Len(b)
  BY <1>3
<1>8. c = a \o b
  BY <1>3, <1>6, <1>7, ConcatIs
<1>9. QED
  BY <1>3, <1>8 DEF a, b, c, g, T

\* The text of events in a row is the text of each in a row; so are the pieces.
LEMMA TextConcat ==
  ASSUME NEW e \in Seq(Event), NEW f \in Seq(Event)
  PROVE  /\ Text(e) \in Seq(Letters)
         /\ Text(e \o f) = Text(e) \o Text(f)
         /\ Pieces(e) \in Seq(CallPieces)
         /\ Pieces(e \o f) = Pieces(e) \o Pieces(f)
<1>1. \A s : Text(s) = FlattenSeq(Texts(s)) /\ Pieces(s) = FlattenSeq(PiecesOf(s))
  BY DEF Text, Texts, Pieces, PiecesOf
<1>2. FlattenSeq(Texts(e) \o Texts(f)) = FlattenSeq(Texts(e)) \o FlattenSeq(Texts(f))
  BY TextsConcat, FlattenConcat
<1>3. FlattenSeq(PiecesOf(e) \o PiecesOf(f)) = FlattenSeq(PiecesOf(e)) \o FlattenSeq(PiecesOf(f))
  BY PiecesConcat, FlattenConcat
<1>4. FlattenSeq(Texts(e)) \in Seq(Letters) /\ FlattenSeq(PiecesOf(e)) \in Seq(CallPieces)
  BY TextsConcat, PiecesConcat, FlattenType
<1>5. Texts(e \o f) = Texts(e) \o Texts(f) /\ PiecesOf(e \o f) = PiecesOf(e) \o PiecesOf(f)
  BY TextsConcat, PiecesConcat
<1>6. QED
  BY <1>1, <1>2, <1>3, <1>4, <1>5

\* Where there are no events there is no text and there are no pieces.
LEMMA NoEvents == Text(<<>>) = <<>> /\ Pieces(<<>>) = <<>>
<1>1. [n \in DOMAIN <<>> |-> <<>>[n].text] = <<>> /\ [n \in DOMAIN <<>> |-> <<>>[n].calls] = <<>>
  OBVIOUS
<1>2. FlattenSeq(<<>>) = <<>>
  BY DEF FlattenSeq
<1>3. QED
  BY <1>1, <1>2 DEF Text, Pieces

-----------------------------------------------------------------------------
(* Calls *)

\* f[n] is what the first n pieces make of all.
Joins(f, all, pieces) ==
  /\ f[0] = all
  /\ \A i \in 1..Len(pieces) : f[i] = Joined(f[i - 1], pieces[i])

\* f is such a function on 0..n.
Recurs(f, all, s, n) == f = [i \in 0..n |-> IF i = 0 THEN all ELSE Joined(f[i - 1], s[i])]

\* The recursive definition of Calls defines a function.
LEMMA JoinsExists ==
  ASSUME NEW all, NEW s, NEW n \in Nat
  PROVE  \E f : Recurs(f, all, s, n)
<1> DEFINE Is(f, k) == f = [i \in 0..k |-> IF i = 0 THEN all ELSE Joined(f[i - 1], s[i])]
           S == {k \in Nat : \E f : Is(f, k)}
<1>1. 0 \in S
  <2> DEFINE f == [i \in 0..0 |-> all]
  <2>1. Is(f, 0)
    OBVIOUS
  <2> HIDE DEF f, Is
  <2>2. QED
    BY <2>1
<1>2. ASSUME NEW k \in Nat, k \in S
      PROVE  k + 1 \in S
  <2>1. PICK f : Is(f, k)
    BY <1>2
  <2> DEFINE g == [i \in 0..(k + 1) |-> IF i = k + 1 THEN Joined(f[k], s[i]) ELSE f[i]]
  <2>2. ASSUME NEW i \in 0..(k + 1)
        PROVE  g[i] = IF i = 0 THEN all ELSE Joined(g[i - 1], s[i])
    <3>1. CASE i = k + 1
      <4>1. g[i] = Joined(f[k], s[i]) /\ g[i - 1] = f[k] /\ i # 0
        BY <3>1
      <4> HIDE DEF g
      <4>2. QED
        BY <4>1
    <3>2. CASE i # k + 1
      <4>1. i \in 0..k /\ g[i] = f[i]
        BY <3>2
      <4>2. f[i] = IF i = 0 THEN all ELSE Joined(f[i - 1], s[i])
        BY <2>1, <4>1
      <4>3. i # 0 => g[i - 1] = f[i - 1]
        BY <4>1
      <4> HIDE DEF g, Is
      <4>4. QED
        BY <4>1, <4>2, <4>3
    <3>3. QED
      BY <3>1, <3>2
  <2>3. g = [i \in 0..(k + 1) |-> IF i = 0 THEN all ELSE Joined(g[i - 1], s[i])]
    <3>1. g = [i \in 0..(k + 1) |-> g[i]]
      OBVIOUS
    <3> HIDE DEF g
    <3>2. QED
      BY <2>2, <3>1
  <2> HIDE DEF g
  <2>4. Is(g, k + 1)
    BY <2>3
  <2> HIDE DEF Is
  <2>5. QED
    BY <2>4
<1> HIDE DEF S
<1>3. n \in S
  BY <1>1, <1>2, Induct
<1>4. QED
  BY <1>3 DEF S, Recurs

\* Calls joins the pieces one after the other.
LEMMA CallsJoin ==
  ASSUME NEW all, NEW T, NEW s \in Seq(T)
  PROVE  \E f : Joins(f, all, s) /\ Calls(all, s) = f[Len(s)]
<1>1. Len(s) \in Nat
  OBVIOUS
<1> DEFINE F == CHOOSE f : f = [i \in 0..Len(s) |-> IF i = 0 THEN all ELSE Joined(f[i - 1], s[i])]
<1>2. F = [i \in 0..Len(s) |-> IF i = 0 THEN all ELSE Joined(F[i - 1], s[i])]
  <2>1. \E f : f = [i \in 0..Len(s) |-> IF i = 0 THEN all ELSE Joined(f[i - 1], s[i])]
    <3>1. \E f : Recurs(f, all, s, Len(s))
      BY <1>1, JoinsExists
    <3>2. QED
      BY <3>1 DEF Recurs
  <2>2. QED
    BY <2>1, Zenon
<1>3. Calls(all, s) = F[Len(s)]
  BY DEF Calls
<1> HIDE DEF F
<1>4. \A i \in 0..Len(s) : F[i] = IF i = 0 THEN all ELSE Joined(F[i - 1], s[i])
  BY <1>2
<1>5. F[0] = all
  BY <1>1, <1>4
<1>6. ASSUME NEW i \in 1..Len(s) PROVE F[i] = Joined(F[i - 1], s[i])
  <2>1. i \in 0..Len(s) /\ i # 0
    BY <1>1
  <2>2. QED
    BY <1>4, <2>1
<1>7. Joins(F, all, s)
  BY <1>5, <1>6 DEF Joins
<1>8. QED
  BY <1>3, <1>7

\* Whatever joins them so comes to the same calls.
LEMMA CallsAre ==
  ASSUME NEW all, NEW T, NEW s \in Seq(T), NEW g, Joins(g, all, s)
  PROVE  g[Len(s)] = Calls(all, s)
<1>1. PICK f : Joins(f, all, s) /\ Calls(all, s) = f[Len(s)]
  BY CallsJoin
<1> DEFINE S == {k \in Nat : k <= Len(s) => g[k] = f[k]}
<1>2. 0 \in S
  BY <1>1 DEF Joins
<1>3. ASSUME NEW k \in Nat, k \in S PROVE k + 1 \in S
  <2>1. SUFFICES ASSUME k + 1 <= Len(s) PROVE g[k + 1] = f[k + 1]
    OBVIOUS
  <2>2. g[k] = f[k] /\ k + 1 \in 1..Len(s) /\ (k + 1) - 1 = k
    BY <1>3, <2>1
  <2>3. g[k + 1] = Joined(g[k], s[k + 1]) /\ f[k + 1] = Joined(f[k], s[k + 1])
    BY <1>1, <2>2 DEF Joins
  <2>4. QED
    BY <2>2, <2>3
<1> HIDE DEF S
<1>4. Len(s) \in S
  BY <1>2, <1>3, Induct
<1>5. QED
  BY <1>1, <1>4 DEF S

\* The calls after pieces in a row are those of the last after those of the first.
LEMMA CallsConcat ==
  ASSUME NEW all, NEW T, NEW s \in Seq(T), NEW t \in Seq(T)
  PROVE  Calls(all, s \o t) = Calls(Calls(all, s), t)
<1>1. PICK f : Joins(f, all, s) /\ Calls(all, s) = f[Len(s)]
  BY CallsJoin
<1>2. PICK g : Joins(g, f[Len(s)], t) /\ Calls(f[Len(s)], t) = g[Len(t)]
  BY CallsJoin
<1> DEFINE u == s \o t
           h == [i \in 0..(Len(s) + Len(t)) |-> IF i <= Len(s) THEN f[i] ELSE g[i - Len(s)]]
<1>3. /\ u \in Seq(T) /\ Len(u) = Len(s) + Len(t)
      /\ Len(s) \in Nat /\ Len(t) \in Nat
      /\ \A i \in 1..Len(s) : u[i] = s[i]
      /\ \A i \in 1..Len(t) : u[Len(s) + i] = t[i]
  BY Concat
<1>4. /\ \A i \in 0..Len(s) : h[i] = f[i]
      /\ \A j \in 1..Len(t) : h[Len(s) + j] = g[j]
  <2>1. \A j \in 1..Len(t) : /\ Len(s) + j \in 0..(Len(s) + Len(t))
                             /\ ~ (Len(s) + j <= Len(s)) /\ (Len(s) + j) - Len(s) = j
    BY <1>3
  <2>2. QED
    BY <1>3, <2>1
<1>5. \A j \in 0..Len(t) : h[Len(s) + j] = g[j]
  <2> TAKE j \in 0..Len(t)
  <2>1. CASE j = 0
    BY <1>2, <1>3, <1>4, <2>1 DEF Joins
  <2>2. CASE j # 0
    BY <1>3, <1>4, <2>2
  <2>3. QED
    BY <2>1, <2>2
<1> HIDE DEF h, u
<1>6. ASSUME NEW i \in 1..Len(u)
      PROVE  h[i] = Joined(h[i - 1], u[i])
  <2>1. CASE i <= Len(s)
    <3>1. i \in 1..Len(s) /\ i \in 0..Len(s) /\ i - 1 \in 0..Len(s)
      BY <1>3, <2>1
    <3>2. h[i] = f[i] /\ h[i - 1] = f[i - 1] /\ u[i] = s[i]
      BY <1>3, <1>4, <3>1
    <3>3. f[i] = Joined(f[i - 1], s[i])
      BY <1>1, <3>1 DEF Joins
    <3>4. QED
      BY <3>2, <3>3
  <2>2. CASE i > Len(s)
    <3>1. PICK j \in 1..Len(t) : i = Len(s) + j
      <4>1. i - Len(s) \in 1..Len(t) /\ i = Len(s) + (i - Len(s))
        BY <1>3, <2>2
      <4>2. QED
        BY <4>1
    <3>2. i - 1 = Len(s) + (j - 1) /\ j - 1 \in 0..Len(t) /\ j \in 0..Len(t)
      BY <1>3, <3>1
    <3>3. h[i] = g[j] /\ h[i - 1] = g[j - 1] /\ u[i] = t[j]
      BY <1>3, <1>5, <3>1, <3>2
    <3>4. g[j] = Joined(g[j - 1], t[j])
      BY <1>2 DEF Joins
    <3>5. QED
      BY <3>3, <3>4
  <2>3. i <= Len(s) \/ i > Len(s)
    BY <1>3
  <2>4. QED
    BY <2>1, <2>2, <2>3
<1>7. h[0] = all
  BY <1>1, <1>3, <1>4 DEF Joins
<1>8. Joins(h, all, u)
  BY <1>6, <1>7 DEF Joins
<1>9. h[Len(u)] = Calls(all, u)
  BY <1>3, <1>8, CallsAre
<1>10. h[Len(u)] = g[Len(t)]
  BY <1>3, <1>5
<1>11. QED
  BY <1>1, <1>2, <1>9, <1>10 DEF u

\* No piece changes no call.
LEMMA NoPieces == \A all : Calls(all, <<>>) = all
<1> TAKE all
<1> DEFINE f == [i \in {0} |-> all]
<1>1. <<>> \in Seq({}) /\ Len(<<>>) = 0 /\ f[0] = all
  OBVIOUS
<1> HIDE DEF f
<1>2. Joins(f, all, <<>>)
  BY <1>1 DEF Joins
<1>3. QED
  BY <1>1, <1>2, CallsAre

-----------------------------------------------------------------------------
(* DecodedWhole *)

\* What has been heard
Read == SubSeq(stream, 1, heard)

\* Nothing has been heard yet.
Waiting ==
  /\ stream = <<>> /\ heard = 0
  /\ buffer = <<>> /\ text = <<>> /\ calls = NoCalls

\* What the lines that have ended say is in text and calls, and the rest is kept.
Decodes ==
  /\ stream \in Streams
  /\ heard \in 0..Len(stream)
  /\ buffer = Left(Read)
  /\ text = Text(Events(kind, Read))
  /\ kind = "agent" => calls = Calls(NoCalls, Pieces(Events(kind, Read)))

\* What is kept true while a stream is heard
DecodeInv ==
  /\ kind = "plain" => calls = NoCalls
  /\ hearing \in {"waiting", "streaming", "ended"}
  /\ hearing = "waiting" => Waiting
  /\ hearing = "streaming" => Decodes
  /\ hearing = "ended" => heard \in 0..Len(stream) /\ buffer = <<>>
  /\ DecodedWhole

\* It is true before anything is heard.
LEMMA DecodeInit == ChatInit => DecodeInv
BY DEF ChatInit, DecodeInv, Waiting, DecodedWhole

\* Nothing has no lines, no events, no text and no calls.
LEMMA NothingRead ==
  ASSUME NEW q
  PROVE  /\ Left(<<>>) = <<>> /\ Events(q, <<>>) = <<>>
         /\ Text(Events(q, <<>>)) = <<>>
         /\ Calls(NoCalls, Pieces(Events(q, <<>>))) = NoCalls
         /\ Decoded(q, <<>>) = <<>>
<1>1. <<>> \in Seq({}) /\ Len(<<>>) = 0
  OBVIOUS
<1>2. Events(q, <<>>) = <<>>
  <2>1. Decoding(q, <<>>) \in Seq(Seq(Event)) /\ Len(Decoding(q, <<>>)) = 0
    BY <1>1, DecodingType
  <2>2. \A i \in 1..Len(Decoding(q, <<>>)) : Decoding(q, <<>>)[i] = <<>>
    BY <2>1
  <2>3. QED
    BY <2>1, <2>2, FlattenNothing, EventsAre
<1>3. Left(<<>>) = <<>>
  <2>1. PICK p \in Seq({}) : Left(<<>>) \in Seq({})
    BY <1>1, Ended
  <2>2. QED
    BY <2>1
<1>4. Decoded(q, <<>>) = <<>>
  BY <1>1 DEF Decoded
<1>5. QED
  BY <1>2, <1>3, <1>4, NoEvents, NoPieces

\* A stream begins (_deltas, _agent_events).
LEMMA HearKeeps ==
  ASSUME DecodeInv, NEW s \in Streams, Hear(s)
  PROVE  DecodeInv'
<1>1. /\ Waiting /\ hearing = "waiting" /\ stream' = s /\ hearing' = "streaming"
      /\ kind' = kind /\ heard' = 0 /\ buffer' = <<>> /\ text' = <<>> /\ calls' = NoCalls
  BY DEF Hear, DecodeInv, Waiting
<1>2. s \in Seq(Range(s))
  BY StreamsAssumption
<1>3. SubSeq(s, 1, 0) = <<>> /\ Len(s) \in Nat
  BY <1>2
<1>4. Read' = <<>>
  BY <1>1, <1>3 DEF Read
<1>5. Decodes'
  <2>1. buffer' = Left(Read')
    BY <1>1, <1>4, NothingRead
  <2>2. text' = Text(Events(kind', Read')) /\ calls' = Calls(NoCalls, Pieces(Events(kind', Read')))
    BY <1>1, <1>4, NothingRead
  <2>3. heard' \in 0..Len(stream')
    BY <1>1, <1>3
  <2>4. QED
    BY <1>1, <2>1, <2>2, <2>3 DEF Decodes
<1>6. QED
  BY <1>1, <1>5 DEF DecodeInv, DecodedWhole

\* A chunk that ends anywhere is read behind what was left of those before it.
LEMMA HearChunkKeeps ==
  ASSUME DecodeInv, NEW upto \in (heard + 1)..Len(stream), HearChunk(upto)
  PROVE  DecodeInv'
<1>1. Decodes /\ hearing = "streaming" /\ hearing' = "streaming" /\ stream' = stream /\ kind' = kind
      /\ heard' = upto
  BY DEF DecodeInv, HearChunk, Take
<1> DEFINE c == SubSeq(stream, 1, heard)
           d == SubSeq(stream, heard + 1, upto)
           e == SubSeq(stream, 1, upto)
           B == Range(stream)
           k == kind
<1>2. stream \in Seq(B)
  BY <1>1, StreamsAssumption DEF Decodes
<1>3. heard \in 0..Len(stream) /\ heard \in Nat /\ upto \in Nat /\ Len(stream) \in Nat
      /\ heard + 1 <= upto /\ upto <= Len(stream) /\ upto \in 0..Len(stream)
  BY <1>1, <1>2 DEF Decodes
<1>4. c \in Seq(B) /\ d \in Seq(B) /\ e = c \o d
  <2> HIDE DEF B
  <2>1. c \in Seq(B) /\ d \in Seq(B)
    BY <1>2, <1>3
  <2>2. SubSeq(stream, 1, heard) \o SubSeq(stream, heard + 1, upto) = SubSeq(stream, 1, upto)
    BY <1>2, <1>3, ConcatAdjacentSubSeq
  <2>3. QED
    BY <2>1, <2>2
<1>5. buffer = Left(c) /\ text = Text(Events(k, c))
      /\ (k = "agent" => calls = Calls(NoCalls, Pieces(Events(k, c))))
  BY <1>1 DEF Decodes, Read
<1> HIDE DEF B, c, d, e
<1> DEFINE w == Left(c) \o d
           new == Events(k, w)
<1>6. /\ Left(c) \in Seq(B)
      /\ Events(k, e) = Events(k, c) \o new
      /\ Left(e) = Left(w)
  <2>1. Left(c) \in Seq(B) /\ ReadBehind(k, c, d)
    BY <1>4, EventsMore
  <2>2. QED
    BY <1>4, <2>1 DEF ReadBehind
<1>7. /\ buffer' = Left(w)
      /\ text' = text \o Text(new)
      /\ calls' = IF k = "plain" THEN calls ELSE Calls(calls, Pieces(new))
  BY <1>5 DEF HearChunk, Take, d
<1>8. Events(k, c) \in Seq(Event) /\ new \in Seq(Event)
  <2>1. w \in Seq(B)
    BY <1>4, <1>6
  <2>2. QED
    BY <1>4, <2>1, EventsType
<1> HIDE DEF new, w
<1>9. text' = Text(Events(k, e))
  BY <1>5, <1>6, <1>7, <1>8, TextConcat
<1>10. k = "agent" => calls' = Calls(NoCalls, Pieces(Events(k, e)))
  <2>1. SUFFICES ASSUME k = "agent" PROVE calls' = Calls(NoCalls, Pieces(Events(k, e)))
    OBVIOUS
  <2>2. calls' = Calls(Calls(NoCalls, Pieces(Events(k, c))), Pieces(new))
    BY <1>5, <1>7, <2>1
  <2>3. Pieces(Events(k, e)) = Pieces(Events(k, c)) \o Pieces(new)
    BY <1>6, <1>8, TextConcat
  <2>4. Pieces(Events(k, c)) \in Seq(CallPieces) /\ Pieces(new) \in Seq(CallPieces)
    BY <1>8, TextConcat
  <2>5. QED
    BY <2>2, <2>3, <2>4, CallsConcat
<1>11. Read' = e
  BY <1>1 DEF Read, e
<1>12. Decodes'
  <2>1. buffer' = Left(Read')
    BY <1>6, <1>7, <1>11
  <2>2. text' = Text(Events(kind', Read'))
    BY <1>1, <1>9, <1>11
  <2>3. kind' = "agent" => calls' = Calls(NoCalls, Pieces(Events(kind', Read')))
    BY <1>1, <1>10, <1>11
  <2>4. heard' \in 0..Len(stream') /\ stream' \in Streams
    BY <1>1, <1>3 DEF Decodes
  <2>5. QED
    BY <2>1, <2>2, <2>3, <2>4 DEF Decodes
<1>13. kind' = "plain" => calls' = NoCalls
  BY <1>1, <1>7 DEF DecodeInv
<1>14. QED
  BY <1>1, <1>12, <1>13 DEF DecodeInv, DecodedWhole

\* What is left at the end is one line more.
LEMMA HearEndKeeps ==
  ASSUME DecodeInv, HearEnd
  PROVE  DecodeInv'
<1>1. Decodes /\ hearing = "streaming" /\ hearing' = "ended" /\ stream' = stream /\ kind' = kind
      /\ heard' = heard /\ heard = Len(stream) /\ buffer' = <<>>
  BY DEF DecodeInv, HearEnd, Take
<1> DEFINE B == Range(stream)
           k == kind
           c == stream
           last == Decoded(k, Left(c))
<1>2. c \in Seq(B) /\ Len(c) \in Nat
  BY <1>1, StreamsAssumption DEF Decodes
<1>3. Read = c
  <2>1. SubSeq(stream, 1, Len(stream)) = stream
    BY <1>2, SubSeqFull
  <2>2. QED
    BY <1>1, <2>1 DEF Read
<1>4. buffer = Left(c) /\ text = Text(Events(k, c))
      /\ (k = "agent" => calls = Calls(NoCalls, Pieces(Events(k, c))))
  BY <1>1, <1>3 DEF Decodes
<1>5. /\ text' = text \o Text(last)
      /\ calls' = IF k = "plain" THEN calls
                  ELSE Calls(calls, IF Text(last) = <<>> THEN <<>> ELSE Pieces(last))
  BY <1>4 DEF HearEnd, Take
<1>6. last \in Seq(Event) /\ Events(k, c) \in Seq(Event)
  BY <1>2, DecodedType, EventsType
<1>7. text' = Text(Events(k, c) \o last)
  <2> HIDE DEF last, c
  <2>1. QED
    BY <1>4, <1>5, <1>6, TextConcat
<1>8. k = "agent" /\ Left(c) = <<>> => calls' = Calls(NoCalls, Pieces(Events(k, c)))
  <2>1. SUFFICES ASSUME k = "agent", Left(c) = <<>>
                 PROVE  calls' = Calls(NoCalls, Pieces(Events(k, c)))
    OBVIOUS
  <2>2. last = <<>>
    BY <2>1, NothingRead
  <2>3. Text(last) = <<>>
    BY <2>2, NoEvents
  <2>4. calls' = Calls(calls, <<>>)
    BY <1>5, <2>1, <2>3
  <2>5. QED
    BY <1>4, <2>1, <2>4, NoPieces
<1>9. DecodedWhole'
  BY <1>1, <1>7, <1>8 DEF DecodedWhole
<1>10. kind' = "plain" => calls' = NoCalls
  BY <1>1, <1>5 DEF DecodeInv
<1>11. heard' \in 0..Len(stream')
  BY <1>1, <1>2
<1>12. QED
  BY <1>1, <1>9, <1>10, <1>11 DEF DecodeInv

\* However the stream is cut, every step keeps DecodeInv.
LEMMA DecodeNext ==
  ASSUME DecodeInv, [ChatNext]_chatVars
  PROVE  DecodeInv'
<1>1. CASE \E s \in Streams : Hear(s)
  BY <1>1, HearKeeps
<1>2. CASE \E upto \in (heard + 1)..Len(stream) : HearChunk(upto)
  BY <1>2, HearChunkKeeps
<1>3. CASE HearEnd
  BY <1>3, HearEndKeeps
<1>4. CASE UNCHANGED chatVars
  BY <1>4 DEF DecodeInv, Decodes, Waiting, DecodedWhole, chatVars, Read
<1>5. QED
  BY <1>1, <1>2, <1>3, <1>4 DEF ChatNext

-----------------------------------------------------------------------------
(* Totals *)

\* f[n] is the sum of the first n numbers of s; SumsTo says so of a function on 0..n.
Sums(f, s) ==
  /\ f[0] = 0
  /\ \A i \in 1..Len(s) : f[i] = f[i - 1] + s[i]

SumsTo(f, s, n) == f = [i \in 0..n |-> IF i = 0 THEN 0 ELSE f[i - 1] + s[i]]

\* The recursive definition of Total defines a function.
LEMMA SumsExists ==
  ASSUME NEW s, NEW n \in Nat
  PROVE  \E f : SumsTo(f, s, n)
<1> DEFINE S == {k \in Nat : \E f : SumsTo(f, s, k)}
<1>1. 0 \in S
  <2> DEFINE f == [i \in 0..0 |-> 0]
  <2>1. SumsTo(f, s, 0)
    BY DEF SumsTo
  <2> HIDE DEF f
  <2>2. QED
    BY <2>1
<1>2. ASSUME NEW k \in Nat, k \in S
      PROVE  k + 1 \in S
  <2>1. PICK f : SumsTo(f, s, k)
    BY <1>2
  <2> DEFINE g == [i \in 0..(k + 1) |-> IF i = k + 1 THEN f[k] + s[i] ELSE f[i]]
  <2>2. ASSUME NEW i \in 0..(k + 1)
        PROVE  g[i] = IF i = 0 THEN 0 ELSE g[i - 1] + s[i]
    <3>1. CASE i = k + 1
      <4>1. g[i] = f[k] + s[i] /\ g[i - 1] = f[k] /\ i # 0
        BY <3>1
      <4> HIDE DEF g
      <4>2. QED
        BY <4>1
    <3>2. CASE i # k + 1
      <4>1. i \in 0..k /\ g[i] = f[i]
        BY <3>2
      <4>2. f[i] = IF i = 0 THEN 0 ELSE f[i - 1] + s[i]
        BY <2>1, <4>1 DEF SumsTo
      <4>3. i # 0 => g[i - 1] = f[i - 1]
        BY <4>1
      <4> HIDE DEF g
      <4>4. QED
        BY <4>1, <4>2, <4>3
    <3>3. QED
      BY <3>1, <3>2
  <2>3. g = [i \in 0..(k + 1) |-> IF i = 0 THEN 0 ELSE g[i - 1] + s[i]]
    <3>1. g = [i \in 0..(k + 1) |-> g[i]]
      OBVIOUS
    <3> HIDE DEF g
    <3>2. QED
      BY <2>2, <3>1
  <2> HIDE DEF g
  <2>4. SumsTo(g, s, k + 1)
    BY <2>3 DEF SumsTo
  <2>5. QED
    BY <2>4
<1> HIDE DEF S
<1>3. n \in S
  BY <1>1, <1>2, Induct
<1>4. QED
  BY <1>3 DEF S

\* Total adds the numbers up.
LEMMA TotalSums ==
  ASSUME NEW s \in Seq(Nat)
  PROVE  \E f \in [0..Len(s) -> Nat] : Sums(f, s) /\ Total(s) = f[Len(s)]
<1>1. Len(s) \in Nat
  OBVIOUS
<1> DEFINE F == CHOOSE f : f = [i \in 0..Len(s) |-> IF i = 0 THEN 0 ELSE f[i - 1] + s[i]]
<1>2. F = [i \in 0..Len(s) |-> IF i = 0 THEN 0 ELSE F[i - 1] + s[i]]
  <2>1. \E f : f = [i \in 0..Len(s) |-> IF i = 0 THEN 0 ELSE f[i - 1] + s[i]]
    <3>1. \E f : SumsTo(f, s, Len(s))
      BY <1>1, SumsExists
    <3>2. QED
      BY <3>1 DEF SumsTo
  <2>2. QED
    BY <2>1, Zenon
<1>3. Total(s) = F[Len(s)]
  BY DEF Total
<1> HIDE DEF F
<1>4. \A i \in 0..Len(s) : F[i] = IF i = 0 THEN 0 ELSE F[i - 1] + s[i]
  BY <1>2
<1>5. F[0] = 0
  BY <1>1, <1>4
<1>6. ASSUME NEW i \in 1..Len(s) PROVE F[i] = F[i - 1] + s[i]
  <2>1. i \in 0..Len(s) /\ i # 0
    BY <1>1
  <2>2. QED
    BY <1>4, <2>1
<1>7. Sums(F, s)
  BY <1>5, <1>6 DEF Sums
<1>8. \A k \in 0..Len(s) : F[k] \in Nat
  <2> DEFINE S == {k \in Nat : k <= Len(s) => F[k] \in Nat}
  <2>1. 0 \in S
    BY <1>5
  <2>2. ASSUME NEW k \in Nat, k \in S PROVE k + 1 \in S
    <3>1. SUFFICES ASSUME k + 1 <= Len(s) PROVE F[k + 1] \in Nat
      OBVIOUS
    <3>2. F[k] \in Nat /\ k + 1 \in 1..Len(s) /\ (k + 1) - 1 = k
      BY <1>1, <2>2, <3>1
    <3>3. F[k + 1] = F[k] + s[k + 1] /\ s[k + 1] \in Nat
      BY <1>6, <3>2
    <3>4. QED
      BY <3>2, <3>3
  <2> HIDE DEF S
  <2>3. Nat \subseteq S
    BY <2>1, <2>2, Induct
  <2>4. QED
    BY <1>1, <2>3 DEF S
<1>9. F \in [0..Len(s) -> Nat]
  <2>1. F = [i \in 0..Len(s) |-> F[i]]
    BY <1>2
  <2>2. QED
    BY <1>8, <2>1
<1>10. QED
  BY <1>3, <1>7, <1>9

\* Whatever adds them up comes to the same total.
LEMMA TotalIs ==
  ASSUME NEW s \in Seq(Nat), NEW g, Sums(g, s)
  PROVE  g[Len(s)] = Total(s)
<1>1. PICK f \in [0..Len(s) -> Nat] : Sums(f, s) /\ Total(s) = f[Len(s)]
  BY TotalSums
<1> DEFINE S == {k \in Nat : k <= Len(s) => g[k] = f[k]}
<1>2. 0 \in S
  BY <1>1 DEF Sums
<1>3. ASSUME NEW k \in Nat, k \in S PROVE k + 1 \in S
  <2>1. SUFFICES ASSUME k + 1 <= Len(s) PROVE g[k + 1] = f[k + 1]
    OBVIOUS
  <2>2. g[k] = f[k] /\ k + 1 \in 1..Len(s) /\ (k + 1) - 1 = k
    BY <1>3, <2>1
  <2>3. g[k + 1] = g[k] + s[k + 1] /\ f[k + 1] = f[k] + s[k + 1]
    BY <1>1, <2>2 DEF Sums
  <2>4. QED
    BY <2>2, <2>3
<1> HIDE DEF S
<1>4. Len(s) \in S
  BY <1>2, <1>3, Induct
<1>5. QED
  BY <1>1, <1>4 DEF S

\* A total of natural numbers is one.
LEMMA TotalType ==
  ASSUME NEW s \in Seq(Nat)
  PROVE  Total(s) \in Nat
<1>1. PICK f \in [0..Len(s) -> Nat] : Total(s) = f[Len(s)]
  BY TotalSums
<1>2. Len(s) \in 0..Len(s)
  OBVIOUS
<1>3. QED
  BY <1>1, <1>2

\* Two sequences in a row total what each does, together.
LEMMA TotalConcat ==
  ASSUME NEW s \in Seq(Nat), NEW t \in Seq(Nat)
  PROVE  Total(s \o t) = Total(s) + Total(t)
<1>1. PICK f \in [0..Len(s) -> Nat] : Sums(f, s) /\ Total(s) = f[Len(s)]
  BY TotalSums
<1>2. PICK g \in [0..Len(t) -> Nat] : Sums(g, t) /\ Total(t) = g[Len(t)]
  BY TotalSums
<1> DEFINE u == s \o t
           h == [i \in 0..(Len(s) + Len(t)) |->
                   IF i <= Len(s) THEN f[i] ELSE f[Len(s)] + g[i - Len(s)]]
<1>3. /\ u \in Seq(Nat) /\ Len(u) = Len(s) + Len(t)
      /\ Len(s) \in Nat /\ Len(t) \in Nat
      /\ \A i \in 1..Len(s) : u[i] = s[i]
      /\ \A i \in 1..Len(t) : u[Len(s) + i] = t[i] /\ t[i] \in Nat
  BY Concat
<1>4. f[Len(s)] \in Nat /\ g[0] = 0
  <2>1. Len(s) \in 0..Len(s)
    BY <1>3
  <2>2. QED
    BY <1>1, <1>2, <2>1 DEF Sums
<1>5. /\ \A i \in 0..Len(s) : h[i] = f[i]
      /\ \A j \in 1..Len(t) : h[Len(s) + j] = f[Len(s)] + g[j]
  <2>1. \A j \in 1..Len(t) : /\ Len(s) + j \in 0..(Len(s) + Len(t))
                             /\ ~ (Len(s) + j <= Len(s)) /\ (Len(s) + j) - Len(s) = j
    BY <1>3
  <2>2. QED
    BY <1>3, <2>1
<1> HIDE DEF h, u
<1>6. \A j \in 0..Len(t) : h[Len(s) + j] = f[Len(s)] + g[j]
  <2> TAKE j \in 0..Len(t)
  <2>1. CASE j = 0
    <3>1. Len(s) + j = Len(s) /\ Len(s) \in 0..Len(s)
      BY <1>3, <2>1
    <3>2. QED
      BY <1>4, <1>5, <2>1, <3>1
  <2>2. CASE j # 0
    BY <1>3, <1>5, <2>2
  <2>3. QED
    BY <2>1, <2>2
<1>7. ASSUME NEW i \in 1..Len(u)
      PROVE  h[i] = h[i - 1] + u[i]
  <2>1. CASE i <= Len(s)
    <3>1. i \in 1..Len(s) /\ i \in 0..Len(s) /\ i - 1 \in 0..Len(s)
      BY <1>3, <2>1
    <3>2. h[i] = f[i] /\ h[i - 1] = f[i - 1] /\ u[i] = s[i]
      BY <1>3, <1>5, <3>1
    <3>3. f[i] = f[i - 1] + s[i]
      BY <1>1, <3>1 DEF Sums
    <3>4. QED
      BY <3>2, <3>3
  <2>2. CASE i > Len(s)
    <3>1. PICK j \in 1..Len(t) : i = Len(s) + j
      <4>1. i - Len(s) \in 1..Len(t) /\ i = Len(s) + (i - Len(s))
        BY <1>3, <2>2
      <4>2. QED
        BY <4>1
    <3>2. i - 1 = Len(s) + (j - 1) /\ j - 1 \in 0..Len(t) /\ j \in 0..Len(t)
      BY <1>3, <3>1
    <3>3. h[i] = f[Len(s)] + g[j] /\ h[i - 1] = f[Len(s)] + g[j - 1] /\ u[i] = t[j]
      BY <1>3, <1>6, <3>1, <3>2
    <3>4. g[j] = g[j - 1] + t[j] /\ g[j - 1] \in Nat /\ t[j] \in Nat
      BY <1>2, <1>3, <3>2 DEF Sums
    <3>5. QED
      BY <1>4, <3>3, <3>4
  <2>3. i <= Len(s) \/ i > Len(s)
    BY <1>3
  <2>4. QED
    BY <2>1, <2>2, <2>3
<1>8. h[0] = 0
  BY <1>1, <1>3, <1>5 DEF Sums
<1>9. Sums(h, u)
  BY <1>7, <1>8 DEF Sums
<1>10. h[Len(u)] = Total(u)
  BY <1>3, <1>9, TotalIs
<1>11. h[Len(u)] = f[Len(s)] + g[Len(t)]
  BY <1>3, <1>6
<1>12. QED
  BY <1>1, <1>2, <1>10, <1>11 DEF u

\* The totals of nothing and of one number.
LEMMA TotalSmall ==
  /\ Total(<<>>) = 0
  /\ \A n \in Nat : Total(<<n>>) = n
<1>1. Total(<<>>) = 0
  <2> DEFINE f == [i \in {0} |-> 0]
  <2>1. <<>> \in Seq(Nat) /\ Len(<<>>) = 0 /\ f[0] = 0
    OBVIOUS
  <2> HIDE DEF f
  <2>2. Sums(f, <<>>)
    BY <2>1 DEF Sums
  <2>3. QED
    BY <2>1, <2>2, TotalIs
<1>2. ASSUME NEW n \in Nat PROVE Total(<<n>>) = n
  <2> DEFINE f == [i \in 0..1 |-> IF i = 0 THEN 0 ELSE n]
  <2>1. <<n>> \in Seq(Nat) /\ Len(<<n>>) = 1 /\ f[0] = 0 /\ f[1] = n /\ <<n>>[1] = n
    OBVIOUS
  <2> HIDE DEF f
  <2>2. Sums(f, <<n>>)
    BY <2>1 DEF Sums
  <2>3. QED
    BY <2>1, <2>2, TotalIs
<1>3. QED
  BY <1>1, <1>2

-----------------------------------------------------------------------------
(* Messages and their costs *)

\* What a message may be
Roles == {"system", "user", "assistant", "tool"}

\* Only the model's messages make calls.
Msg == {m \in [role : Roles, size : Nat, calls : Seq(CallIds), id : CallIds \cup {""}] :
          m.role # "assistant" => m.calls = <<>>}

\* The smaller of two numbers.
LEMMA MinPair ==
  ASSUME NEW a \in Int, NEW b \in Int
  PROVE  Min({a, b}) = IF a <= b THEN a ELSE b
<1>1. CASE a <= b
  <2> DEFINE S == {a, b}
  <2>1. \A y \in S : a <= y
    BY <1>1
  <2>2. \A x \in S : (\A y \in S : x <= y) => x = a
    BY <1>1
  <2>3. Min(S) = a
    BY <2>1, <2>2 DEF Min
  <2>4. QED
    BY <1>1, <2>3
<1>2. CASE ~ (a <= b)
  <2> DEFINE S == {a, b}
  <2>1. \A y \in S : b <= y
    BY <1>2
  <2>2. \A x \in S : (\A y \in S : x <= y) => x = b
    BY <1>2
  <2>3. Min(S) = b
    BY <2>1, <2>2 DEF Min
  <2>4. QED
    BY <1>2, <2>3
<1>3. QED
  BY <1>1, <1>2

\* What the messages of a list cost, one by one
Costs(list) == [n \in DOMAIN list |-> Cost(list[n])]

\* Costs are natural numbers, and so is what a message costs beside its content.
LEMMA CostType ==
  ASSUME NEW m \in Msg
  PROVE  Cost(m) \in Nat /\ Cost(m) - m.size \in Nat /\ m.size \in Nat
<1>1. Len(m.calls) \in Nat /\ m.size \in Nat /\ Overhead \in Nat
  <2>1. m.calls \in Seq(CallIds) /\ m.size \in Nat
    BY DEF Msg
  <2>2. QED
    BY <2>1, BudgetAssumption
<1>2. QED
  BY <1>1 DEF Cost

\* The messages of two lists in a row cost what they cost in each.
LEMMA CostsConcat ==
  ASSUME NEW e \in Seq(Msg), NEW f \in Seq(Msg)
  PROVE  /\ Costs(e) \in Seq(Nat) /\ Costs(f) \in Seq(Nat)
         /\ Costs(e \o f) = Costs(e) \o Costs(f)
<1>1. /\ e \o f \in Seq(Msg) /\ Len(e \o f) = Len(e) + Len(f)
      /\ \A i \in 1..Len(e) : (e \o f)[i] = e[i]
      /\ \A j \in 1..Len(f) : (e \o f)[Len(e) + j] = f[j]
  BY Concat
<1>2. ASSUME NEW s \in Seq(Msg)
      PROVE  /\ Costs(s) \in Seq(Nat) /\ Len(Costs(s)) = Len(s)
             /\ \A i \in 1..Len(s) : Costs(s)[i] = Cost(s[i])
  <2>1. \A i \in 1..Len(s) : Cost(s[i]) \in Nat
    <3> TAKE i \in 1..Len(s)
    <3>1. s[i] \in Msg
      OBVIOUS
    <3>2. QED
      BY <3>1, CostType
  <2>2. DOMAIN s = 1..Len(s) /\ Len(s) \in Nat
    OBVIOUS
  <2>3. Costs(s) \in [1..Len(s) -> Nat] /\ \A i \in 1..Len(s) : Costs(s)[i] = Cost(s[i])
    BY <2>1, <2>2 DEF Costs
  <2>4. QED
    BY <2>2, <2>3
<1> DEFINE g == e \o f
           a == Costs(e)
           b == Costs(f)
           c == Costs(g)
<1>3. /\ a \in Seq(Nat) /\ b \in Seq(Nat) /\ c \in Seq(Nat)
      /\ Len(a) = Len(e) /\ Len(b) = Len(f) /\ Len(c) = Len(e) + Len(f)
  BY <1>1, <1>2
<1>4. /\ \A i \in 1..Len(e) : a[i] = Cost(e[i])
      /\ \A i \in 1..Len(f) : b[i] = Cost(f[i])
      /\ \A i \in 1..Len(g) : c[i] = Cost(g[i])
  BY <1>1, <1>2
<1>5. /\ \A i \in 1..Len(e) : g[i] = e[i] /\ i \in 1..Len(g)
      /\ \A j \in 1..Len(f) : g[Len(e) + j] = f[j] /\ Len(e) + j \in 1..Len(g)
  BY <1>1
<1> HIDE DEF a, b, c, g
<1>6. /\ \A i \in 1..Len(a) : c[i] = a[i]
      /\ \A j \in 1..Len(b) : c[Len(a) + j] = b[j]
  <2>1. Len(a) = Len(e) /\ Len(b) = Len(f)
    BY <1>3
  <2>2. \A i \in 1..Len(e) : c[i] = a[i]
    BY <1>4, <1>5
  <2>3. ASSUME NEW j \in 1..Len(f) PROVE c[Len(e) + j] = b[j]
    <3>1. g[Len(e) + j] = f[j] /\ Len(e) + j \in 1..Len(g)
      BY <1>5
    <3>2. PICK k \in 1..Len(g) : k = Len(e) + j
      BY <3>1
    <3>3. QED
      BY <1>4, <3>1, <3>2
  <2>4. QED
    BY <2>1, <2>2, <2>3
<1>7. Len(c) = Len(a) + Len(b)
  BY <1>3
<1>8. c = a \o b
  BY <1>3, <1>6, <1>7, ConcatIs
<1>9. QED
  BY <1>3, <1>8 DEF a, b, c, g

\* What messages cost in a row is what they cost together.
LEMMA CostOfConcat ==
  ASSUME NEW e \in Seq(Msg), NEW f \in Seq(Msg)
  PROVE  CostOf(e) \in Nat /\ CostOf(e \o f) = CostOf(e) + CostOf(f)
<1>1. \A s : CostOf(s) = Total(Costs(s))
  BY DEF CostOf, Costs
<1>2. Total(Costs(e) \o Costs(f)) = Total(Costs(e)) + Total(Costs(f)) /\ Total(Costs(e)) \in Nat
  BY CostsConcat, TotalConcat, TotalType
<1>3. QED
  BY <1>1, <1>2, CostsConcat

\* The costs of no message and of one.
LEMMA CostOfSmall ==
  /\ CostOf(<<>>) = 0
  /\ \A m \in Msg : CostOf(<<m>>) = Cost(m)
<1>1. Costs(<<>>) = <<>>
  BY DEF Costs
<1>2. ASSUME NEW m \in Msg PROVE CostOf(<<m>>) = Cost(m)
  <2>1. Costs(<<m>>) = <<Cost(m)>>
    BY DEF Costs
  <2>2. Cost(m) \in Nat
    BY CostType
  <2>3. Total(<<Cost(m)>>) = Cost(m)
    BY <2>2, TotalSmall
  <2>4. QED
    BY <2>1, <2>3 DEF CostOf, Costs
<1>3. CostOf(<<>>) = 0
  BY <1>1, TotalSmall DEF CostOf, Costs
<1>4. QED
  BY <1>2, <1>3

\* What is left of a message costs no more than there is, and what has room stays.
LEMMA CutIs ==
  ASSUME NEW m \in Msg, NEW left \in Int
  PROVE  \/ /\ Cut(m, left) = <<>>
            /\ left <= Cost(m) - m.size
         \/ \E k \in Msg :
              /\ Cut(m, left) = <<k>>
              /\ k.role = m.role /\ k.calls = m.calls /\ k.id = m.id
              /\ Cost(k) <= left
              /\ Cost(m) <= left => k = m
<1>1. Cost(m) - m.size \in Nat /\ m.size \in Nat /\ Cost(m) \in Nat
  BY CostType
<1>2. PICK over \in Nat : over = Cost(m) - m.size
  BY <1>1
<1>3. over = Overhead + Len(m.calls) /\ Overhead \in Nat /\ Len(m.calls) \in Nat
  <2>1. m.calls \in Seq(CallIds)
    BY DEF Msg
  <2>2. Len(m.calls) \in Nat /\ Overhead \in Nat
    BY <2>1, BudgetAssumption
  <2>3. QED
    BY <1>1, <1>2, <2>2 DEF Cost
<1>4. CASE left <= over
  BY <1>2, <1>4 DEF Cut
<1>5. CASE ~ (left <= over)
  <2> DEFINE size == Min({m.size, left - (Cost(m) - m.size)})
             k == [m EXCEPT !.size = size]
  <2>1. Cut(m, left) = <<k>>
    BY <1>2, <1>5 DEF Cut
  <2>2. left - over \in Int /\ m.size \in Int
    BY <1>1
  <2>3. size = IF m.size <= left - over THEN m.size ELSE left - over
    BY <1>2, <2>2, MinPair
  <2> HIDE DEF size
  <2>4. size \in Nat /\ over + size <= left
    BY <1>1, <1>5, <2>3
  <2>5. k \in Msg /\ k.role = m.role /\ k.calls = m.calls /\ k.id = m.id /\ k.size = size
    BY <2>4 DEF Msg
  <2>6. Cost(k) = over + size
    BY <1>3, <2>5 DEF Cost
  <2>7. Cost(m) <= left => k = m
    <3>1. SUFFICES ASSUME Cost(m) <= left PROVE k = m
      OBVIOUS
    <3>2. size = m.size
      BY <1>1, <1>2, <2>3, <3>1
    <3>3. QED
      BY <3>2 DEF Msg
  <2> HIDE DEF k
  <2>8. QED
    BY <2>1, <2>4, <2>5, <2>6, <2>7
<1>6. QED
  BY <1>4, <1>5

-----------------------------------------------------------------------------
(* Exchanges *)

\* An exchange stays one wherever its messages are.
LEMMA ExchangeMoved ==
  ASSUME NEW a \in Seq(Msg), NEW c \in Seq(Msg), NEW i \in 1..Len(a), NEW j \in 1..Len(c),
         IsExchange(a, i),
         c[j] = a[i], j + Len(a[i].calls) <= Len(c),
         \A n \in 1..Len(a[i].calls) : c[j + n] = a[i + n]
  PROVE  IsExchange(c, j)
<1> DEFINE called == a[i].calls
<1>1. a[i] \in Msg
  OBVIOUS
<1>2. called \in Seq(CallIds) /\ c[j].calls = called
  BY <1>1 DEF Msg
<1>3. DOMAIN called = 1..Len(called)
  BY <1>2
<1>4. \A n \in DOMAIN called : c[j + n] = a[i + n]
  BY <1>3
<1>5. {c[j + n].id : n \in DOMAIN called} = {a[i + n].id : n \in DOMAIN called}
  BY <1>4
<1> HIDE DEF called
<1>6. /\ a[i].role = "assistant" /\ called # <<>>
      /\ Cardinality(Range(called)) = Len(called)
      /\ \A n \in DOMAIN called : a[i + n].role = "tool"
      /\ {a[i + n].id : n \in DOMAIN called} = Range(called)
  BY DEF IsExchange, called
<1>7. j + Len(called) <= Len(c) /\ c[j].role = "assistant"
  BY <1>6 DEF called
<1>8. \A n \in DOMAIN called : c[j + n].role = "tool"
  BY <1>4, <1>6
<1>9. QED
  BY <1>2, <1>5, <1>6, <1>7, <1>8 DEF IsExchange

\* Nothing is whole.
LEMMA WholeNothing == Whole(<<>>)
BY DEF Whole

\* So is a message that neither calls nor answers.
LEMMA WholeSingle ==
  ASSUME NEW m \in Msg, m.calls = <<>>, m.role # "tool"
  PROVE  Whole(<<m>>)
BY DEF Whole

\* What is whole stays so in a row: exchanges do not reach into what follows.
LEMMA WholeConcat ==
  ASSUME NEW a \in Seq(Msg), NEW b \in Seq(Msg), Whole(a), Whole(b)
  PROVE  Whole(a \o b)
<1> DEFINE c == a \o b
<1>1. /\ c \in Seq(Msg) /\ Len(c) = Len(a) + Len(b) /\ Len(a) \in Nat /\ Len(b) \in Nat
      /\ \A i \in 1..Len(a) : c[i] = a[i]
      /\ \A j \in 1..Len(b) : c[Len(a) + j] = b[j]
  BY Concat
<1> HIDE DEF c
<1>2. ASSUME NEW i \in 1..Len(a), IsExchange(a, i)
      PROVE  IsExchange(c, i) /\ c[i].calls = a[i].calls
  <2>1. i + Len(a[i].calls) <= Len(a) /\ a[i] \in Msg
    BY <1>2 DEF IsExchange
  <2>2. a[i].calls \in Seq(CallIds)
    BY <2>1 DEF Msg
  <2>3. PICK k \in Nat : k = Len(a[i].calls)
    BY <2>2
  <2>4. \A n \in 1..k : i + n \in 1..Len(a)
    BY <1>1, <2>1, <2>3
  <2>5. \A n \in 1..Len(a[i].calls) : c[i + n] = a[i + n]
    BY <1>1, <2>3, <2>4
  <2>6. i \in 1..Len(c) /\ c[i] = a[i] /\ i + Len(a[i].calls) <= Len(c)
    BY <1>1, <2>1, <2>3
  <2>7. QED
    BY <1>1, <1>2, <2>5, <2>6, ExchangeMoved
<1>3. ASSUME NEW i \in 1..Len(b), IsExchange(b, i)
      PROVE  IsExchange(c, Len(a) + i) /\ c[Len(a) + i].calls = b[i].calls
  <2>1. i + Len(b[i].calls) <= Len(b) /\ b[i] \in Msg
    BY <1>3 DEF IsExchange
  <2>2. b[i].calls \in Seq(CallIds)
    BY <2>1 DEF Msg
  <2>3. PICK k \in Nat : k = Len(b[i].calls)
    BY <2>2
  <2>4. PICK j \in Nat : j = Len(a) + i
    BY <1>1
  <2>5. \A n \in 1..k : i + n \in 1..Len(b) /\ j + n = Len(a) + (i + n)
    BY <1>1, <2>1, <2>3, <2>4
  <2>6. \A n \in 1..Len(b[i].calls) : c[j + n] = b[i + n]
    BY <1>1, <2>3, <2>5
  <2>7. j \in 1..Len(c) /\ c[j] = b[i] /\ j + Len(b[i].calls) <= Len(c)
    <3>1. i + k <= Len(b) /\ c[Len(a) + i] = b[i]
      BY <1>1, <2>1, <2>3
    <3>2. PICK la \in Nat, lb \in Nat : la = Len(a) /\ lb = Len(b) /\ Len(c) = la + lb
      BY <1>1
    <3>3. i \in 1..lb /\ i + k <= lb /\ j = la + i
      BY <2>4, <3>1, <3>2
    <3>4. j \in 1..(la + lb) /\ j + k <= la + lb
      BY <3>3
    <3>5. QED
      BY <2>3, <2>4, <3>1, <3>2, <3>4
  <2>8. IsExchange(c, j)
    BY <1>1, <1>3, <2>6, <2>7, ExchangeMoved
  <2>9. QED
    BY <2>4, <2>7, <2>8
<1>4. ASSUME NEW i \in 1..Len(c)
      PROVE  /\ c[i].calls # <<>> => IsExchange(c, i)
             /\ c[i].role = "tool" =>
                  \E j \in 1..(i - 1) : IsExchange(c, j) /\ i <= j + Len(c[j].calls)
  <2>1. CASE i <= Len(a)
    <3>1. i \in 1..Len(a) /\ i \in DOMAIN a /\ c[i] = a[i]
      BY <1>1, <2>1
    <3>2. c[i].calls # <<>> => IsExchange(c, i)
      BY <1>2, <3>1 DEF Whole
    <3>3. ASSUME c[i].role = "tool"
          PROVE  \E j \in 1..(i - 1) : IsExchange(c, j) /\ i <= j + Len(c[j].calls)
      <4>1. PICK j \in 1..(i - 1) : IsExchange(a, j) /\ i <= j + Len(a[j].calls)
        BY <3>1, <3>3 DEF Whole
      <4>2. j \in 1..Len(a)
        BY <1>1, <3>1
      <4>3. QED
        BY <1>2, <4>1, <4>2
    <3>4. QED
      BY <3>2, <3>3
  <2>2. CASE i > Len(a)
    <3>1. PICK k \in 1..Len(b) : i = Len(a) + k
      <4>1. i - Len(a) \in 1..Len(b) /\ i = Len(a) + (i - Len(a))
        BY <1>1, <2>2
      <4>2. QED
        BY <4>1
    <3>2. k \in DOMAIN b /\ c[i] = b[k]
      BY <1>1, <3>1
    <3>3. c[i].calls # <<>> => IsExchange(c, i)
      BY <1>3, <3>1, <3>2 DEF Whole
    <3>4. ASSUME c[i].role = "tool"
          PROVE  \E j \in 1..(i - 1) : IsExchange(c, j) /\ i <= j + Len(c[j].calls)
      <4>1. PICK j \in 1..(k - 1) : IsExchange(b, j) /\ k <= j + Len(b[j].calls)
        BY <3>2, <3>4 DEF Whole
      <4>2. j \in 1..Len(b) /\ Len(a) + j \in 1..(i - 1)
        BY <1>1, <3>1
      <4>3. IsExchange(c, Len(a) + j) /\ c[Len(a) + j].calls = b[j].calls
        BY <1>3, <4>1, <4>2
      <4>4. b[j] \in Msg
        BY <4>2
      <4>5. b[j].calls \in Seq(CallIds)
        BY <4>4 DEF Msg
      <4>6. Len(b[j].calls) \in Nat
        BY <4>5
      <4>7. i <= (Len(a) + j) + Len(b[j].calls)
        <5>1. PICK l \in Nat, la \in Nat : l = Len(b[j].calls) /\ la = Len(a)
          BY <1>1, <4>6
        <5>2. i = la + k /\ k <= j + l /\ j \in Nat /\ k \in Nat
          BY <3>1, <4>1, <4>2, <5>1
        <5>3. la + k <= (la + j) + l
          BY <5>2
        <5>4. QED
          BY <5>1, <5>2, <5>3
      <4>8. QED
        BY <4>2, <4>3, <4>7
    <3>5. QED
      BY <3>3, <3>4
  <2>3. i <= Len(a) \/ i > Len(a)
    BY <1>1
  <2>4. QED
    BY <2>1, <2>2, <2>3
<1>5. DOMAIN c = 1..Len(c)
  BY <1>1
<1>6. Whole(c)
  BY <1>4, <1>5 DEF Whole
<1>7. QED
  BY <1>6 DEF c

\* The messages of an exchange, by themselves, are one.
LEMMA WholeExchange ==
  ASSUME NEW list \in Seq(Msg), NEW i \in 1..Len(list), IsExchange(list, i)
  PROVE  LET u == SubSeq(list, i, i + Len(list[i].calls))
         IN  /\ u \in Seq(Msg) /\ u # <<>> /\ u[1] = list[i]
             /\ Whole(u)
             /\ \A n \in DOMAIN u : u[n].role # "user"
<1>1. list[i] \in Msg /\ i + Len(list[i].calls) <= Len(list) /\ list[i].role = "assistant"
  BY DEF IsExchange
<1>2. list[i].calls \in Seq(CallIds)
  BY <1>1 DEF Msg
<1>3. PICK k \in Nat : k = Len(list[i].calls)
  BY <1>2
<1> DEFINE u == SubSeq(list, i, i + k)
<1>4. /\ u \in Seq(Msg) /\ Len(u) = k + 1 /\ DOMAIN u = 1..(k + 1)
      /\ \A n \in 1..(k + 1) : u[n] = list[i + n - 1]
  <2>1. Len(list) \in Nat /\ i \in Nat /\ i + k <= Len(list)
    BY <1>1, <1>3
  <2>2. \A n \in 1..(k + 1) : i + n - 1 \in 1..Len(list)
    BY <2>1
  <2>3. /\ u \in Seq(Msg) /\ Len(u) = (i + k) - i + 1
        /\ \A n \in 1..((i + k) - i + 1) : u[n] = list[i + n - 1]
    BY <2>1, SubSeqProperties
  <2>4. (i + k) - i + 1 = k + 1
    BY <2>1
  <2> HIDE DEF u
  <2>5. QED
    BY <2>3, <2>4
<1> HIDE DEF u
<1>5. u[1] = list[i] /\ \A n \in 1..k : u[1 + n] = list[i + n]
  <2>1. 1 \in 1..(k + 1) /\ i + 1 - 1 = i
    BY <1>3
  <2>2. \A n \in 1..k : 1 + n \in 1..(k + 1) /\ i + (1 + n) - 1 = i + n
    BY <1>3
  <2>3. QED
    BY <1>4, <2>1, <2>2
<1>6. IsExchange(u, 1)
  <2>1. 1 \in 1..Len(u) /\ 1 + k <= Len(u)
    BY <1>3, <1>4
  <2>2. QED
    BY <1>3, <1>4, <1>5, <2>1, ExchangeMoved
<1>7. ASSUME NEW n \in 1..k
      PROVE  u[1 + n].role = "tool" /\ u[1 + n].calls = <<>>
  <2>1. n \in DOMAIN list[i].calls
    BY <1>2, <1>3
  <2>2. list[i + n].role = "tool"
    BY <2>1 DEF IsExchange
  <2>3. u[1 + n].role = "tool" /\ 1 + n \in 1..Len(u)
    BY <1>3, <1>4, <1>5, <2>2
  <2>4. u[1 + n] \in Msg
    BY <1>4, <2>3
  <2>5. QED
    BY <2>3, <2>4 DEF Msg
<1>8. \A n \in 1..(k + 1) : n # 1 => \E p \in 1..k : n = 1 + p
  <2> TAKE n \in 1..(k + 1)
  <2>1. n # 1 => n - 1 \in 1..k /\ n = 1 + (n - 1)
    BY <1>3
  <2>2. QED
    BY <2>1
<1>9. \A n \in 1..(k + 1) : n # 1 => u[n].role = "tool" /\ u[n].calls = <<>>
  BY <1>7, <1>8
<1>10. Len(u[1].calls) = k
  BY <1>3, <1>5
<1>11. Whole(u)
  <2>1. ASSUME NEW n \in 1..(k + 1)
        PROVE  /\ u[n].calls # <<>> => IsExchange(u, n)
               /\ u[n].role = "tool" =>
                    \E j \in 1..(n - 1) : IsExchange(u, j) /\ n <= j + Len(u[j].calls)
    <3>1. CASE n = 1
      BY <1>1, <1>5, <1>6, <3>1
    <3>2. CASE n # 1
      <4>1. 1 \in 1..(n - 1) /\ n <= 1 + k
        BY <1>3, <3>2
      <4>2. QED
        BY <1>6, <1>9, <1>10, <3>2, <4>1
    <3>3. QED
      BY <3>1, <3>2
  <2>2. QED
    BY <1>4, <2>1 DEF Whole
<1>12. \A n \in DOMAIN u : u[n].role # "user"
  BY <1>1, <1>4, <1>5, <1>9
<1>13. u # <<>>
  BY <1>3, <1>4
<1>14. QED
  BY <1>3, <1>4, <1>5, <1>11, <1>12, <1>13 DEF u

-----------------------------------------------------------------------------
(* What is kept *)

\* A message that is cut is whole and within what is left (bounded_copy).
LEMMA CutSound ==
  ASSUME NEW m \in Msg, NEW left \in Nat, m.calls = <<>>, m.role # "tool"
  PROVE  /\ Cut(m, left) \in Seq(Msg) /\ Whole(Cut(m, left))
         /\ CostOf(Cut(m, left)) \in 0..left
         /\ \A n \in DOMAIN Cut(m, left) : Cut(m, left)[n].role = m.role
<1>1. CASE Cut(m, left) = <<>>
  <2>1. CostOf(Cut(m, left)) = 0 /\ Whole(Cut(m, left))
    BY <1>1, CostOfSmall, WholeNothing
  <2>2. QED
    BY <1>1, <2>1
<1>2. CASE Cut(m, left) # <<>>
  <2>1. PICK k \in Msg : /\ Cut(m, left) = <<k>>
                         /\ k.role = m.role /\ k.calls = m.calls
                         /\ Cost(k) <= left
    BY <1>2, CutIs
  <2>2. CostOf(<<k>>) = Cost(k) /\ Cost(k) \in Nat
    BY CostOfSmall, CostType
  <2>3. Whole(<<k>>)
    BY <2>1, WholeSingle
  <2>4. QED
    BY <2>1, <2>2, <2>3
<1>3. QED
  BY <1>1, <1>2

\* A unit is nothing, a message that neither calls nor answers, or a whole exchange.
LEMMA UnitIs ==
  ASSUME NEW list \in Seq(Msg), NEW i \in 1..Len(list)
  PROVE  \/ Unit(list, i) = <<>>
         \/ /\ Unit(list, i) = <<list[i]>>
            /\ list[i].calls = <<>> /\ list[i].role # "tool"
         \/ /\ Unit(list, i) \in Seq(Msg) /\ Unit(list, i) # <<>>
            /\ Whole(Unit(list, i)) /\ Unit(list, i)[1].calls # <<>>
            /\ \A n \in DOMAIN Unit(list, i) : Unit(list, i)[n].role # "user"
<1>1. CASE list[i].role = "tool"
  BY <1>1 DEF Unit
<1>2. CASE list[i].role # "tool" /\ IsExchange(list, i)
  <2> DEFINE u == SubSeq(list, i, i + Len(list[i].calls))
  <2>1. Unit(list, i) = u
    BY <1>2 DEF Unit
  <2>2. /\ u \in Seq(Msg) /\ u # <<>> /\ u[1] = list[i]
        /\ Whole(u) /\ \A n \in DOMAIN u : u[n].role # "user"
    BY <1>2, WholeExchange
  <2>3. list[i].calls # <<>>
    BY <1>2 DEF IsExchange
  <2> HIDE DEF u
  <2>4. QED
    BY <2>1, <2>2, <2>3
<1>3. CASE list[i].role # "tool" /\ ~ IsExchange(list, i)
  BY <1>3 DEF Unit
<1>4. QED
  BY <1>1, <1>2, <1>3

\* What is kept of a unit is whole and within what is left; it holds no question
\* unless the unit is one.
LEMMA KeptSound ==
  ASSUME NEW list \in Seq(Msg), NEW i \in 1..Len(list), NEW left \in Nat
  PROVE  LET kept == Kept(Unit(list, i), left)
         IN  /\ kept \in Seq(Msg) /\ Whole(kept) /\ CostOf(kept) \in 0..left
             /\ list[i].role # "user" => \A n \in DOMAIN kept : kept[n].role # "user"
<1> DEFINE u == Unit(list, i)
           kept == Kept(u, left)
<1>1. list[i] \in Msg
  OBVIOUS
<1>2. CASE kept = <<>>
  <2>1. CostOf(kept) = 0 /\ Whole(kept) /\ kept \in Seq(Msg)
    BY <1>2, CostOfSmall, WholeNothing
  <2>2. \A n \in DOMAIN kept : kept[n].role # "user"
    BY <1>2
  <2> HIDE DEF kept
  <2>3. QED
    BY <2>1, <2>2 DEF kept
<1>3. CASE kept # <<>> /\ u = <<list[i]>> /\ list[i].calls = <<>> /\ list[i].role # "tool"
  <2>1. kept = Cut(list[i], left)
    BY <1>3 DEF Kept
  <2>2. /\ Cut(list[i], left) \in Seq(Msg) /\ Whole(Cut(list[i], left))
        /\ CostOf(Cut(list[i], left)) \in 0..left
        /\ \A n \in DOMAIN Cut(list[i], left) : Cut(list[i], left)[n].role = list[i].role
    BY <1>1, <1>3, CutSound
  <2> HIDE DEF kept
  <2>3. QED
    BY <2>1, <2>2 DEF kept
<1>4. CASE /\ kept # <<>> /\ u \in Seq(Msg) /\ u # <<>> /\ Whole(u) /\ u[1].calls # <<>>
           /\ \A n \in DOMAIN u : u[n].role # "user"
  <2>1. kept = u /\ ~ (CostOf(u) > left)
    <3> HIDE DEF u
    <3>1. QED
      BY <1>4 DEF Kept
  <2>2. CostOf(u) \in Nat
    <3>1. <<>> \in Seq(Msg)
      OBVIOUS
    <3> HIDE DEF u
    <3>2. QED
      BY <1>4, <3>1, CostOfConcat
  <2> HIDE DEF kept, u
  <2>3. QED
    BY <1>4, <2>1, <2>2 DEF kept, u
<1>5. CASE u = <<>>
  <2>1. kept = <<>>
    BY <1>5 DEF Kept
  <2>2. QED
    BY <1>2, <2>1
<1>6. \/ u = <<>>
      \/ u = <<list[i]>> /\ list[i].calls = <<>> /\ list[i].role # "tool"
      \/ /\ u \in Seq(Msg) /\ u # <<>> /\ Whole(u) /\ u[1].calls # <<>>
         /\ \A n \in DOMAIN u : u[n].role # "user"
  BY UnitIs
<1> HIDE DEF kept, u
<1>7. QED
  BY <1>2, <1>3, <1>4, <1>5, <1>6 DEF kept, u

-----------------------------------------------------------------------------
(* The newest question *)

\* The newest question is one, and none follows it.
LEMMA LastQuestionIs ==
  ASSUME NEW list \in Seq(Msg)
  PROVE  LET q == LastQuestion(list)
         IN  /\ q \in 0..Len(list)
             /\ q # 0 => list[q].role = "user"
             /\ \A j \in 1..Len(list) : j > q => list[j].role # "user"
<1> DEFINE E == {0} \cup {i \in DOMAIN list : list[i].role = "user"}
           S == {k \in Nat : \E e \in E : k + e = Len(list)}
<1>1. Len(list) \in Nat /\ DOMAIN list = 1..Len(list)
  OBVIOUS
<1>2. \A e \in E : e \in 0..Len(list)
  BY <1>1
<1>3. Len(list) \in S
  <2>1. Len(list) + 0 = Len(list) /\ 0 \in E
    BY <1>1
  <2>2. QED
    BY <1>1, <2>1
<1>4. PICK k \in S : \A m \in S : k <= m
  <2>1. S \in SUBSET Nat /\ S # {}
    BY <1>3
  <2> HIDE DEF S
  <2>2. QED
    BY <2>1, LeastNumber
<1>5. PICK top \in E : k + top = Len(list) /\ k \in Nat
  BY <1>4
<1>6. \A e \in E : e <= top
  <2> TAKE e \in E
  <2>1. e \in 0..Len(list) /\ top \in 0..Len(list)
    BY <1>2
  <2>2. Len(list) - e \in Nat /\ (Len(list) - e) + e = Len(list)
    <3>1. PICK n \in Nat : n = Len(list)
      BY <1>1
    <3>2. e \in 0..n
      BY <2>1, <3>1
    <3>3. n - e \in Nat /\ (n - e) + e = n
      BY <3>2
    <3>4. QED
      BY <3>1, <3>3
  <2>3. Len(list) - e \in S
    BY <2>2
  <2> HIDE DEF E, S
  <2>4. k <= Len(list) - e
    BY <1>4, <2>3
  <2>5. QED
    <3>1. PICK n \in Nat : n = Len(list)
      BY <1>1
    <3>2. k + top = n /\ k <= n - e /\ e \in Nat /\ top \in Nat /\ k \in Nat
      BY <1>4, <1>5, <2>1, <2>4, <3>1
    <3>3. QED
      BY <3>2
<1>7. \A x \in E : (\A y \in E : y <= x) => x = top
  <2> TAKE x \in E
  <2>1. x \in 0..Len(list) /\ top \in 0..Len(list) /\ x <= top
    BY <1>2, <1>6
  <2>2. (\A y \in E : y <= x) => top <= x
    OBVIOUS
  <2> HIDE DEF E
  <2>3. QED
    BY <2>1, <2>2
<1>8. Max(E) = top
  <2> HIDE DEF E
  <2>1. \A y \in E : top >= y
    BY <1>2, <1>6
  <2>2. \A x \in E : (\A y \in E : x >= y) => x = top
    BY <1>2, <1>7
  <2>3. QED
    BY <2>1, <2>2 DEF Max
<1>9. LastQuestion(list) = top
  BY <1>8 DEF LastQuestion
<1>10. top \in 0..Len(list) /\ (top # 0 => list[top].role = "user")
  BY <1>2
<1>11. \A j \in 1..Len(list) : j > top => list[j].role # "user"
  <2> TAKE j \in 1..Len(list)
  <2>1. list[j].role = "user" => j \in E
    BY <1>1
  <2>2. j \in E => j <= top
    BY <1>6
  <2> HIDE DEF E
  <2>3. QED
    BY <1>10, <2>1, <2>2
<1>12. QED
  BY <1>9, <1>10, <1>11

-----------------------------------------------------------------------------
(* Bounded *)

\* What is kept of the instructions and of the newest question
First(list) == Cut(list[1], Budget)

Second(list) ==
  IF LastQuestion(list) = 0 THEN <<>>
  ELSE Cut(list[LastQuestion(list)], Budget - CostOf(First(list)))

\* What is kept of position i when this much is spent
Part(list, i, used) ==
  IF i = 1 THEN First(list) ELSE IF i = LastQuestion(list) THEN Second(list)
  ELSE Kept(Unit(list, i), Budget - used)

\* What position i adds to what was spent before
Adds(list, i, used) ==
  IF i \in {1, LastQuestion(list)} THEN 0 ELSE CostOf(Part(list, i, used))

\* f[n] is what is spent on the two and on the n newest messages; SpendsTo says so of
\* a function on 0..n.
Spends(f, list) ==
  /\ f[0] = CostOf(First(list)) + CostOf(Second(list))
  /\ \A n \in 1..Len(list) : f[n] = f[n - 1] + Adds(list, Len(list) + 1 - n, f[n - 1])

SpendsTo(f, list, n) ==
  f = [k \in 0..n |->
         IF k = 0 THEN CostOf(First(list)) + CostOf(Second(list))
         ELSE f[k - 1] + Adds(list, Len(list) + 1 - k, f[k - 1])]

\* The recursive definition of what is spent defines a function.
LEMMA SpendsExists ==
  ASSUME NEW list, NEW n \in Nat
  PROVE  \E f : SpendsTo(f, list, n)
<1> DEFINE S == {k \in Nat : \E f : SpendsTo(f, list, k)}
           base == CostOf(First(list)) + CostOf(Second(list))
           at(k) == Len(list) + 1 - k
<1> HIDE DEF base, at
<1>0. \A f, k : SpendsTo(f, list, k) <=>
        f = [i \in 0..k |-> IF i = 0 THEN base ELSE f[i - 1] + Adds(list, at(i), f[i - 1])]
  BY DEF SpendsTo, base, at
<1>1. 0 \in S
  <2> DEFINE f == [i \in 0..0 |-> base]
  <2>1. f = [i \in 0..0 |-> IF i = 0 THEN base ELSE f[i - 1] + Adds(list, at(i), f[i - 1])]
    OBVIOUS
  <2> HIDE DEF f
  <2>2. QED
    BY <1>0, <2>1
<1>2. ASSUME NEW k \in Nat, k \in S
      PROVE  k + 1 \in S
  <2>1. PICK f : f = [i \in 0..k |-> IF i = 0 THEN base ELSE f[i - 1] + Adds(list, at(i), f[i - 1])]
    BY <1>0, <1>2
  <2> DEFINE g == [i \in 0..(k + 1) |->
                     IF i = k + 1 THEN f[k] + Adds(list, at(i), f[k]) ELSE f[i]]
  <2>2. ASSUME NEW i \in 0..(k + 1)
        PROVE  g[i] = IF i = 0 THEN base ELSE g[i - 1] + Adds(list, at(i), g[i - 1])
    <3>1. CASE i = k + 1
      <4>1. g[i] = f[k] + Adds(list, at(i), f[k]) /\ g[i - 1] = f[k] /\ i # 0
        BY <3>1
      <4> HIDE DEF g
      <4>2. QED
        BY <4>1
    <3>2. CASE i # k + 1
      <4>1. i \in 0..k /\ g[i] = f[i]
        BY <3>2
      <4>2. f[i] = IF i = 0 THEN base ELSE f[i - 1] + Adds(list, at(i), f[i - 1])
        BY <2>1, <4>1
      <4>3. i # 0 => g[i - 1] = f[i - 1]
        BY <4>1
      <4> HIDE DEF g
      <4>4. QED
        BY <4>1, <4>2, <4>3
    <3>3. QED
      BY <3>1, <3>2
  <2>3. g = [i \in 0..(k + 1) |-> IF i = 0 THEN base ELSE g[i - 1] + Adds(list, at(i), g[i - 1])]
    <3>1. g = [i \in 0..(k + 1) |-> g[i]]
      OBVIOUS
    <3> HIDE DEF g
    <3>2. QED
      BY <2>2, <3>1
  <2> HIDE DEF g
  <2>4. SpendsTo(g, list, k + 1)
    BY <1>0, <2>3
  <2>5. QED
    BY <2>4
<1> HIDE DEF S
<1>3. n \in S
  BY <1>1, <1>2, Induct
<1>4. QED
  BY <1>3 DEF S

\* Bounded keeps of every position what the budget has left for it.
LEMMA BoundedIs ==
  ASSUME NEW list \in Seq(Msg)
  PROVE  \E f : /\ Spends(f, list)
                /\ Bounded(list) =
                     FlattenSeq([i \in DOMAIN list |-> Part(list, i, f[Len(list) - i])])
<1>1. Len(list) \in Nat
  OBVIOUS
<1> DEFINE F == CHOOSE f :
                  f = [k \in 0..Len(list) |->
                         IF k = 0 THEN CostOf(First(list)) + CostOf(Second(list))
                         ELSE f[k - 1] + Adds(list, Len(list) + 1 - k, f[k - 1])]
<1>2. SpendsTo(F, list, Len(list))
  <2>1. \E f : SpendsTo(f, list, Len(list))
    BY <1>1, SpendsExists
  <2>2. \E f : f = [k \in 0..Len(list) |->
                      IF k = 0 THEN CostOf(First(list)) + CostOf(Second(list))
                      ELSE f[k - 1] + Adds(list, Len(list) + 1 - k, f[k - 1])]
    BY <2>1, Zenon DEF SpendsTo
  <2>3. QED
    BY <2>2, Zenon DEF SpendsTo
<1>3. Bounded(list) = FlattenSeq([i \in DOMAIN list |-> Part(list, i, F[Len(list) - i])])
  BY DEF Bounded, Part, Adds, First, Second
<1> HIDE DEF F
<1>4. \A k \in 0..Len(list) :
        F[k] = IF k = 0 THEN CostOf(First(list)) + CostOf(Second(list))
               ELSE F[k - 1] + Adds(list, Len(list) + 1 - k, F[k - 1])
  BY <1>2 DEF SpendsTo
<1>5. Spends(F, list)
  <2>1. 0 \in 0..Len(list) /\ \A k \in 1..Len(list) : k \in 0..Len(list) /\ k # 0
    BY <1>1
  <2>2. F[0] = CostOf(First(list)) + CostOf(Second(list))
    BY <1>4, <2>1
  <2>3. \A k \in 1..Len(list) : F[k] = F[k - 1] + Adds(list, Len(list) + 1 - k, F[k - 1])
    BY <1>4, <2>1
  <2>4. QED
    BY <2>2, <2>3 DEF Spends
<1>6. QED
  BY <1>3, <1>5

\* A list of messages that begins with the instructions, as it may be sent or bounded
Begun(list) == list \in Seq(Msg) /\ Len(list) >= 1 /\ list[1] = SystemMessage

\* The instructions are a message with room in the budget.
LEMMA SystemType ==
  /\ SystemMessage \in Msg /\ SystemMessage.calls = <<>> /\ SystemMessage.role = "system"
  /\ Cost(SystemMessage) = Overhead + Instructions /\ SystemMessage.size = Instructions
  /\ Overhead \in Nat /\ Instructions \in Nat /\ Budget \in Nat
  /\ Cost(SystemMessage) < Budget /\ Cost(SystemMessage) \in Nat
<1>1. /\ SystemMessage.calls = <<>> /\ SystemMessage.role = "system"
      /\ SystemMessage.size = Instructions
  BY DEF SystemMessage, Message
<1>2. Overhead \in Nat /\ Instructions \in Nat /\ Budget \in Nat /\ Overhead + Instructions < Budget
  BY BudgetAssumption
<1>3. SystemMessage \in Msg
  <2>1. <<>> \in Seq(CallIds)
    OBVIOUS
  <2>2. QED
    BY <1>2, <2>1 DEF SystemMessage, Message, Msg, Roles
<1>4. Cost(SystemMessage) = Overhead + Instructions
  <2>1. Len(<<>>) = 0
    OBVIOUS
  <2>2. QED
    BY <1>1, <1>2, <2>1 DEF Cost
<1>5. QED
  BY <1>1, <1>2, <1>3, <1>4

\* They are kept whole.
LEMMA FirstIs ==
  ASSUME NEW list, Begun(list)
  PROVE  First(list) = <<SystemMessage>> /\ CostOf(First(list)) = Overhead + Instructions
<1>1. list[1] = SystemMessage
  BY DEF Begun
<1>2. First(list) = <<SystemMessage>>
  <2>1. Budget \in Int
    BY SystemType
  <2>2. \/ /\ Cut(SystemMessage, Budget) = <<>>
           /\ Budget <= Cost(SystemMessage) - SystemMessage.size
        \/ \E k \in Msg : /\ Cut(SystemMessage, Budget) = <<k>>
                          /\ Cost(SystemMessage) <= Budget => k = SystemMessage
    BY <2>1, SystemType, CutIs
  <2>3. ~ (Budget <= Cost(SystemMessage) - SystemMessage.size) /\ Cost(SystemMessage) <= Budget
    BY SystemType
  <2>4. Cut(SystemMessage, Budget) = <<SystemMessage>>
    BY <2>2, <2>3
  <2>5. QED
    BY <1>1, <2>4 DEF First
<1>3. CostOf(<<SystemMessage>>) = Overhead + Instructions
  BY SystemType, CostOfSmall
<1>4. QED
  BY <1>2, <1>3

\* The newest question is kept within what they leave.
LEMMA SecondIs ==
  ASSUME NEW list, Begun(list)
  PROVE  /\ Second(list) \in Seq(Msg) /\ Whole(Second(list))
         /\ CostOf(Second(list)) \in 0..(Budget - (Overhead + Instructions))
         /\ LastQuestion(list) = 0 => Second(list) = <<>>
<1> DEFINE q == LastQuestion(list)
<1>1. CASE q = 0
  <2>1. Second(list) = <<>>
    BY <1>1 DEF Second
  <2>2. Budget - (Overhead + Instructions) \in Nat
    BY SystemType
  <2>3. CostOf(<<>>) = 0 /\ <<>> \in Seq(Msg) /\ Whole(<<>>)
    BY CostOfSmall, WholeNothing
  <2> HIDE DEF q
  <2>4. QED
    BY <2>1, <2>2, <2>3 DEF q
<1>2. CASE q # 0
  <2>1. list \in Seq(Msg)
    BY DEF Begun
  <2>2. q \in 1..Len(list) /\ list[q].role = "user"
    BY <1>2, <2>1, LastQuestionIs
  <2>3. list[q] \in Msg
    BY <2>1, <2>2
  <2>4. list[q].calls = <<>> /\ list[q].role # "tool"
    BY <2>2, <2>3 DEF Msg
  <2>5. PICK left \in Nat : left = Budget - (Overhead + Instructions)
    BY SystemType
  <2>6. Second(list) = Cut(list[q], left)
    BY <1>2, <2>5, FirstIs DEF Second
  <2> HIDE DEF q
  <2>7. QED
    BY <1>2, <2>3, <2>4, <2>5, <2>6, CutSound DEF q
<1>3. QED
  BY <1>1, <1>2

\* What is kept of a position is whole and keeps the budget.
LEMMA PartIs ==
  ASSUME NEW list, Begun(list), NEW i \in 1..Len(list), NEW used \in 0..Budget
  PROVE  /\ Part(list, i, used) \in Seq(Msg) /\ Whole(Part(list, i, used))
         /\ CostOf(Part(list, i, used)) \in Nat
         /\ used + Adds(list, i, used) \in 0..Budget
         /\ i # LastQuestion(list) /\ list[i].role # "user" =>
              \A n \in DOMAIN Part(list, i, used) : Part(list, i, used)[n].role # "user"
<1>1. list \in Seq(Msg) /\ Budget \in Nat /\ used \in Nat
  BY SystemType DEF Begun
<1>2. CASE i = 1
  <2>1. Part(list, i, used) = <<SystemMessage>> /\ Adds(list, i, used) = 0
    BY <1>2, FirstIs DEF Part, Adds
  <2>2. SystemMessage \in Msg /\ Whole(<<SystemMessage>>) /\ SystemMessage.role # "user"
    BY SystemType, WholeSingle
  <2>3. /\ <<SystemMessage>> \in Seq(Msg)
        /\ \A n \in DOMAIN <<SystemMessage>> : <<SystemMessage>>[n].role # "user"
    BY <2>2
  <2>4. CostOf(<<SystemMessage>>) \in Nat
    BY <2>2, CostOfSmall, SystemType
  <2>5. QED
    BY <1>1, <2>1, <2>2, <2>3, <2>4
<1>3. CASE i # 1 /\ i = LastQuestion(list)
  <2>1. Part(list, i, used) = Second(list) /\ Adds(list, i, used) = 0
    BY <1>3 DEF Part, Adds
  <2>2. CostOf(Second(list)) \in Nat
    <3>1. Budget - (Overhead + Instructions) \in Nat
      BY SystemType
    <3>2. QED
      BY <3>1, SecondIs
  <2>3. QED
    BY <1>1, <1>3, <2>1, <2>2, SecondIs
<1>4. CASE i # 1 /\ i # LastQuestion(list)
  <2>1. PICK left \in Nat : left = Budget - used
    BY <1>1
  <2> DEFINE kept == Kept(Unit(list, i), left)
  <2>2. Part(list, i, used) = kept /\ Adds(list, i, used) = CostOf(kept)
    BY <1>4, <2>1 DEF Part, Adds
  <2>3. /\ kept \in Seq(Msg) /\ Whole(kept) /\ CostOf(kept) \in 0..left
        /\ list[i].role # "user" => \A n \in DOMAIN kept : kept[n].role # "user"
    BY <1>1, KeptSound
  <2> HIDE DEF kept
  <2>4. used + CostOf(kept) \in 0..Budget
    BY <1>1, <2>1, <2>3
  <2>5. QED
    BY <2>2, <2>3, <2>4
<1>5. QED
  BY <1>2, <1>3, <1>4

\* No more is spent than the budget.
LEMMA SpentWithin ==
  ASSUME NEW list, Begun(list), NEW f, Spends(f, list)
  PROVE  \A n \in 0..Len(list) : f[n] \in 0..Budget
<1>1. Len(list) \in Nat
  BY DEF Begun
<1> DEFINE S == {n \in Nat : n <= Len(list) => f[n] \in 0..Budget}
<1>2. 0 \in S
  <2>1. CostOf(First(list)) = Overhead + Instructions
    BY FirstIs
  <2>2. CostOf(Second(list)) \in 0..(Budget - (Overhead + Instructions))
    BY SecondIs
  <2>3. f[0] = CostOf(First(list)) + CostOf(Second(list))
    BY DEF Spends
  <2>4. PICK a \in Nat, b \in Nat : a = Overhead + Instructions /\ b = Budget /\ a < b
    BY SystemType
  <2>5. PICK c \in 0..(b - a) : c = CostOf(Second(list))
    BY <2>2, <2>4
  <2>6. a + c \in 0..b
    BY <2>4
  <2>7. f[0] \in 0..Budget
    BY <2>1, <2>3, <2>4, <2>5, <2>6
  <2>8. QED
    BY <2>7
<1>3. ASSUME NEW n \in Nat, n \in S PROVE n + 1 \in S
  <2>1. SUFFICES ASSUME n + 1 <= Len(list) PROVE f[n + 1] \in 0..Budget
    OBVIOUS
  <2>2. f[n] \in 0..Budget /\ n + 1 \in 1..Len(list) /\ (n + 1) - 1 = n
        /\ Len(list) + 1 - (n + 1) \in 1..Len(list)
    BY <1>1, <1>3, <2>1
  <2>3. f[n + 1] = f[n] + Adds(list, Len(list) + 1 - (n + 1), f[n])
    BY <2>2 DEF Spends
  <2>4. QED
    BY <2>2, <2>3, PartIs
<1> HIDE DEF S
<1>4. Nat \subseteq S
  BY <1>2, <1>3, Induct
<1>5. QED
  BY <1>1, <1>4 DEF S

\* There is no question among these messages.
NoUser(s) == \A n \in DOMAIN s : s[n].role # "user"

\* g[n] is what is kept of the first n messages, P[i] what is kept of the i-th, and
\* f[n] what the two first and the n newest cost.
Steps(list, f, P, g) ==
  /\ Spends(f, list)
  /\ \A n \in 0..Len(list) : f[n] \in 0..Budget
  /\ \A i \in 1..Len(list) :
       /\ P[i] = Part(list, i, f[Len(list) - i])
       /\ P[i] \in Seq(Msg) /\ Whole(P[i]) /\ CostOf(P[i]) \in Nat
       /\ i # LastQuestion(list) /\ list[i].role # "user" => NoUser(P[i])
  /\ g[0] = <<>>
  /\ \A i \in 1..Len(list) : g[i] = g[i - 1] \o P[i]
  /\ \A n \in 0..Len(list) : g[n] \in Seq(Msg)
  /\ Bounded(list) = g[Len(list)]

\* Bounded is a row of parts, and what is spent grows by what each of them costs.
LEMMA BoundedSteps ==
  ASSUME NEW list, Begun(list)
  PROVE  \E f, P, g : Steps(list, f, P, g)
<1>1. list \in Seq(Msg) /\ Len(list) \in Nat /\ DOMAIN list = 1..Len(list)
  BY DEF Begun
<1>2. PICK f : /\ Spends(f, list)
               /\ Bounded(list) =
                    FlattenSeq([i \in DOMAIN list |-> Part(list, i, f[Len(list) - i])])
  BY <1>1, BoundedIs
<1>3. \A n \in 0..Len(list) : f[n] \in 0..Budget
  BY <1>2, SpentWithin
<1> DEFINE P == [i \in DOMAIN list |-> Part(list, i, f[Len(list) - i])]
<1>4. ASSUME NEW i \in 1..Len(list)
      PROVE  /\ P[i] = Part(list, i, f[Len(list) - i])
             /\ P[i] \in Seq(Msg) /\ Whole(P[i]) /\ CostOf(P[i]) \in Nat
             /\ i # LastQuestion(list) /\ list[i].role # "user" => NoUser(P[i])
  <2>1. P[i] = Part(list, i, f[Len(list) - i])
    BY <1>1
  <2>2. Len(list) - i \in 0..Len(list)
    BY <1>1
  <2>3. f[Len(list) - i] \in 0..Budget
    BY <1>3, <2>2
  <2>4. PICK used \in 0..Budget : used = f[Len(list) - i]
    BY <2>3
  <2>5. /\ Part(list, i, used) \in Seq(Msg) /\ Whole(Part(list, i, used))
        /\ CostOf(Part(list, i, used)) \in Nat
        /\ i # LastQuestion(list) /\ list[i].role # "user" =>
             \A n \in DOMAIN Part(list, i, used) : Part(list, i, used)[n].role # "user"
    BY PartIs
  <2> HIDE DEF P
  <2>6. P[i] = Part(list, i, used)
    BY <2>1, <2>4
  <2>7. QED
    BY <2>1, <2>5, <2>6 DEF NoUser
<1>5. P \in Seq(Seq(Msg)) /\ Len(P) = Len(list)
  <2>1. P = [i \in 1..Len(list) |-> P[i]]
    BY <1>1
  <2> HIDE DEF P
  <2>2. P \in [1..Len(list) -> Seq(Msg)]
    BY <1>4, <2>1
  <2>3. QED
    BY <1>1, <2>2
<1>6. Bounded(list) = FlattenSeq(P)
  BY <1>2
<1> HIDE DEF P
<1>7. PICK g \in [0..Len(P) -> Seq(Msg)] : Flattens(g, P) /\ FlattenSeq(P) = g[Len(P)]
  BY <1>5, Flattened
<1>8. Steps(list, f, P, g)
  <2>1. g[0] = <<>> /\ (\A i \in 1..Len(list) : g[i] = g[i - 1] \o P[i])
    BY <1>5, <1>7 DEF Flattens
  <2>2. \A n \in 0..Len(list) : g[n] \in Seq(Msg)
    BY <1>5, <1>7
  <2>3. Bounded(list) = g[Len(list)]
    BY <1>5, <1>6, <1>7
  <2>4. QED
    BY <1>2, <1>3, <1>4, <2>1, <2>2, <2>3 DEF Steps
<1>9. QED
  BY <1>8

\* The list that is kept is made of whole exchanges and other messages.
LEMMA BoundedWhole ==
  ASSUME NEW list, Begun(list)
  PROVE  Bounded(list) \in Seq(Msg) /\ Whole(Bounded(list))
<1>1. Len(list) \in Nat
  BY DEF Begun
<1>2. PICK f, P, g : Steps(list, f, P, g)
  BY BoundedSteps
<1> DEFINE S == {n \in Nat : n <= Len(list) => Whole(g[n])}
<1>3. 0 \in S
  BY <1>2, WholeNothing DEF Steps
<1>4. ASSUME NEW n \in Nat, n \in S PROVE n + 1 \in S
  <2>1. SUFFICES ASSUME n + 1 <= Len(list) PROVE Whole(g[n + 1])
    OBVIOUS
  <2>2. Whole(g[n]) /\ n + 1 \in 1..Len(list) /\ (n + 1) - 1 = n /\ n \in 0..Len(list)
    BY <1>1, <1>4, <2>1
  <2>3. g[n + 1] = g[n] \o P[n + 1] /\ Whole(P[n + 1]) /\ P[n + 1] \in Seq(Msg) /\ g[n] \in Seq(Msg)
    BY <1>2, <2>2 DEF Steps
  <2>4. QED
    BY <2>2, <2>3, WholeConcat
<1> HIDE DEF S
<1>5. Nat \subseteq S
  BY <1>3, <1>4, Induct
<1>6. Whole(g[Len(list)])
  BY <1>1, <1>5 DEF S
<1>7. Len(list) \in 0..Len(list)
  BY <1>1
<1>8. QED
  BY <1>2, <1>6, <1>7 DEF Steps

\* It begins with the instructions.
LEMMA BoundedBegun ==
  ASSUME NEW list, Begun(list)
  PROVE  Begun(Bounded(list))
<1>1. Len(list) \in Nat /\ 1 <= Len(list)
  BY DEF Begun
<1>2. PICK f, P, g : Steps(list, f, P, g)
  BY BoundedSteps
<1> DEFINE S == {n \in Nat : n + 1 <= Len(list) => Begun(g[n + 1])}
<1>3. 0 \in S
  <2>1. 1 \in 1..Len(list) /\ 0 \in 0..Len(list) /\ 1 - 1 = 0
    BY <1>1
  <2>2. g[1] = <<>> \o P[1] /\ P[1] = Part(list, 1, f[Len(list) - 1])
    BY <1>2, <2>1 DEF Steps
  <2>3. P[1] = <<SystemMessage>>
    BY <2>2, FirstIs DEF Part
  <2>4. g[1] = <<SystemMessage>>
    <3>1. \A m : <<>> \o <<m>> = <<m>>
      OBVIOUS
    <3>2. QED
      BY <2>2, <2>3, <3>1
  <2>5. Begun(<<SystemMessage>>)
    BY SystemType DEF Begun
  <2>6. Begun(g[0 + 1])
    BY <2>4, <2>5
  <2>7. QED
    BY <2>6
<1>4. ASSUME NEW n \in Nat, n \in S PROVE n + 1 \in S
  <2>1. SUFFICES ASSUME (n + 1) + 1 <= Len(list) PROVE Begun(g[(n + 1) + 1])
    OBVIOUS
  <2>2. Begun(g[n + 1]) /\ (n + 1) + 1 \in 1..Len(list) /\ ((n + 1) + 1) - 1 = n + 1
    BY <1>1, <1>4, <2>1
  <2>3. g[(n + 1) + 1] = g[n + 1] \o P[(n + 1) + 1] /\ P[(n + 1) + 1] \in Seq(Msg)
    BY <1>2, <2>2 DEF Steps
  <2>4. \A a, b \in Seq(Msg) :
          Len(a) >= 1 => Len(a \o b) >= 1 /\ (a \o b)[1] = a[1] /\ a \o b \in Seq(Msg)
    OBVIOUS
  <2>5. QED
    BY <2>2, <2>3, <2>4 DEF Begun
<1> HIDE DEF S
<1>5. Nat \subseteq S
  BY <1>3, <1>4, Induct
<1>6. Len(list) - 1 \in Nat /\ (Len(list) - 1) + 1 = Len(list)
  BY <1>1
<1>7. Begun(g[Len(list)])
  <2>1. Len(list) - 1 \in S
    BY <1>5, <1>6
  <2>2. QED
    BY <1>1, <1>6, <2>1 DEF S
<1>8. QED
  BY <1>2, <1>7 DEF Steps

\* The first message of a list that begins with the instructions is no question.
LEMMA NewestIsNotFirst ==
  ASSUME NEW list, Begun(list)
  PROVE  LastQuestion(list) \in 0..Len(list) /\ LastQuestion(list) # 1
<1>1. list \in Seq(Msg) /\ list[1].role = "system" /\ Len(list) >= 1
  BY SystemType DEF Begun
<1>2. QED
  BY <1>1, LastQuestionIs

\* Its messages cost what was counted.
LEMMA BoundedCost ==
  ASSUME NEW list, Begun(list)
  PROVE  CostOf(Bounded(list)) <= Budget
<1>1. PICK l \in Nat : l = Len(list) /\ 1 <= l
  BY DEF Begun
<1>2. PICK f, P, g : Steps(list, f, P, g)
  BY BoundedSteps
<1>3. PICK q \in 0..l : q = LastQuestion(list) /\ q # 1
  BY <1>1, NewestIsNotFirst
<1>4. PICK one \in Nat, two \in Nat :
           one = CostOf(First(list)) /\ two = CostOf(Second(list))
  <2>1. CostOf(First(list)) \in Nat /\ Budget - (Overhead + Instructions) \in Nat
    BY FirstIs, SystemType
  <2>2. CostOf(Second(list)) \in Nat
    BY <2>1, SecondIs
  <2>3. QED
    BY <2>1, <2>2
<1>5. /\ \A n \in 0..l : f[n] \in 0..Budget /\ g[n] \in Seq(Msg) /\ CostOf(g[n]) \in Nat
      /\ Budget \in Nat
  <2>1. ASSUME NEW n \in 0..l PROVE f[n] \in 0..Budget /\ g[n] \in Seq(Msg) /\ CostOf(g[n]) \in Nat
    <3>1. f[n] \in 0..Budget /\ g[n] \in Seq(Msg)
      BY <1>1, <1>2 DEF Steps
    <3>2. <<>> \in Seq(Msg)
      OBVIOUS
    <3>3. QED
      BY <3>1, <3>2, CostOfConcat
  <2>2. QED
    BY <2>1, SystemType
<1> DEFINE Counted(n) == f[l] + (IF n >= 1 THEN one ELSE 0) + (IF q # 0 /\ n >= q THEN two ELSE 0)
           S == {n \in Nat : n <= l => CostOf(g[n]) + f[l - n] = Counted(n)}
<1>6. 0 \in S
  <2>1. g[0] = <<>> /\ l - 0 = l /\ f[l] \in Nat
    BY <1>1, <1>2, <1>5 DEF Steps
  <2>2. CostOf(g[0]) = 0
    BY <2>1, CostOfSmall
  <2>3. Counted(0) = f[l]
    BY <1>3, <1>4, <2>1
  <2> HIDE DEF Counted
  <2>4. QED
    BY <2>1, <2>2, <2>3
<1>7. ASSUME NEW n \in Nat, n \in S PROVE n + 1 \in S
  <2>1. SUFFICES ASSUME n + 1 <= l PROVE CostOf(g[n + 1]) + f[l - (n + 1)] = Counted(n + 1)
    OBVIOUS
  <2>2. PICK i \in 1..l : i = n + 1
    BY <2>1
  <2>3. /\ i - 1 = n /\ n \in 0..l /\ l - n \in 1..l /\ (l - n) - 1 = l - i
        /\ l + 1 - (l - n) = i /\ l - i \in 0..l /\ l - n \in 0..l
    BY <1>1, <2>2
  <2>4. g[i] = g[n] \o P[i] /\ P[i] \in Seq(Msg) /\ g[n] \in Seq(Msg) /\ CostOf(P[i]) \in Nat
    BY <1>1, <1>2, <1>5, <2>3 DEF Steps
  <2>5. CostOf(g[i]) = CostOf(g[n]) + CostOf(P[i])
    BY <2>4, CostOfConcat
  <2>6. P[i] = Part(list, i, f[l - i])
    BY <1>1, <1>2 DEF Steps
  <2>7. f[l - n] = f[l - i] + Adds(list, i, f[l - i])
    <3>1. \A k \in 1..l : f[k] = f[k - 1] + Adds(list, l + 1 - k, f[k - 1])
      BY <1>1, <1>2 DEF Steps, Spends
    <3>2. QED
      BY <2>3, <3>1
  <2>8. CostOf(g[n]) + f[l - n] = Counted(n)
    BY <1>7, <2>3
  <2>9. PICK a \in Nat, p \in Nat, u \in Nat, v \in Nat, w \in Nat :
             a = CostOf(g[n]) /\ p = CostOf(P[i]) /\ u = f[l - n] /\ v = f[l - i] /\ w = f[l]
    <3>1. l \in 0..l
      OBVIOUS
    <3>2. f[l - n] \in Nat /\ f[l - i] \in Nat /\ f[l] \in Nat /\ CostOf(g[n]) \in Nat
      BY <1>5, <2>3, <3>1
    <3>3. QED
      BY <2>4, <3>2
  <2>10. a + p + v = Counted(i)
    <3>1. a + u = w + (IF n >= 1 THEN one ELSE 0) + (IF q # 0 /\ n >= q THEN two ELSE 0)
      BY <2>8, <2>9
    <3>2. Counted(i) = w + (IF i >= 1 THEN one ELSE 0) + (IF q # 0 /\ i >= q THEN two ELSE 0)
      BY <2>9
    <3> HIDE DEF Counted
    <3>3. CASE i = 1
      <4>1. Adds(list, i, f[l - i]) = 0 /\ P[i] = First(list)
        BY <2>6, <3>3 DEF Adds, Part
      <4>2. p = one /\ u = v + 0
        BY <1>4, <2>7, <2>9, <4>1
      <4>3. n = 0 /\ (q # 0 => q > 1)
        BY <1>3, <2>3, <3>3
      <4>4. QED
        BY <3>1, <3>2, <3>3, <4>2, <4>3
    <3>4. CASE i # 1 /\ i = q
      <4>1. Adds(list, i, f[l - i]) = 0 /\ P[i] = Second(list)
        BY <1>3, <2>6, <3>4 DEF Adds, Part
      <4>2. p = two /\ u = v + 0
        BY <1>4, <2>7, <2>9, <4>1
      <4>3. n >= 1 /\ n < q /\ i >= 1 /\ q # 0 /\ i >= q
        BY <2>3, <3>4
      <4>4. QED
        BY <3>1, <3>2, <4>2, <4>3
    <3>5. CASE i # 1 /\ i # q
      <4>1. Adds(list, i, f[l - i]) = CostOf(P[i])
        BY <1>3, <2>6, <3>5 DEF Adds
      <4>2. u = v + p
        BY <2>7, <2>9, <4>1
      <4>3. n >= 1 /\ i >= 1 /\ ((q # 0 /\ i >= q) <=> (q # 0 /\ n >= q))
        BY <2>3, <3>5
      <4>4. QED
        BY <3>1, <3>2, <4>2, <4>3
    <3>6. QED
      BY <3>3, <3>4, <3>5
  <2>11. CostOf(g[i]) + f[l - i] = a + p + v
    BY <2>5, <2>9
  <2> HIDE DEF Counted
  <2>12. QED
    BY <2>2, <2>10, <2>11
<1>8. l \in S
  <2> HIDE DEF S
  <2>1. QED
    BY <1>6, <1>7, Induct
<1>9. CostOf(g[l]) + f[l - l] = Counted(l)
  BY <1>8
<1>10. l - l = 0 /\ f[0] = one + two
  BY <1>2, <1>4 DEF Steps, Spends
<1>11. Second(list) = <<>> => two = 0
  BY <1>4, CostOfSmall
<1>12. Counted(l) = f[l] + one + two
  <2>1. CASE q = 0
    <3>1. two = 0
      BY <1>3, <1>11, <2>1, SecondIs
    <3>2. QED
      BY <1>1, <1>5, <2>1, <3>1
  <2>2. CASE q # 0
    BY <1>1, <1>3, <1>5, <2>2
  <2>3. QED
    BY <2>1, <2>2
<1>13. CostOf(g[l]) = f[l] /\ f[l] <= Budget
  <2> HIDE DEF Counted
  <2>1. CostOf(g[l]) \in Nat /\ f[l] \in Nat /\ f[l] <= Budget
    <3>1. l \in 0..l
      OBVIOUS
    <3>2. QED
      BY <1>5, <3>1
  <2>2. CostOf(g[l]) + (one + two) = f[l] + one + two
    BY <1>9, <1>10, <1>12
  <2>3. QED
    BY <2>1, <2>2
<1>14. QED
  BY <1>1, <1>2, <1>13 DEF Steps

\* A question of this length, uncut
Question(s) == Message("user", s, <<>>, "")

\* The newest question among messages is this one.
Asks(list, s) ==
  \E k \in 1..Len(list) :
    /\ list[k] = Question(s)
    /\ \A j \in 1..Len(list) : j > k => list[j].role # "user"

\* A list still asks when messages without a question follow, and asks what is
\* appended.
LEMMA AsksBehind ==
  ASSUME NEW a \in Seq(Msg), NEW b \in Seq(Msg), NEW s,
         \/ Asks(a, s) /\ NoUser(b)
         \/ b = <<Question(s)>>
  PROVE  Asks(a \o b, s)
<1> DEFINE c == a \o b
<1>1. /\ c \in Seq(Msg) /\ Len(c) = Len(a) + Len(b) /\ Len(a) \in Nat /\ Len(b) \in Nat
      /\ \A i \in 1..Len(a) : c[i] = a[i]
      /\ \A j \in 1..Len(b) : c[Len(a) + j] = b[j]
  BY Concat
<1>2. DOMAIN b = 1..Len(b)
  OBVIOUS
<1> HIDE DEF c
<1>3. \A j \in 1..Len(c) : j > Len(a) => \E n \in 1..Len(b) : j = Len(a) + n
  <2> TAKE j \in 1..Len(c)
  <2>1. j > Len(a) => j - Len(a) \in 1..Len(b) /\ j = Len(a) + (j - Len(a))
    BY <1>1
  <2>2. QED
    BY <2>1
<1>4. CASE Asks(a, s) /\ NoUser(b)
  <2>1. PICK k \in 1..Len(a) : /\ a[k] = Question(s)
                               /\ \A j \in 1..Len(a) : j > k => a[j].role # "user"
    BY <1>4 DEF Asks
  <2>2. k \in 1..Len(c) /\ c[k] = Question(s)
    BY <1>1, <2>1
  <2>3. ASSUME NEW j \in 1..Len(c), j > k PROVE c[j].role # "user"
    <3>1. CASE j <= Len(a)
      BY <1>1, <2>1, <2>3, <3>1
    <3>2. CASE j > Len(a)
      <4>1. PICK n \in 1..Len(b) : j = Len(a) + n
        BY <1>3, <3>2
      <4>2. c[j] = b[n] /\ n \in DOMAIN b
        BY <1>1, <1>2, <4>1
      <4>3. QED
        BY <1>4, <4>2 DEF NoUser
    <3>3. QED
      BY <1>1, <3>1, <3>2
  <2>4. QED
    BY <2>2, <2>3 DEF Asks, c
<1>5. CASE b = <<Question(s)>>
  <2>1. Len(b) = 1 /\ b[1] = Question(s)
    BY <1>5
  <2>2. Len(a) + 1 \in 1..Len(c) /\ c[Len(a) + 1] = Question(s)
    BY <1>1, <2>1
  <2>3. \A j \in 1..Len(c) : ~ (j > Len(a) + 1)
    BY <1>1, <2>1
  <2>4. QED
    BY <2>2, <2>3 DEF Asks, c
<1>6. QED
  BY <1>4, <1>5

\* It holds the newest question, uncut when there is room for it.
LEMMA BoundedAsks ==
  ASSUME NEW list, Begun(list), NEW s \in Nat \ {0}, Asks(list, s),
         2 * Overhead + Instructions + s <= Budget
  PROVE  Asks(Bounded(list), s)
<1>1. PICK l \in Nat : l = Len(list) /\ 1 <= l /\ list \in Seq(Msg)
  BY DEF Begun
<1>2. PICK f, P, g : Steps(list, f, P, g)
  BY BoundedSteps
<1>3. PICK k \in 1..l : /\ list[k] = Question(s)
                        /\ \A j \in 1..l : j > k => list[j].role # "user"
  BY <1>1 DEF Asks
<1>4. k = LastQuestion(list) /\ k # 1
  <2>1. LastQuestion(list) \in 0..l /\ LastQuestion(list) # 1
    BY <1>1, NewestIsNotFirst
  <2>2. list[k].role = "user"
    <3>1. list[k] = Question(s)
      BY <1>3
    <3>2. Question(s).role = "user"
      BY DEF Question, Message
    <3>3. QED
      BY <3>1, <3>2
  <2>3. LastQuestion(list) # 0 => list[LastQuestion(list)].role = "user"
    BY <1>1, LastQuestionIs
  <2>4. \A j \in 1..l : j > LastQuestion(list) => list[j].role # "user"
    BY <1>1, LastQuestionIs
  <2>5. k <= LastQuestion(list)
    BY <2>1, <2>2, <2>4
  <2>6. LastQuestion(list) \in 1..l
    BY <2>1, <2>5
  <2>7. LastQuestion(list) <= k
    BY <1>3, <2>3, <2>6
  <2>8. QED
    BY <2>1, <2>5, <2>6, <2>7
<1>5. Second(list) = <<Question(s)>>
  <2>1. Question(s) \in Msg /\ Question(s).size = s /\ Question(s).calls = <<>>
    <3>1. <<>> \in Seq(CallIds)
      OBVIOUS
    <3>2. QED
      BY <3>1 DEF Question, Message, Msg, Roles
  <2>2. Cost(Question(s)) = Overhead + s
    <3>1. Len(<<>>) = 0
      OBVIOUS
    <3>2. QED
      BY <2>1, <3>1, SystemType DEF Cost
  <2>3. PICK left \in Nat : left = Budget - (Overhead + Instructions)
    BY SystemType
  <2>4. Overhead + s <= left /\ ~ (left <= (Overhead + s) - s)
    <3>1. PICK o \in Nat, n \in Nat, b \in Nat : o = Overhead /\ n = Instructions /\ b = Budget
      BY SystemType
    <3>2. 2 * o + n + s <= b /\ left = b - (o + n)
      BY <2>3, <3>1
    <3>3. o + s <= left /\ ~ (left <= (o + s) - s)
      BY <3>2
    <3>4. QED
      BY <3>1, <3>3
  <2>5. \/ /\ Cut(Question(s), left) = <<>>
           /\ left <= Cost(Question(s)) - Question(s).size
        \/ \E m \in Msg : /\ Cut(Question(s), left) = <<m>>
                          /\ Cost(Question(s)) <= left => m = Question(s)
    BY <2>1, CutIs
  <2>6. Cut(Question(s), left) = <<Question(s)>>
    BY <2>1, <2>2, <2>4, <2>5
  <2>7. CostOf(First(list)) = Overhead + Instructions
    BY FirstIs
  <2>8. Second(list) = Cut(list[k], Budget - CostOf(First(list)))
    BY <1>1, <1>4 DEF Second
  <2>9. QED
    BY <1>3, <2>3, <2>6, <2>7, <2>8
<1> DEFINE S == {n \in Nat : k <= n /\ n <= l => Asks(g[n], s)}
<1>6. 0 \in S
  OBVIOUS
<1>7. ASSUME NEW n \in Nat, n \in S PROVE n + 1 \in S
  <2>1. SUFFICES ASSUME k <= n + 1, n + 1 <= l PROVE Asks(g[n + 1], s)
    OBVIOUS
  <2>2. PICK i \in 1..l : i = n + 1
    BY <2>1
  <2>3. i - 1 = n /\ n \in 0..l
    BY <1>1, <2>2
  <2>4. g[i] = g[n] \o P[i] /\ P[i] \in Seq(Msg) /\ g[n] \in Seq(Msg)
    BY <1>1, <1>2, <2>3 DEF Steps
  <2>5. CASE i = k
    <3>1. P[i] = Second(list)
      BY <1>1, <1>2, <1>4, <2>5 DEF Steps, Part
    <3>2. QED
      BY <1>5, <2>2, <2>4, <3>1, AsksBehind
  <2>6. CASE i > k
    <3>1. Asks(g[n], s)
      BY <1>7, <2>1, <2>2, <2>6
    <3>2. i # LastQuestion(list) /\ list[i].role # "user"
      BY <1>3, <1>4, <2>6
    <3>3. NoUser(P[i])
      BY <1>1, <1>2, <3>2 DEF Steps
    <3>4. QED
      BY <2>2, <2>4, <3>1, <3>3, AsksBehind
  <2>7. i = k \/ i > k
    BY <2>1, <2>2
  <2>8. QED
    BY <2>5, <2>6, <2>7
<1>8. l \in S
  <2> HIDE DEF S
  <2>1. QED
    BY <1>6, <1>7, Induct
<1>9. Asks(g[l], s)
  BY <1>3, <1>8
<1>10. QED
  BY <1>1, <1>2, <1>9 DEF Steps

-----------------------------------------------------------------------------
(* ContextSound *)

\* The budget has room for the instructions and the question.
Room == 2 * Overhead + Instructions + question <= Budget

\* What is kept true of the messages, round after round
ContextInv ==
  /\ asking \in {"waiting", "asking", "over"}
  /\ asking = "waiting" => messages = <<>>
  /\ asking # "waiting" =>
       /\ Begun(messages) /\ Whole(messages) /\ CostOf(messages) <= Budget
       /\ question \in Nat \ {0}
       /\ Room => Asks(messages, question)

\* What is sent is kept sound, whatever is bounded.
LEMMA BoundedSound ==
  ASSUME NEW list, Begun(list), NEW s \in Nat \ {0}
  PROVE  /\ Begun(Bounded(list)) /\ Whole(Bounded(list)) /\ CostOf(Bounded(list)) <= Budget
         /\ Asks(list, s) /\ 2 * Overhead + Instructions + s <= Budget => Asks(Bounded(list), s)
BY BoundedBegun, BoundedWhole, BoundedCost, BoundedAsks

\* It implies that what is sent is sound.
LEMMA ContextInvImplies == ContextInv => ContextSound
<1> SUFFICES ASSUME ContextInv PROVE ContextSound
  OBVIOUS
<1>1. ExchangesWhole
  <2>1. Whole(messages)
    BY WholeNothing DEF ContextInv
  <2>2. QED
    BY <2>1 DEF ExchangesWhole
<1>2. ASSUME asking # "waiting"
      PROVE  /\ CostOf(messages) <= Budget
             /\ messages[1] = SystemMessage
             /\ Room => messages[LastQuestion(messages)].size = question
  <2>1. Begun(messages) /\ CostOf(messages) <= Budget
    BY <1>2 DEF ContextInv
  <2>2. messages[1] = SystemMessage /\ messages \in Seq(Msg)
    BY <2>1 DEF Begun
  <2>3. ASSUME Room PROVE messages[LastQuestion(messages)].size = question
    <3>1. PICK k \in 1..Len(messages) :
             /\ messages[k] = Question(question)
             /\ \A j \in 1..Len(messages) : j > k => messages[j].role # "user"
      BY <1>2, <2>3 DEF ContextInv, Asks
    <3>2. messages[k].role = "user" /\ messages[k].size = question
      <4>1. Question(question).role = "user" /\ Question(question).size = question
        BY DEF Question, Message
      <4>2. QED
        BY <3>1, <4>1
    <3>3. PICK q \in 0..Len(messages) : q = LastQuestion(messages)
      BY <2>2, LastQuestionIs
    <3>4. /\ q # 0 => messages[q].role = "user"
          /\ \A j \in 1..Len(messages) : j > q => messages[j].role # "user"
      BY <2>2, <3>3, LastQuestionIs
    <3>5. Len(messages) \in Nat
      BY <2>2
    <3>6. q = k
      BY <3>1, <3>2, <3>4, <3>5
    <3>7. QED
      BY <3>2, <3>3, <3>6
  <2>4. QED
    BY <2>1, <2>2, <2>3
<1>3. QuestionAsked
  BY <1>2 DEF QuestionAsked, Room
<1>4. QED
  BY <1>1, <1>3 DEF ContextSound

-----------------------------------------------------------------------------
(* Turns of the conversation *)

\* Turns, as they are kept and as they are cut, make no calls.
Said == {m \in Msg : m.calls = <<>> /\ m.role \in {"user", "assistant"}}

\* The turns of a conversation are such turns.
LEMMA TurnsType ==
  ASSUME NEW turns \in Turns
  PROVE  turns \in Seq(Said)
<1> DEFINE none == {<<>>}
           sizes == Sizes \cup {0}
           T == [role : {"user", "assistant"}, size : sizes, calls : none, id : {""}]
<1>a. /\ \A s \in sizes : s \in Nat
      /\ \A c \in none : c = <<>> /\ c \in Seq(CallIds)
  <2>1. <<>> \in Seq(CallIds)
    OBVIOUS
  <2>2. \A c \in none : c = <<>> /\ c \in Seq(CallIds)
    BY <2>1
  <2>3. QED
    BY <2>2, SizesAssumption
<1> HIDE DEF none, sizes
<1>1. ASSUME NEW m \in T PROVE m \in Said
  <2>1. m.calls \in none /\ m.size \in sizes /\ m.role \in {"user", "assistant"} /\ m.id = ""
    OBVIOUS
  <2>2. m = [role |-> m.role, size |-> m.size, calls |-> m.calls, id |-> m.id]
    OBVIOUS
  <2> HIDE DEF T
  <2>3. m.calls \in Seq(CallIds) /\ m.calls = <<>> /\ m.size \in Nat
    BY <1>a, <2>1
  <2>4. m \in Msg
    BY <2>1, <2>2, <2>3 DEF Msg, Roles
  <2>5. QED
    BY <2>1, <2>3, <2>4 DEF Said
<1>2. turns \in UNION {[1..n -> T] : n \in 0..MaxTurns}
  BY DEF Turns, BoundedSeq, SeqOf, none, sizes
<1> HIDE DEF T
<1>3. PICK n \in 0..MaxTurns : turns \in [1..n -> T]
  BY <1>2
<1>4. n \in Nat
  OBVIOUS
<1>5. turns \in [1..n -> Said]
  BY <1>1, <1>3
<1>6. QED
  BY <1>4, <1>5

\* So is the history that is made of them.
LEMMA HistoryType ==
  ASSUME NEW turns \in Turns
  PROVE  History(turns) \in Seq(Said)
<1>1. turns \in Seq(Said) /\ Len(turns) \in Nat /\ DOMAIN turns = 1..Len(turns)
  BY TurnsType
<1> DEFINE newer(i) == Total([n \in 1..(Len(turns) - i) |-> turns[i + n].size])
           left(i) == HistoryChars - newer(i)
           shown(i) == IF turns[i].size = 0 \/ left(i) <= 0 THEN <<>>
                       ELSE <<[turns[i] EXCEPT !.size = Min({turns[i].size, left(i)})]>>
<1>2. ASSUME NEW i \in 1..Len(turns) PROVE newer(i) \in Nat
  <2> DEFINE s == [n \in 1..(Len(turns) - i) |-> turns[i + n].size]
  <2>1. Len(turns) - i \in Nat
    BY <1>1
  <2>2. ASSUME NEW n \in 1..(Len(turns) - i) PROVE turns[i + n].size \in Nat
    <3>1. i + n \in 1..Len(turns)
      BY <1>1
    <3>2. turns[i + n] \in Said
      BY <1>1, <3>1
    <3>3. QED
      BY <3>2 DEF Said, Msg
  <2>3. s \in Seq(Nat)
    BY <2>1, <2>2
  <2> HIDE DEF s
  <2>4. Total(s) \in Nat
    BY <2>3, TotalType
  <2>5. QED
    BY <2>4 DEF s
<1>3. ASSUME NEW i \in 1..Len(turns) PROVE shown(i) \in Seq(Said)
  <2>1. turns[i] \in Said
    BY <1>1
  <2>2. left(i) \in Int
    BY <1>2, BudgetAssumption
  <2>3. turns[i].size \in Nat
    BY <2>1 DEF Said, Msg
  <2> HIDE DEF left
  <2> DEFINE size == Min({turns[i].size, left(i)})
  <2>4. CASE turns[i].size = 0 \/ left(i) <= 0
    BY <2>4
  <2>5. CASE ~ (turns[i].size = 0 \/ left(i) <= 0)
    <3>1. size = IF turns[i].size <= left(i) THEN turns[i].size ELSE left(i)
      BY <2>2, <2>3, MinPair
    <3>2. size \in Nat
      BY <2>2, <2>3, <2>5, <3>1
    <3> HIDE DEF size
    <3>3. [turns[i] EXCEPT !.size = size] \in Said
      BY <2>1, <3>2 DEF Said, Msg
    <3>4. shown(i) = <<[turns[i] EXCEPT !.size = size]>>
      BY <2>5 DEF size
    <3>5. QED
      BY <3>3, <3>4
  <2>6. QED
    BY <2>4, <2>5
<1>4. History(turns) = FlattenSeq([i \in DOMAIN turns |-> shown(i)])
  BY DEF History
<1> HIDE DEF shown
<1>5. [i \in DOMAIN turns |-> shown(i)] \in Seq(Seq(Said))
  BY <1>1, <1>3
<1>6. QED
  BY <1>4, <1>5, FlattenType

\* A list that begins with the instructions begins with them whatever follows.
LEMMA BegunMore ==
  ASSUME NEW list, Begun(list), NEW b \in Seq(Msg)
  PROVE  Begun(list \o b) /\ list \in Seq(Msg)
<1>1. list \in Seq(Msg) /\ Len(list) >= 1 /\ list[1] = SystemMessage
  BY DEF Begun
<1>2. \A u, v \in Seq(Msg) : Len(u) >= 1 =>
         Len(u \o v) >= 1 /\ (u \o v)[1] = u[1] /\ u \o v \in Seq(Msg)
  OBVIOUS
<1>3. QED
  BY <1>1, <1>2 DEF Begun

\* The first request: instructions, history, question (_conversation_history).
LEMMA SendKeeps ==
  ASSUME ContextInv, asking = "waiting", NEW turns \in Turns, NEW s \in Sizes, Send(turns, s)
  PROVE  ContextInv'
<1> DEFINE list == <<SystemMessage>> \o History(turns) \o <<Question(s)>>
<1>1. messages' = Bounded(list) /\ question' = s /\ asking' = "asking"
  BY DEF Send, Question
<1>2. s \in Nat \ {0}
  BY SizesAssumption
<1>3. History(turns) \in Seq(Msg)
  <2>1. History(turns) \in Seq(Said) /\ Said \subseteq Msg
    BY HistoryType DEF Said
  <2>2. \A A, B : \A x : A \subseteq B /\ x \in Seq(A) => x \in Seq(B)
    OBVIOUS
  <2>3. QED
    BY <2>1, <2>2, Zenon
<1>4. Question(s) \in Msg
  <2>1. <<>> \in Seq(CallIds)
    OBVIOUS
  <2>2. QED
    BY <1>2, <2>1 DEF Question, Message, Msg, Roles
<1>5. Begun(<<SystemMessage>>)
  BY SystemType DEF Begun
<1> DEFINE front == <<SystemMessage>> \o History(turns)
<1>6. Begun(front) /\ front \in Seq(Msg)
  <2>1. Begun(front)
    BY <1>3, <1>5, BegunMore
  <2>2. QED
    BY <2>1 DEF Begun
<1> HIDE DEF front
<1>7. Begun(front \o <<Question(s)>>) /\ Asks(front \o <<Question(s)>>, s)
  <2>1. <<Question(s)>> \in Seq(Msg)
    BY <1>4
  <2> DEFINE last == <<Question(s)>>
  <2>2. last \in Seq(Msg) /\ last = <<Question(s)>>
    BY <2>1
  <2> HIDE DEF last
  <2>3. Begun(front \o last) /\ Asks(front \o last, s)
    BY <1>6, <2>2, BegunMore, AsksBehind
  <2>4. QED
    BY <2>2, <2>3
<1>8. list = front \o <<Question(s)>>
  BY DEF front
<1> HIDE DEF list
<1>9. Begun(list) /\ Asks(list, s)
  BY <1>7, <1>8
<1>10. /\ Begun(Bounded(list)) /\ Whole(Bounded(list)) /\ CostOf(Bounded(list)) <= Budget
       /\ 2 * Overhead + Instructions + s <= Budget => Asks(Bounded(list), s)
  BY <1>2, <1>9, BoundedSound
<1>11. QED
  BY <1>1, <1>2, <1>10 DEF ContextInv, Room

\* A round of tool calls and what the tools return (_agent_loop).
LEMMA ExchangeKeeps ==
  ASSUME ContextInv, NEW made \in BoundedSeq(CallIds, MaxCalls) \ {<<>>},
         NEW said \in Sizes \cup {0}, NEW s \in Sizes, Exchange(made, said, s)
  PROVE  ContextInv'
<1> DEFINE making == Message("assistant", said, made, "")
           answers == [n \in DOMAIN made |-> Message("tool", s, <<>>, made[n])]
           list == Append(messages, making) \o answers
<1>1. /\ asking = "asking" /\ asking' = "asking" /\ question' = question
      /\ messages' = Bounded(list)
  BY DEF Exchange
<1>2. /\ Begun(messages) /\ question \in Nat \ {0}
      /\ Room => Asks(messages, question)
  BY <1>1 DEF ContextInv
<1>3. made \in Seq(CallIds)
  <2>1. made \in UNION {[1..n -> CallIds] : n \in 0..MaxCalls}
    BY DEF BoundedSeq, SeqOf
  <2>2. PICK n \in 0..MaxCalls : made \in [1..n -> CallIds]
    BY <2>1
  <2>3. n \in Nat
    OBVIOUS
  <2>4. QED
    BY <2>2, <2>3
<1>4. said \in Nat /\ s \in Nat
  BY SizesAssumption
<1>5. making \in Msg /\ making.role = "assistant"
  BY <1>3, <1>4 DEF Message, Msg, Roles
<1>6. answers \in Seq(Msg) /\ NoUser(answers)
  <2>1. \A n \in DOMAIN made : /\ Message("tool", s, <<>>, made[n]) \in Msg
                               /\ Message("tool", s, <<>>, made[n]).role = "tool"
    <3> TAKE n \in DOMAIN made
    <3>1. made[n] \in CallIds
      BY <1>3
    <3>2. <<>> \in Seq(CallIds)
      OBVIOUS
    <3>3. QED
      BY <1>4, <3>1, <3>2 DEF Message, Msg, Roles
  <2>2. DOMAIN made = 1..Len(made) /\ Len(made) \in Nat
    BY <1>3
  <2>3. answers \in Seq(Msg)
    BY <2>1, <2>2
  <2>4. QED
    BY <2>1, <2>3 DEF NoUser
<1> HIDE DEF making, answers
<1>7. <<making>> \in Seq(Msg) /\ NoUser(<<making>>)
  BY <1>5 DEF NoUser
<1> DEFINE one == <<making>>
           front == messages \o one
<1>8. one \in Seq(Msg) /\ NoUser(one)
  BY <1>7
<1>9. Append(messages, making) = front
  <2>1. messages \in Seq(Msg)
    BY <1>2 DEF Begun
  <2>2. QED
    BY <1>5, <2>1
<1> HIDE DEF one
<1>10. messages \in Seq(Msg) /\ Begun(front) /\ (Room => Asks(front, question))
  <2>1. messages \in Seq(Msg) /\ Begun(front)
    BY <1>2, <1>8, BegunMore
  <2>2. ASSUME Room PROVE Asks(front, question)
    <3>1. Asks(messages, question)
      BY <1>2, <2>2
    <3>2. QED
      BY <1>8, <2>1, <3>1, AsksBehind
  <2>3. QED
    BY <2>1, <2>2
<1> HIDE DEF front
<1>11. front \in Seq(Msg) /\ Begun(front \o answers) /\ (Room => Asks(front \o answers, question))
  <2>1. front \in Seq(Msg) /\ Begun(front \o answers)
    BY <1>6, <1>10, BegunMore
  <2>2. ASSUME Room PROVE Asks(front \o answers, question)
    <3>1. Asks(front, question)
      BY <1>10, <2>2
    <3>2. QED
      BY <1>6, <2>1, <3>1, AsksBehind
  <2>3. QED
    BY <2>1, <2>2
<1>12. list = front \o answers
  BY <1>9
<1> HIDE DEF list
<1>13. Begun(list) /\ (Room => Asks(list, question))
  BY <1>11, <1>12
<1>14. /\ Begun(Bounded(list)) /\ Whole(Bounded(list)) /\ CostOf(Bounded(list)) <= Budget
       /\ Room => Asks(Bounded(list), question)
  BY <1>2, <1>13, BoundedSound DEF Room
<1>15. QED
  BY <1>1, <1>2, <1>14 DEF ContextInv, Room

\* Every step keeps ContextInv.
LEMMA ContextNextKeeps ==
  ASSUME ContextInv, [ContextNext]_contextVars
  PROVE  ContextInv'
<1>1. CASE asking = "waiting" /\ \E turns \in Turns, s \in Sizes : Send(turns, s)
  BY <1>1, SendKeeps
<1>2. CASE \E made \in BoundedSeq(CallIds, MaxCalls) \ {<<>>}, said \in Sizes \cup {0},
              s \in Sizes : Exchange(made, said, s)
  BY <1>2, ExchangeKeeps
<1>3. CASE Stop
  BY <1>3 DEF Stop, ContextInv, Room
<1>4. CASE UNCHANGED contextVars
  BY <1>4 DEF contextVars, ContextInv, Room
<1>5. QED
  BY <1>1, <1>2, <1>3, <1>4 DEF ContextNext

-----------------------------------------------------------------------------
\* Both invariants, which share no variable
TextsInv == DecodeInv /\ ContextInv

\* It is true at the beginning.
LEMMA TextsInitially == TextsInit => TextsInv
BY DecodeInit DEF TextsInit, ContextInit, TextsInv, ContextInv

\* Every step keeps it.
LEMMA TextsStep ==
  ASSUME TextsInv, [TextsNext]_<<chatVars, contextVars>>
  PROVE  TextsInv'
<1>1. CASE ChatNext /\ UNCHANGED contextVars
  <2>1. DecodeInv'
    BY <1>1, DecodeNext DEF TextsInv
  <2>2. ContextInv'
    BY <1>1, ContextNextKeeps DEF TextsInv
  <2>3. QED
    BY <2>1, <2>2 DEF TextsInv
<1>2. CASE ContextNext /\ UNCHANGED chatVars
  <2>1. DecodeInv'
    BY <1>2, DecodeNext DEF TextsInv
  <2>2. ContextInv'
    BY <1>2, ContextNextKeeps DEF TextsInv
  <2>3. QED
    BY <2>1, <2>2 DEF TextsInv
<1>3. CASE UNCHANGED <<chatVars, contextVars>>
  <2>1. DecodeInv'
    BY <1>3, DecodeNext DEF TextsInv
  <2>2. ContextInv'
    BY <1>3, ContextNextKeeps DEF TextsInv
  <2>3. QED
    BY <2>1, <2>2 DEF TextsInv
<1>4. QED
  BY <1>1, <1>2, <1>3 DEF TextsNext

\* However the model's answer was cut into chunks, what was read of it is what was
\* sent; and whatever history, tool calls and results the budget leaves out, the
\* model is sent whole exchanges, the instructions and the question.
THEOREM ExchangesAreSound == TextsSpec => []ExchangesSound
<1>1. TextsInit => TextsInv
  BY TextsInitially
<1>2. TextsInv /\ [TextsNext]_<<chatVars, contextVars>> => TextsInv'
  BY TextsStep
<1>3. TextsInv => ExchangesSound
  BY ContextInvImplies DEF TextsInv, DecodeInv, ExchangesSound
<1>4. QED
  BY <1>1, <1>2, <1>3, PTL DEF TextsSpec

\* Types, which rest on the same invariants: what is kept of the stream has no end of
\* a line in it, and rounds and tool calls stay within their limits.
THEOREM TypeCorrect == TextsSpec => [](ChatTypeOK /\ ContextTypeOK)
<1> DEFINE Inv == TextsInv /\ ContextTypeOK
<1>1. TextsInit => Inv
  BY TextsInitially, RoundBoundsAssumption DEF TextsInit, ContextInit, ContextTypeOK
<1>2. Inv /\ [TextsNext]_<<chatVars, contextVars>> => Inv'
  <2> SUFFICES ASSUME Inv, [TextsNext]_<<chatVars, contextVars>>
               PROVE  Inv'
    OBVIOUS
  <2>1. TextsInv'
    BY TextsStep
  <2>2. \A i \in DOMAIN messages' : messages'[i].role \in Roles
    <3>1. CASE messages' = <<>>
      BY <3>1
    <3>2. CASE messages' # <<>>
      <4>1. messages' \in Seq(Msg)
        BY <2>1, <3>2 DEF TextsInv, ContextInv, Begun
      <4>2. \A m \in Msg : m.role \in Roles
        BY DEF Msg
      <4>3. QED
        BY <4>1, <4>2
    <3>3. QED
      BY <3>1, <3>2
  <2>3. question' \in Sizes \cup {0} /\ total' \in 0..MaxCallsTotal /\ turn' \in 0..Rounds
    <3>1. ASSUME NEW turns \in Turns, NEW s \in Sizes, Send(turns, s)
          PROVE  question' \in Sizes \cup {0} /\ total' \in 0..MaxCallsTotal /\ turn' \in 0..Rounds
      <4>1. question' = s /\ total' = total /\ turn' = 1
        BY <3>1 DEF Send
      <4>2. total \in 0..MaxCallsTotal
        BY DEF ContextTypeOK
      <4>3. QED
        BY <4>1, <4>2, RoundBoundsAssumption
    <3>2. ASSUME NEW made \in BoundedSeq(CallIds, MaxCalls) \ {<<>>},
                 NEW said \in Sizes \cup {0}, NEW s \in Sizes, Exchange(made, said, s)
          PROVE  question' \in Sizes \cup {0} /\ total' \in 0..MaxCallsTotal /\ turn' \in 0..Rounds
      <4>1. Len(made) \in Nat
        BY DEF BoundedSeq
      <4>2. /\ question' = question /\ total' = total + Len(made) /\ turn' = turn + 1
            /\ turn < Rounds /\ total + Len(made) <= MaxCallsTotal
        BY <3>2 DEF Exchange
      <4>3. question \in Sizes \cup {0} /\ total \in 0..MaxCallsTotal /\ turn \in 0..Rounds
        BY DEF ContextTypeOK
      <4>4. QED
        BY <4>1, <4>2, <4>3, RoundBoundsAssumption
    <3>3. CASE Stop
      BY <3>3 DEF Stop, ContextTypeOK
    <3>4. CASE UNCHANGED contextVars
      BY <3>4 DEF contextVars, ContextTypeOK
    <3>5. QED
      BY <3>1, <3>2, <3>3, <3>4 DEF TextsNext, ContextNext, contextVars
  <2>4. QED
    BY <2>1, <2>2, <2>3 DEF ContextTypeOK, Roles
<1>3. Inv => ChatTypeOK /\ ContextTypeOK
  <2> SUFFICES ASSUME DecodeInv
               PROVE  ChatTypeOK
    BY DEF TextsInv
  <2>1. CASE hearing = "streaming"
    <3> DEFINE B == Range(stream)
    <3>1. Read \in Seq(B) /\ heard \in 0..Len(stream) /\ buffer = Left(Read)
      BY <2>1, StreamsAssumption, SubSeqProperties DEF DecodeInv, Decodes, Read
    <3> HIDE DEF B
    <3>2. PICK p \in Seq(B) : /\ Left(Read) \in Seq(B)
                              /\ \A i \in 1..Len(Left(Read)) : Left(Read)[i] # "end"
      BY <3>1, Ended
    <3>3. QED
      BY <3>1, <3>2 DEF ChatTypeOK, DecodeInv
  <2>2. CASE hearing # "streaming"
    BY <2>2 DEF DecodeInv, Waiting, ChatTypeOK
  <2>3. QED
    BY <2>1, <2>2
<1>4. QED
  BY <1>1, <1>2, <1>3, PTL DEF TextsSpec

-----------------------------------------------------------------------------
(* Sequences, member by member *)

\* Induction: what holds of the empty sequence, and with each of one more, holds of all.
LEMMA SeqInduct ==
  ASSUME NEW T, NEW S, <<>> \in S,
         \A s \in Seq(T), x \in T : s \in S => Append(s, x) \in S
  PROVE  Seq(T) \subseteq S
<1> DEFINE Held1 == {n \in Nat : \A s \in Seq(T) : Len(s) = n => s \in S}
<1>1. 0 \in Held1
  <2>1. ASSUME NEW s \in Seq(T), Len(s) = 0 PROVE s = <<>>
    BY <2>1, EmptySeq
  <2>2. QED
    BY <2>1
<1>2. ASSUME NEW n \in Nat, n \in Held1 PROVE n + 1 \in Held1
  <2>1. SUFFICES ASSUME NEW s \in Seq(T), Len(s) = n + 1 PROVE s \in S
    OBVIOUS
  <2> DEFINE front == SubSeq(s, 1, n)
  <2>2. front \in Seq(T) /\ Len(front) = n /\ s[n + 1] \in T
    BY <2>1
  <2>3. s = Append(front, s[n + 1])
    <3>1. Append(front, s[n + 1]) \in Seq(T) /\ Len(Append(front, s[n + 1])) = Len(s)
      BY <2>1, <2>2
    <3>2. ASSUME NEW i \in 1..Len(s) PROVE s[i] = Append(front, s[n + 1])[i]
      BY <2>1
    <3> HIDE DEF front
    <3>3. QED
      BY <3>1, <3>2, SeqEqual
  <2> HIDE DEF front
  <2>4. front \in S
    BY <1>2, <2>2
  <2>5. QED
    BY <2>2, <2>3, <2>4
<1> HIDE DEF Held1
<1>3. Nat \subseteq Held1
  BY <1>1, <1>2, Induct
<1>4. QED
  BY <1>3 DEF Held1

\* A sequence with one more is it and a sequence of one.
LEMMA AppendIs ==
  ASSUME NEW T, NEW s \in Seq(T), NEW x \in T
  PROVE  Append(s, x) = s \o <<x>>
OBVIOUS

\* Flattening one sequence more puts it behind.
LEMMA FlattenAppend ==
  ASSUME NEW T, NEW s \in Seq(Seq(T)), NEW x \in Seq(T)
  PROVE  FlattenSeq(Append(s, x)) = FlattenSeq(s) \o x
<1> DEFINE one == <<x>>
<1>1. one \in Seq(Seq(T)) /\ Append(s, x) = s \o one
  OBVIOUS
<1>2. FlattenSeq(one) = x
  BY FlattenOne
<1> HIDE DEF one
<1>3. QED
  BY <1>1, <1>2, FlattenConcat

\* Two sequences, a flattening of two.
LEMMA FlattenTwo ==
  ASSUME NEW T, NEW x \in Seq(T), NEW y \in Seq(T)
  PROVE  FlattenSeq(<<x, y>>) = x \o y
<1>1. <<x>> \in Seq(Seq(T)) /\ <<x, y>> = Append(<<x>>, y)
  OBVIOUS
<1>2. QED
  BY <1>1, FlattenOne, FlattenAppend

\* The empty sequence flattens to itself.
LEMMA FlattenEmpty == FlattenSeq(<<>>) = <<>>
<1>1. <<>> \in Seq(Seq({})) /\ \A i \in 1..Len(<<>>) : <<>>[i] = <<>>
  OBVIOUS
<1>2. QED
  BY <1>1, FlattenNothing

\* What a flattening holds is held by one of its sequences.
LEMMA FlattenHolds ==
  ASSUME NEW T, NEW s \in Seq(Seq(T)), NEW i \in DOMAIN FlattenSeq(s)
  PROVE  \E n \in DOMAIN s : \E k \in DOMAIN s[n] : FlattenSeq(s)[i] = s[n][k]
<1> DEFINE Has(u) == \A j \in DOMAIN FlattenSeq(u) :
                       \E n \in DOMAIN u : \E k \in DOMAIN u[n] : FlattenSeq(u)[j] = u[n][k]
           S == {u \in Seq(Seq(T)) : Has(u)}
<1>1. <<>> \in S
  <2>1. DOMAIN FlattenSeq(<<>>) = {} /\ <<>> \in Seq(Seq(T))
    BY FlattenEmpty
  <2>2. QED
    BY <2>1
<1>2. ASSUME NEW u \in Seq(Seq(T)), NEW x \in Seq(T), u \in S PROVE Append(u, x) \in S
  <2> DEFINE w == Append(u, x)
             F == FlattenSeq(u)
  <2>1. FlattenSeq(w) = F \o x
    BY FlattenAppend
  <2>2. F \in Seq(T)
    BY FlattenType
  <2>3. /\ w \in Seq(Seq(T)) /\ DOMAIN w = 1..(Len(u) + 1) /\ Len(u) \in Nat /\ DOMAIN u = 1..Len(u)
        /\ w[Len(u) + 1] = x /\ \A n \in DOMAIN u : w[n] = u[n]
    OBVIOUS
  <2>4. \A j \in DOMAIN F : \E n \in DOMAIN u : \E k \in DOMAIN u[n] : F[j] = u[n][k]
    BY <1>2
  <2> HIDE DEF w, F
  <2>5. ASSUME NEW j \in DOMAIN (F \o x)
        PROVE \E n \in DOMAIN w : \E k \in DOMAIN w[n] : (F \o x)[j] = w[n][k]
    <3>1. CASE j \in DOMAIN F
      <4>1. (F \o x)[j] = F[j]
        BY <2>2, <3>1
      <4>2. PICK n \in DOMAIN u : \E k \in DOMAIN u[n] : F[j] = u[n][k]
        BY <2>4, <3>1
      <4>3. n \in DOMAIN w /\ w[n] = u[n]
        BY <2>3
      <4>4. QED
        BY <4>1, <4>2, <4>3
    <3>2. CASE j \notin DOMAIN F
      <4>1. j - Len(F) \in DOMAIN x /\ (F \o x)[j] = x[j - Len(F)]
        BY <2>2, <3>2
      <4>2. Len(u) + 1 \in DOMAIN w
        BY <2>3
      <4>3. QED
        BY <2>3, <4>1, <4>2
    <3>3. QED
      BY <3>1, <3>2
  <2>6. Has(w)
    BY <2>1, <2>5
  <2>7. QED
    BY <2>3, <2>6 DEF w
<1> HIDE DEF S
<1>3. Seq(Seq(T)) \subseteq S
  BY <1>1, <1>2, SeqInduct
<1>4. QED
  BY <1>3 DEF S

\* R holds between what comes first and what comes later.
Ordered(s, R) == \A i, j \in DOMAIN s : i < j => <<s[i], s[j]>> \in R

\* Two ordered sequences in a row are ordered, if what the first holds comes
\* before what the second holds.
LEMMA OrderedConcat ==
  ASSUME NEW T, NEW R, NEW u \in Seq(T), NEW v \in Seq(T), Ordered(u, R), Ordered(v, R),
         \A i \in DOMAIN u, j \in DOMAIN v : <<u[i], v[j]>> \in R
  PROVE  Ordered(u \o v, R)
<1>1. SUFFICES ASSUME NEW i \in DOMAIN (u \o v), NEW j \in DOMAIN (u \o v), i < j
               PROVE  <<(u \o v)[i], (u \o v)[j]>> \in R
  BY DEF Ordered
<1>2. /\ Len(u) \in Nat /\ Len(v) \in Nat /\ i \in 1..(Len(u) + Len(v)) /\ j \in 1..(Len(u) + Len(v))
      /\ DOMAIN u = 1..Len(u) /\ DOMAIN v = 1..Len(v)
  OBVIOUS
<1>3. CASE j <= Len(u)
  <2>1. i \in DOMAIN u /\ j \in DOMAIN u /\ (u \o v)[i] = u[i] /\ (u \o v)[j] = u[j]
    BY <1>1, <1>2, <1>3
  <2>2. QED
    BY <1>1, <2>1 DEF Ordered
<1>4. CASE i <= Len(u) /\ j > Len(u)
  <2>1. i \in DOMAIN u /\ j - Len(u) \in DOMAIN v /\ (u \o v)[i] = u[i] /\ (u \o v)[j] = v[j - Len(u)]
    BY <1>2, <1>4
  <2>2. QED
    BY <2>1
<1>5. CASE i > Len(u)
  <2>1. /\ i - Len(u) \in DOMAIN v /\ j - Len(u) \in DOMAIN v /\ i - Len(u) < j - Len(u)
        /\ (u \o v)[i] = v[i - Len(u)] /\ (u \o v)[j] = v[j - Len(u)]
    BY <1>1, <1>2, <1>5
  <2>2. QED
    BY <2>1 DEF Ordered
<1>6. j <= Len(u) \/ (i <= Len(u) /\ j > Len(u)) \/ i > Len(u)
  BY <1>2
<1>7. QED
  BY <1>3, <1>4, <1>5, <1>6, Zenon

\* Ordered sequences flatten to an ordered one, if they are in order themselves.
LEMMA FlattenOrdered ==
  ASSUME NEW T, NEW R, NEW s \in Seq(Seq(T)),
         \A n \in DOMAIN s : Ordered(s[n], R),
         \A n, m \in DOMAIN s : n < m =>
           \A i \in DOMAIN s[n], j \in DOMAIN s[m] : <<s[n][i], s[m][j]>> \in R
  PROVE  Ordered(FlattenSeq(s), R)
<1> DEFINE Good(u) == /\ \A n \in DOMAIN u : Ordered(u[n], R)
                      /\ \A n, m \in DOMAIN u : n < m =>
                           \A i \in DOMAIN u[n], j \in DOMAIN u[m] : <<u[n][i], u[m][j]>> \in R
           S == {u \in Seq(Seq(T)) : Good(u) => Ordered(FlattenSeq(u), R)}
<1>1. <<>> \in S
  <2>1. Ordered(<<>>, R) /\ <<>> \in Seq(Seq(T))
    BY DEF Ordered
  <2>2. QED
    BY <2>1, FlattenEmpty
<1>2. ASSUME NEW u \in Seq(Seq(T)), NEW x \in Seq(T), u \in S PROVE Append(u, x) \in S
  <2> DEFINE w == Append(u, x)
             F == FlattenSeq(u)
  <2>1. FlattenSeq(w) = F \o x
    BY FlattenAppend
  <2>2. F \in Seq(T)
    BY FlattenType
  <2>3. /\ w \in Seq(Seq(T)) /\ DOMAIN w = 1..(Len(u) + 1) /\ Len(u) \in Nat /\ DOMAIN u = 1..Len(u)
        /\ w[Len(u) + 1] = x /\ \A n \in DOMAIN u : w[n] = u[n]
    OBVIOUS
  <2>4. \A j \in DOMAIN F : \E n \in DOMAIN u : \E k \in DOMAIN u[n] : F[j] = u[n][k]
    BY FlattenHolds
  <2>5. Good(u) => Ordered(F, R)
    BY <1>2
  <2> HIDE DEF w, F
  <2>6. ASSUME Good(w) PROVE Ordered(F \o x, R)
    <3>1. Good(u)
      <4>1. \A n \in DOMAIN u : n \in DOMAIN w
        BY <2>3
      <4>2. QED
        BY <2>3, <2>6, <4>1
    <3>2. Ordered(x, R)
      <4>1. Len(u) + 1 \in DOMAIN w
        BY <2>3
      <4>2. QED
        BY <2>3, <2>6, <4>1
    <3>3. ASSUME NEW i \in DOMAIN F, NEW j \in DOMAIN x PROVE <<F[i], x[j]>> \in R
      <4>1. PICK n \in DOMAIN u : \E k \in DOMAIN u[n] : F[i] = u[n][k]
        BY <2>4
      <4>2. n \in DOMAIN w /\ Len(u) + 1 \in DOMAIN w /\ n < Len(u) + 1 /\ w[n] = u[n]
        BY <2>3
      <4>3. QED
        BY <2>3, <2>6, <4>1, <4>2
    <3> HIDE DEF Good
    <3>4. QED
      BY <2>2, <2>5, <3>1, <3>2, <3>3, OrderedConcat
  <2> HIDE DEF Good
  <2>7. QED
    BY <2>1, <2>3, <2>6 DEF w
<1>3. Good(s)
  OBVIOUS
<1> HIDE DEF S, Good
<1>4. Seq(Seq(T)) \subseteq S
  BY <1>1, <1>2, SeqInduct
<1>5. QED
  BY <1>3, <1>4 DEF S

-----------------------------------------------------------------------------
(* Least and greatest numbers *)

\* A set of natural numbers with a member has a least one.
LEMMA MinIs ==
  ASSUME NEW S \in SUBSET Nat, S # {}
  PROVE  Min(S) \in S /\ \A n \in S : Min(S) <= n
<1>1. \E n \in S : \A m \in S : n <= m
  BY LeastNumber
<1>2. QED
  BY <1>1 DEF Min

\* One with a bound has a greatest.
LEMMA MaxIs ==
  ASSUME NEW b \in Nat, NEW S \in SUBSET (0..b), S # {}
  PROVE  Max(S) \in S /\ \A n \in S : n <= Max(S)
<1> DEFINE down == {b - n : n \in S}
<1>1. down \in SUBSET Nat /\ down # {}
  <2>1. \A n \in S : n \in Nat /\ n <= b
    OBVIOUS
  <2>2. \A n \in S : b - n \in Nat
    BY <2>1
  <2>3. QED
    BY <2>2
<1>2. PICK k \in down : \A m \in down : k <= m
  BY <1>1, LeastNumber
<1>3. PICK n \in S : k = b - n
  BY <1>2
<1>4. ASSUME NEW m \in S PROVE m <= n
  <2>1. b - m \in down
    OBVIOUS
  <2>2. b - n <= b - m
    BY <1>2, <1>3, <2>1
  <2>3. QED
    BY <2>2
<1>5. \E x \in S : \A y \in S : y <= x
  BY <1>4
<1>6. QED
  BY <1>5 DEF Max

-----------------------------------------------------------------------------
(* Where *)

\* Each member as a sequence: of it, or empty
Marks(s, S) == [n \in DOMAIN s |-> IF s[n] \in S THEN <<s[n]>> ELSE <<>>]

\* What it takes of a sequence are members of it.
LEMMA WhereType ==
  ASSUME NEW T, NEW S, NEW s \in Seq(T)
  PROVE  Marks(s, S) \in Seq(Seq(T)) /\ Where(s, S) = FlattenSeq(Marks(s, S)) /\ Where(s, S) \in Seq(T)
<1>1. Marks(s, S) \in Seq(Seq(T))
  <2>1. ASSUME NEW n \in DOMAIN s PROVE (IF s[n] \in S THEN <<s[n]>> ELSE <<>>) \in Seq(T)
    OBVIOUS
  <2>2. DOMAIN s = 1..Len(s) /\ Len(s) \in Nat
    OBVIOUS
  <2>3. QED
    BY <2>1, <2>2 DEF Marks
<1>2. QED
  BY <1>1, FlattenType DEF Where, Marks

\* It takes a member more, or not.
LEMMA WhereAppend ==
  ASSUME NEW T, NEW S, NEW s \in Seq(T), NEW x \in T
  PROVE  Where(Append(s, x), S) = IF x \in S THEN Append(Where(s, S), x) ELSE Where(s, S)
<1> DEFINE m == IF x \in S THEN <<x>> ELSE <<>>
<1>1. m \in Seq(T)
  OBVIOUS
<1>2. Marks(Append(s, x), S) = Append(Marks(s, S), m)
  <2>1. Marks(s, S) \in Seq(Seq(T)) /\ Marks(Append(s, x), S) \in Seq(Seq(T))
    <3>1. Append(s, x) \in Seq(T)
      OBVIOUS
    <3>2. QED
      BY <3>1, WhereType
  <2>2. Len(Marks(s, S)) = Len(s) /\ Len(Marks(Append(s, x), S)) = Len(s) + 1 /\ Len(s) \in Nat
    <3>1. Len(s) \in Nat /\ DOMAIN s = 1..Len(s) /\ DOMAIN Append(s, x) = 1..(Len(s) + 1)
      OBVIOUS
    <3>2. QED
      BY <2>1, <3>1 DEF Marks
  <2>3. ASSUME NEW i \in 1..(Len(s) + 1)
        PROVE Marks(Append(s, x), S)[i] = Append(Marks(s, S), m)[i]
    <3>1. CASE i = Len(s) + 1
      <4>1. Append(s, x)[i] = x /\ i \in DOMAIN Append(s, x)
        BY <3>1
      <4>2. Append(Marks(s, S), m)[i] = m
        BY <1>1, <2>1, <2>2, <3>1
      <4>3. QED
        BY <4>1, <4>2 DEF Marks
    <3>2. CASE i # Len(s) + 1
      <4>1. Append(s, x)[i] = s[i] /\ i \in DOMAIN Append(s, x) /\ i \in DOMAIN s
        BY <2>2, <3>2
      <4>2. Append(Marks(s, S), m)[i] = Marks(s, S)[i]
        BY <1>1, <2>1, <2>2, <3>2
      <4>3. QED
        BY <4>1, <4>2 DEF Marks
    <3>3. QED
      BY <3>1, <3>2
  <2>4. Append(Marks(s, S), m) \in Seq(Seq(T)) /\ Len(Append(Marks(s, S), m)) = Len(s) + 1
    BY <1>1, <2>1, <2>2
  <2> HIDE DEF m
  <2>5. QED
    BY <2>1, <2>2, <2>3, <2>4, SeqEqual
<1>3. Where(Append(s, x), S) = Where(s, S) \o m
  <2>1. Append(s, x) \in Seq(T)
    OBVIOUS
  <2>2. Where(Append(s, x), S) = FlattenSeq(Append(Marks(s, S), m))
    BY <1>2, <2>1, WhereType
  <2>3. Marks(s, S) \in Seq(Seq(T)) /\ Where(s, S) = FlattenSeq(Marks(s, S))
    BY WhereType
  <2> HIDE DEF m
  <2>4. QED
    BY <1>1, <2>2, <2>3, FlattenAppend
<1>4. Where(s, S) \in Seq(T)
  BY WhereType
<1>5. QED
  BY <1>3, <1>4

\* Of nothing it takes nothing.
LEMMA WhereEmpty == \A S : Where(<<>>, S) = <<>>
BY FlattenEmpty DEF Where

\* Of a sequence of one it takes that one, or not.
LEMMA WhereOne ==
  ASSUME NEW S, NEW x
  PROVE  Where(<<x>>, S) = IF x \in S THEN <<x>> ELSE <<>>
<1>1. <<>> \in Seq({x}) /\ x \in {x} /\ <<x>> = Append(<<>>, x)
  OBVIOUS
<1>2. Where(Append(<<>>, x), S) = IF x \in S THEN Append(Where(<<>>, S), x) ELSE Where(<<>>, S)
  <2> DEFINE none == <<>>
  <2>1. none \in Seq({x}) /\ x \in {x}
    BY <1>1
  <2> HIDE DEF none
  <2>2. Where(Append(none, x), S) = IF x \in S THEN Append(Where(none, S), x) ELSE Where(none, S)
    BY <2>1, WhereAppend
  <2>3. QED
    BY <2>2 DEF none
<1>3. QED
  BY <1>1, <1>2, WhereEmpty

\* One more behind two in a row is one more behind the second.
LEMMA AppendBehind ==
  ASSUME NEW T, NEW u \in Seq(T), NEW v \in Seq(T), NEW x \in T
  PROVE  u \o Append(v, x) = Append(u \o v, x)
<1> DEFINE a == u \o Append(v, x)
           b == Append(u \o v, x)
<1>1. /\ a \in Seq(T) /\ b \in Seq(T) /\ Len(a) = Len(u) + Len(v) + 1 /\ Len(b) = Len(a)
      /\ Len(u) \in Nat /\ Len(v) \in Nat
  OBVIOUS
<1>2. ASSUME NEW i \in 1..Len(a) PROVE a[i] = b[i]
  OBVIOUS
<1> HIDE DEF a, b
<1>3. a = b
  BY <1>1, <1>2, SeqEqual
<1>4. QED
  BY <1>3 DEF a, b

\* What it takes of two sequences in a row is what it takes of each, in a row.
LEMMA WhereConcat ==
  ASSUME NEW T, NEW S, NEW u \in Seq(T), NEW v \in Seq(T)
  PROVE  Where(u \o v, S) = Where(u, S) \o Where(v, S)
<1> DEFINE Q == {w \in Seq(T) : Where(u \o w, S) = Where(u, S) \o Where(w, S)}
<1>1. <<>> \in Q
  <2>1. Where(u, S) \in Seq(T) /\ u \o <<>> = u
    BY WhereType
  <2>2. QED
    BY <2>1, WhereEmpty
<1>2. ASSUME NEW w \in Seq(T), NEW x \in T, w \in Q PROVE Append(w, x) \in Q
  <2> DEFINE both == u \o w
  <2>1. u \o Append(w, x) = Append(both, x) /\ both \in Seq(T)
    BY AppendBehind
  <2>2. Where(u \o Append(w, x), S) = IF x \in S THEN Append(Where(both, S), x) ELSE Where(both, S)
    <3> HIDE DEF both
    <3>1. QED
      BY <2>1, WhereAppend
  <2>3. Where(Append(w, x), S) = IF x \in S THEN Append(Where(w, S), x) ELSE Where(w, S)
    BY WhereAppend
  <2>4. Where(both, S) = Where(u, S) \o Where(w, S)
    BY <1>2
  <2>5. Where(u, S) \in Seq(T) /\ Where(w, S) \in Seq(T)
    BY WhereType
  <2>6. Append(Where(u, S) \o Where(w, S), x) = Where(u, S) \o Append(Where(w, S), x)
    <3>1. \A a, b \in Seq(T) : a \o Append(b, x) = Append(a \o b, x)
      BY AppendBehind
    <3>2. QED
      BY <2>5, <3>1, Zenon
  <2> HIDE DEF both
  <2>7. Where(u \o Append(w, x), S) = Where(u, S) \o Where(Append(w, x), S)
    BY <2>2, <2>3, <2>4, <2>6
  <2>8. QED
    BY <2>7
<1> HIDE DEF Q
<1>3. Seq(T) \subseteq Q
  BY <1>1, <1>2, SeqInduct
<1>4. QED
  BY <1>3 DEF Q

\* It takes what is in S, each in its place.
LEMMA WhereHolds ==
  ASSUME NEW T, NEW S, NEW s \in Seq(T)
  PROVE  /\ \A i \in DOMAIN Where(s, S) :
              Where(s, S)[i] \in S /\ \E n \in DOMAIN s : s[n] = Where(s, S)[i]
         /\ \A n \in DOMAIN s : s[n] \in S => \E i \in DOMAIN Where(s, S) : Where(s, S)[i] = s[n]
<1> DEFINE In(u) == \A i \in DOMAIN Where(u, S) :
                      Where(u, S)[i] \in S /\ \E n \in DOMAIN u : u[n] = Where(u, S)[i]
           All(u) == \A n \in DOMAIN u : u[n] \in S => \E i \in DOMAIN Where(u, S) : Where(u, S)[i] = u[n]
           Q == {u \in Seq(T) : In(u) /\ All(u)}
<1>1. <<>> \in Q
  BY WhereEmpty
<1>2. ASSUME NEW u \in Seq(T), NEW x \in T, u \in Q PROVE Append(u, x) \in Q
  <2> DEFINE w == Append(u, x)
             F == Where(u, S)
  <2>1. /\ w \in Seq(T) /\ DOMAIN w = 1..(Len(u) + 1) /\ Len(u) \in Nat /\ DOMAIN u = 1..Len(u)
        /\ w[Len(u) + 1] = x /\ \A n \in DOMAIN u : w[n] = u[n]
    OBVIOUS
  <2>2. Where(w, S) = IF x \in S THEN Append(F, x) ELSE F
    BY WhereAppend
  <2>3. F \in Seq(T)
    BY WhereType
  <2>4. /\ \A i \in DOMAIN F : F[i] \in S /\ \E n \in DOMAIN u : u[n] = F[i]
        /\ \A n \in DOMAIN u : u[n] \in S => \E i \in DOMAIN F : F[i] = u[n]
    BY <1>2
  <2> HIDE DEF w, F
  <2>5. \A i \in DOMAIN F : F[i] \in S /\ \E n \in DOMAIN w : w[n] = F[i]
    <3> TAKE i \in DOMAIN F
    <3>1. PICK n \in DOMAIN u : u[n] = F[i]
      BY <2>4
    <3>2. n \in DOMAIN w /\ w[n] = F[i]
      BY <2>1, <3>1
    <3>3. QED
      BY <2>4, <3>2
  <2>6. CASE x \in S
    <3> DEFINE G == Append(F, x)
    <3>1. /\ DOMAIN G = 1..(Len(F) + 1) /\ Len(F) \in Nat /\ DOMAIN F = 1..Len(F)
          /\ G[Len(F) + 1] = x /\ \A i \in DOMAIN F : G[i] = F[i]
      BY <2>3
    <3>2. Where(w, S) = G
      BY <2>2, <2>6
    <3> HIDE DEF G
    <3>3. \A i \in DOMAIN G : G[i] \in S /\ \E n \in DOMAIN w : w[n] = G[i]
      <4> TAKE i \in DOMAIN G
      <4>1. CASE i = Len(F) + 1
        <5>1. Len(u) + 1 \in DOMAIN w
          BY <2>1
        <5>2. QED
          BY <2>1, <2>6, <3>1, <4>1, <5>1
      <4>2. CASE i # Len(F) + 1
        <5>1. i \in DOMAIN F /\ G[i] = F[i]
          BY <3>1, <4>2
        <5>2. QED
          BY <2>5, <5>1
      <4>3. QED
        BY <4>1, <4>2
    <3>4. \A n \in DOMAIN w : w[n] \in S => \E i \in DOMAIN G : G[i] = w[n]
      <4> TAKE n \in DOMAIN w
      <4>1. CASE n = Len(u) + 1
        <5>1. Len(F) + 1 \in DOMAIN G
          BY <3>1
        <5>2. QED
          BY <2>1, <3>1, <4>1, <5>1
      <4>2. CASE n # Len(u) + 1
        <5>1. n \in DOMAIN u /\ w[n] = u[n]
          BY <2>1, <4>2
        <5>2. \A i \in DOMAIN F : i \in DOMAIN G /\ G[i] = F[i]
          BY <3>1
        <5>3. QED
          BY <2>4, <5>1, <5>2
      <4>3. QED
        BY <4>1, <4>2
    <3>5. In(w) /\ All(w)
      BY <3>2, <3>3, <3>4
    <3>6. QED
      BY <2>1, <3>5 DEF w
  <2>7. CASE x \notin S
    <3>1. Where(w, S) = F
      BY <2>2, <2>7
    <3>2. \A n \in DOMAIN w : w[n] \in S => \E i \in DOMAIN F : F[i] = w[n]
      <4> TAKE n \in DOMAIN w
      <4>1. CASE n = Len(u) + 1
        BY <2>1, <2>7, <4>1
      <4>2. CASE n # Len(u) + 1
        <5>1. n \in DOMAIN u /\ w[n] = u[n]
          BY <2>1, <4>2
        <5>2. QED
          BY <2>4, <5>1
      <4>3. QED
        BY <4>1, <4>2
    <3>3. In(w) /\ All(w)
      BY <2>5, <3>1, <3>2
    <3>4. QED
      BY <2>1, <3>3 DEF w
  <2>8. QED
    BY <2>6, <2>7
<1> HIDE DEF Q
<1>3. Seq(T) \subseteq Q
  BY <1>1, <1>2, SeqInduct
<1>4. QED
  BY <1>3 DEF Q

\* It takes all, when all are in S,
LEMMA WhereAll ==
  ASSUME NEW T, NEW S, NEW s \in Seq(T), \A n \in DOMAIN s : s[n] \in S
  PROVE  Where(s, S) = s
<1> DEFINE Q == {u \in Seq(T) : (\A n \in DOMAIN u : u[n] \in S) => Where(u, S) = u}
<1>1. <<>> \in Q
  BY WhereEmpty
<1>2. ASSUME NEW u \in Seq(T), NEW x \in T, u \in Q PROVE Append(u, x) \in Q
  <2> DEFINE w == Append(u, x)
  <2>0. w \in Seq(T)
    OBVIOUS
  <2>1. ASSUME \A n \in DOMAIN w : w[n] \in S
        PROVE  Where(w, S) = w
    <3>1. \A n \in DOMAIN u : n \in DOMAIN w /\ w[n] = u[n]
      OBVIOUS
    <3>2. Len(u) + 1 \in DOMAIN w /\ w[Len(u) + 1] = x
      OBVIOUS
    <3> HIDE DEF w
    <3>3. Where(u, S) = u /\ x \in S
      BY <1>2, <2>1, <3>1, <3>2
    <3>4. Where(w, S) = Append(u, x)
      BY <3>3, WhereAppend DEF w
    <3>5. QED
      BY <3>4 DEF w
  <2> HIDE DEF w
  <2>2. w \in Q
    BY <2>0, <2>1
  <2>3. QED
    BY <2>2 DEF w
<1> HIDE DEF Q
<1>3. Seq(T) \subseteq Q
  BY <1>1, <1>2, SeqInduct
<1>4. QED
  BY <1>3 DEF Q

\* and nothing when none are.
LEMMA WhereNone ==
  ASSUME NEW T, NEW S, NEW s \in Seq(T), \A n \in DOMAIN s : s[n] \notin S
  PROVE  Where(s, S) = <<>>
<1>1. Where(s, S) \in Seq(T)
  BY WhereType
<1>2. \A i \in DOMAIN Where(s, S) : \E n \in DOMAIN s : s[n] \in S
  BY WhereHolds
<1>3. DOMAIN Where(s, S) = {}
  BY <1>2
<1>4. QED
  BY <1>1, <1>3

\* It keeps the order.
LEMMA WhereOrdered ==
  ASSUME NEW T, NEW R, NEW S, NEW s \in Seq(T), Ordered(s, R)
  PROVE  Ordered(Where(s, S), R)
<1>1. Marks(s, S) \in Seq(Seq(T)) /\ Where(s, S) = FlattenSeq(Marks(s, S))
  BY WhereType
<1>2. DOMAIN Marks(s, S) = DOMAIN s
  BY DEF Marks
<1>3. \A n \in DOMAIN s : \A i \in DOMAIN Marks(s, S)[n] : i = 1 /\ Marks(s, S)[n][i] = s[n]
  BY DEF Marks
<1>4. \A n \in DOMAIN s : Ordered(Marks(s, S)[n], R)
  BY <1>3 DEF Ordered
<1>5. ASSUME NEW n \in DOMAIN s, NEW m \in DOMAIN s, n < m,
             NEW i \in DOMAIN Marks(s, S)[n], NEW j \in DOMAIN Marks(s, S)[m]
      PROVE <<Marks(s, S)[n][i], Marks(s, S)[m][j]>> \in R
  BY <1>3, <1>5 DEF Ordered
<1>6. QED
  BY <1>1, <1>2, <1>4, <1>5, FlattenOrdered

\* It may be taken of each of many sequences, before or after they are put in a row.
LEMMA WhereFlatten ==
  ASSUME NEW T, NEW S, NEW s \in Seq(Seq(T))
  PROVE  Where(FlattenSeq(s), S) = FlattenSeq([n \in DOMAIN s |-> Where(s[n], S)])
<1> DEFINE Each(u) == [n \in DOMAIN u |-> Where(u[n], S)]
           Q == {u \in Seq(Seq(T)) : Where(FlattenSeq(u), S) = FlattenSeq(Each(u))}
<1>1. <<>> \in Q
  <2>1. Each(<<>>) = <<>> /\ <<>> \in Seq(Seq(T))
    OBVIOUS
  <2>2. QED
    BY <2>1, FlattenEmpty, WhereEmpty
<1>2. ASSUME NEW u \in Seq(Seq(T)), NEW x \in Seq(T), u \in Q PROVE Append(u, x) \in Q
  <2>1. Each(u) \in Seq(Seq(T)) /\ Len(Each(u)) = Len(u) /\ Len(u) \in Nat /\ DOMAIN u = 1..Len(u)
    <3>1. \A n \in DOMAIN u : Where(u[n], S) \in Seq(T)
      <4> TAKE n \in DOMAIN u
      <4>1. u[n] \in Seq(T)
        OBVIOUS
      <4>2. QED
        BY <4>1, WhereType
    <3>2. DOMAIN u = 1..Len(u) /\ Len(u) \in Nat
      OBVIOUS
    <3>3. QED
      BY <3>1, <3>2
  <2>2. Where(x, S) \in Seq(T)
    BY WhereType
  <2>3. Each(Append(u, x)) = Append(Each(u), Where(x, S))
    <3> DEFINE w == Append(u, x)
    <3>1. /\ DOMAIN w = 1..(Len(u) + 1) /\ w[Len(u) + 1] = x /\ \A n \in DOMAIN u : w[n] = u[n]
      BY <2>1
    <3> HIDE DEF w
    <3>2. ASSUME NEW n \in 1..(Len(u) + 1) PROVE Each(w)[n] = Append(Each(u), Where(x, S))[n]
      <4>1. Each(w)[n] = Where(w[n], S)
        BY <3>1
      <4>2. CASE n = Len(u) + 1
        <5>1. Append(Each(u), Where(x, S))[n] = Where(x, S)
          BY <2>1, <2>2, <4>2
        <5>2. QED
          BY <3>1, <4>1, <4>2, <5>1
      <4>3. CASE n # Len(u) + 1
        <5>1. n \in 1..Len(u)
          BY <2>1, <4>3
        <5>2. Append(Each(u), Where(x, S))[n] = Each(u)[n] /\ w[n] = u[n]
          BY <2>1, <2>2, <3>1, <5>1
        <5>3. Each(u)[n] = Where(u[n], S)
          BY <2>1, <5>1
        <5>4. QED
          BY <4>1, <5>2, <5>3
      <4>4. QED
        BY <4>2, <4>3
    <3>3. DOMAIN Each(w) = 1..(Len(u) + 1) /\ DOMAIN Append(Each(u), Where(x, S)) = 1..(Len(u) + 1)
      BY <2>1, <2>2, <3>1
    <3>4. Append(Each(u), Where(x, S)) = [n \in 1..(Len(u) + 1) |-> Append(Each(u), Where(x, S))[n]]
      BY <2>1, <2>2
    <3>5. Each(w) = [n \in 1..(Len(u) + 1) |-> Each(w)[n]]
      BY <3>1
    <3> HIDE DEF Each
    <3>6. Each(w) = Append(Each(u), Where(x, S))
      BY <3>2, <3>4, <3>5
    <3>7. QED
      BY <3>6 DEF w
  <2>4. FlattenSeq(u) \in Seq(T) /\ FlattenSeq(Append(u, x)) = FlattenSeq(u) \o x
    BY FlattenType, FlattenAppend
  <2>5. Where(FlattenSeq(u) \o x, S) = Where(FlattenSeq(u), S) \o Where(x, S)
    BY <2>4, WhereConcat
  <2>6. FlattenSeq(Append(Each(u), Where(x, S))) = FlattenSeq(Each(u)) \o Where(x, S)
    BY <2>1, <2>2, FlattenAppend
  <2>7. Where(FlattenSeq(u), S) = FlattenSeq(Each(u))
    BY <1>2
  <2>8. Append(u, x) \in Seq(Seq(T))
    OBVIOUS
  <2> HIDE DEF Each
  <2>9. QED
    BY <2>3, <2>4, <2>5, <2>6, <2>7, <2>8
<1> HIDE DEF Q
<1>3. Seq(Seq(T)) \subseteq Q
  BY <1>1, <1>2, SeqInduct
<1>4. QED
  BY <1>3 DEF Q

-----------------------------------------------------------------------------
(* Characters, Strip and Tokens *)

\* It takes no more than there is.
LEMMA WhereLen ==
  ASSUME NEW T, NEW S, NEW s \in Seq(T)
  PROVE  Len(Where(s, S)) \in Nat /\ Len(Where(s, S)) <= Len(s)
<1> DEFINE Q == {u \in Seq(T) : Len(Where(u, S)) <= Len(u)}
<1>1. <<>> \in Q
  BY WhereEmpty
<1>2. ASSUME NEW u \in Seq(T), NEW x \in T, u \in Q PROVE Append(u, x) \in Q
  <2>1. Where(u, S) \in Seq(T) /\ Len(Where(u, S)) <= Len(u)
    BY <1>2, WhereType
  <2>2. Where(Append(u, x), S) = IF x \in S THEN Append(Where(u, S), x) ELSE Where(u, S)
    BY WhereAppend
  <2>3. Len(Where(Append(u, x), S)) <= Len(u) + 1
    BY <2>1, <2>2
  <2>4. Append(u, x) \in Seq(T) /\ Len(Append(u, x)) = Len(u) + 1
    OBVIOUS
  <2>5. QED
    BY <2>3, <2>4
<1> HIDE DEF Q
<1>3. Seq(T) \subseteq Q
  BY <1>1, <1>2, SeqInduct
<1>4. Where(s, S) \in Seq(T)
  BY WhereType
<1>5. QED
  BY <1>3, <1>4 DEF Q

\* The characters of the program do not count among a text's own.
LEMMA CharactersOf ==
  ASSUME NEW u \in Seq(Nat)
  PROVE  /\ Characters(u) \in Seq(Nat) /\ Len(Characters(u)) \in 0..Len(u)
         /\ \A v \in Seq(Nat) : Characters(u \o v) = Characters(u) \o Characters(v)
         /\ (\A i \in DOMAIN u : u[i] = 0) => Characters(u) = <<>>
         /\ (\A i \in DOMAIN u : u[i] # 0) => Characters(u) = u
         /\ Characters(u) = <<>> => \A i \in DOMAIN u : u[i] = 0
<1>1. Characters(u) \in Seq(Nat) /\ Len(Characters(u)) \in 0..Len(u)
  <2>1. Characters(u) \in Seq(Nat)
    BY WhereType DEF Characters
  <2>2. Len(Characters(u)) \in Nat /\ Len(Characters(u)) <= Len(u) /\ Len(u) \in Nat
    BY WhereLen DEF Characters
  <2>3. QED
    BY <2>1, <2>2
<1>2. \A v \in Seq(Nat) : Characters(u \o v) = Characters(u) \o Characters(v)
  BY WhereConcat DEF Characters
<1>3. ASSUME \A i \in DOMAIN u : u[i] = 0 PROVE Characters(u) = <<>>
  <2>1. \A i \in DOMAIN u : u[i] \notin Nat \ {0}
    BY <1>3
  <2>2. QED
    BY <2>1, WhereNone DEF Characters
<1>4. ASSUME \A i \in DOMAIN u : u[i] # 0 PROVE Characters(u) = u
  <2>1. \A i \in DOMAIN u : u[i] \in Nat \ {0}
    BY <1>4
  <2>2. QED
    BY <2>1, WhereAll DEF Characters
<1>5. ASSUME Characters(u) = <<>>, NEW i \in DOMAIN u PROVE u[i] = 0
  <2>1. \A S : \A n \in DOMAIN u : u[n] \in S =>
          \E j \in DOMAIN Where(u, S) : Where(u, S)[j] = u[n]
    BY WhereHolds
  <2>2. u[i] \in Nat /\ DOMAIN Characters(u) = {}
    BY <1>5
  <2>3. QED
    BY <2>1, <2>2 DEF Characters
<1>6. QED
  BY <1>1, <1>2, <1>3, <1>4, <1>5

\* A text in three parts
LEMMA ThreeParts ==
  ASSUME NEW T, NEW u \in Seq(T), NEW a \in 1..Len(u), NEW b \in a..Len(u)
  PROVE  /\ SubSeq(u, 1, a - 1) \in Seq(T) /\ SubSeq(u, a, b) \in Seq(T)
         /\ SubSeq(u, b + 1, Len(u)) \in Seq(T)
         /\ Len(SubSeq(u, 1, a - 1)) = a - 1 /\ Len(SubSeq(u, a, b)) = b + 1 - a
         /\ Len(SubSeq(u, b + 1, Len(u))) = Len(u) - b
         /\ \A i \in 1..(a - 1) : SubSeq(u, 1, a - 1)[i] = u[i]
         /\ \A i \in 1..(b + 1 - a) : SubSeq(u, a, b)[i] = u[a - 1 + i]
         /\ \A i \in 1..(Len(u) - b) : SubSeq(u, b + 1, Len(u))[i] = u[b + i]
         /\ u = (SubSeq(u, 1, a - 1) \o SubSeq(u, a, b)) \o SubSeq(u, b + 1, Len(u))
<1> DEFINE x == SubSeq(u, 1, a - 1)
           y == SubSeq(u, a, b)
           z == SubSeq(u, b + 1, Len(u))
<1>1. /\ x \in Seq(T) /\ Len(x) = a - 1 /\ \A i \in 1..(a - 1) : x[i] = u[i]
  OBVIOUS
<1>2. /\ y \in Seq(T) /\ Len(y) = b + 1 - a /\ \A i \in 1..(b + 1 - a) : y[i] = u[a - 1 + i]
  OBVIOUS
<1>3. /\ z \in Seq(T) /\ Len(z) = Len(u) - b /\ \A i \in 1..(Len(u) - b) : z[i] = u[b + i]
  OBVIOUS
<1>4. Len(u) \in Nat /\ a \in Nat /\ b \in Nat /\ 1 <= a /\ a <= b /\ b <= Len(u)
  OBVIOUS
<1> DEFINE w == x \o y
<1> HIDE DEF x, y, z
<1>5. w \in Seq(T) /\ Len(w) = b /\ \A i \in 1..b : w[i] = u[i]
  <2>1. w \in Seq(T) /\ Len(w) = b
    <3>1. w \in Seq(T) /\ Len(w) = Len(x) + Len(y)
      BY <1>1, <1>2, Concat
    <3> HIDE DEF w
    <3>2. QED
      BY <1>1, <1>2, <1>4, <3>1
  <2>2. ASSUME NEW i \in 1..b PROVE w[i] = u[i]
    <3>1. CASE i <= a - 1
      BY <1>1, <1>2, <1>4, <3>1
    <3>2. CASE i > a - 1
      <4>1. w[i] = y[i - (a - 1)] /\ i - (a - 1) \in 1..(b + 1 - a)
        BY <1>1, <1>2, <1>4, <3>2
      <4>2. QED
        BY <1>2, <1>4, <4>1
    <3>3. i <= a - 1 \/ i > a - 1
      BY <1>4
    <3>4. QED
      BY <3>1, <3>2, <3>3, Zenon
  <2>3. QED
    BY <2>1, <2>2
<1> DEFINE v == w \o z
<1> HIDE DEF w
<1>6. v \in Seq(T) /\ Len(v) = Len(u)
  <2>1. v \in Seq(T) /\ Len(v) = b + (Len(u) - b)
    BY <1>3, <1>5, Concat
  <2>2. QED
    BY <1>4, <2>1
<1>7. ASSUME NEW i \in 1..Len(u) PROVE u[i] = v[i]
  <2>1. CASE i <= b
    BY <1>3, <1>4, <1>5, <2>1
  <2>2. CASE i > b
    <3>1. v[i] = z[i - b] /\ i - b \in 1..(Len(u) - b)
      BY <1>3, <1>4, <1>5, <2>2
    <3>2. QED
      BY <1>3, <1>4, <3>1
  <2>3. i <= b \/ i > b
    BY <1>4
  <2>4. QED
    BY <2>1, <2>2, <2>3, Zenon
<1> HIDE DEF v
<1>8. u = v
  BY <1>6, <1>7, SeqEqual
<1>9. QED
  BY <1>1, <1>2, <1>3, <1>8 DEF v, w, x, y, z

\* Stripping takes the program's characters from both ends, no character of the text.
LEMMA StripIs ==
  ASSUME NEW u \in Seq(Nat)
  PROVE  /\ Characters(Strip(u)) = Characters(u) /\ Strip(u) \in Seq(Nat)
         /\ Len(Strip(u)) <= Len(u)
         /\ \/ Strip(u) = <<>> /\ Characters(u) = <<>> /\ \A i \in DOMAIN u : u[i] = 0
            \/ \E a \in 1..Len(u) : \E b \in a..Len(u) :
                 /\ u[a] # 0 /\ u[b] # 0 /\ Strip(u) = SubSeq(u, a, b) /\ Strip(u) # <<>>
                 /\ \A i \in 1..Len(u) : u[i] # 0 => a <= i /\ i <= b
<1> DEFINE own == {i \in DOMAIN u : u[i] # 0}
<1>1. Len(u) \in Nat /\ DOMAIN u = 1..Len(u) /\ own \subseteq 1..Len(u)
  OBVIOUS
<1>2. CASE own = {}
  <2>1. Strip(u) = <<>>
    BY <1>2 DEF Strip
  <2>2. \A i \in DOMAIN u : u[i] = 0
    BY <1>2
  <2>3. Characters(u) = <<>>
    BY <2>2, CharactersOf
  <2>4. Characters(<<>>) = <<>> /\ Len(<<>>) = 0 /\ <<>> \in Seq(Nat)
    BY WhereEmpty DEF Characters
  <2>5. QED
    BY <1>1, <2>1, <2>2, <2>3, <2>4
<1>3. CASE own # {}
  <2> DEFINE a == Min(own)
             b == Max(own)
  <2>1. a \in own /\ \A i \in own : a <= i
    <3>1. own \in SUBSET Nat
      BY <1>1
    <3> HIDE DEF own
    <3>2. QED
      BY <1>3, <3>1, MinIs
  <2>2. b \in own /\ \A i \in own : i <= b
    <3>1. own \in SUBSET (0..Len(u)) /\ Len(u) \in Nat
      BY <1>1
    <3> HIDE DEF own
    <3>2. QED
      BY <1>3, <3>1, MaxIs
  <2>3. Strip(u) = SubSeq(u, a, b)
    BY <1>3 DEF Strip
  <2> HIDE DEF a, b
  <2>4. a \in 1..Len(u) /\ b \in 1..Len(u) /\ u[a] # 0 /\ u[b] # 0
    BY <1>1, <2>1, <2>2
  <2>5. a <= b
    BY <2>1, <2>2
  <2>6. \A i \in 1..Len(u) : u[i] # 0 => a <= i /\ i <= b
    BY <1>1, <2>1, <2>2
  <2> HIDE DEF own
  <2>7. b \in a..Len(u)
    BY <1>1, <2>4, <2>5
  <2> DEFINE x == SubSeq(u, 1, a - 1)
             y == SubSeq(u, a, b)
             z == SubSeq(u, b + 1, Len(u))
  <2>8. /\ x \in Seq(Nat) /\ y \in Seq(Nat) /\ z \in Seq(Nat) /\ u = (x \o y) \o z
        /\ Len(x) = a - 1 /\ Len(y) = b + 1 - a /\ Len(z) = Len(u) - b
        /\ \A i \in 1..(a - 1) : x[i] = u[i]
        /\ \A i \in 1..(Len(u) - b) : z[i] = u[b + i]
    <3>1. /\ x \in Seq(Nat) /\ y \in Seq(Nat) /\ z \in Seq(Nat)
          /\ Len(x) = a - 1 /\ Len(y) = b + 1 - a /\ Len(z) = Len(u) - b
          /\ \A i \in 1..(a - 1) : x[i] = u[i]
          /\ \A i \in 1..(Len(u) - b) : z[i] = u[b + i]
      BY <2>4, <2>7, ThreeParts
    <3>2. u = (x \o y) \o z
      BY <2>4, <2>7, ThreeParts
    <3>3. QED
      BY <3>1, <3>2
  <2> HIDE DEF x, y, z
  <2>9. Characters(x) = <<>>
    <3>1. ASSUME NEW i \in DOMAIN x PROVE x[i] = 0
      <4>1. i \in 1..(a - 1) /\ i \in 1..Len(u) /\ ~ (a <= i)
        <5>1. DOMAIN x = 1..(a - 1)
          BY <2>8
        <5>2. QED
          BY <1>1, <2>4, <5>1
      <4>2. QED
        BY <2>6, <2>8, <4>1
    <3>2. QED
      BY <2>8, <3>1, CharactersOf
  <2>10. Characters(z) = <<>>
    <3>1. ASSUME NEW i \in DOMAIN z PROVE z[i] = 0
      <4>1. i \in 1..(Len(u) - b) /\ b + i \in 1..Len(u) /\ ~ (b + i <= b)
        <5>1. DOMAIN z = 1..(Len(u) - b)
          BY <2>8
        <5>2. QED
          BY <1>1, <2>4, <5>1
      <4>2. QED
        BY <2>6, <2>8, <4>1
    <3>2. QED
      BY <2>8, <3>1, CharactersOf
  <2>11. Characters(u) = (Characters(x) \o Characters(y)) \o Characters(z)
    <3>1. x \o y \in Seq(Nat)
      BY <2>8
    <3>2. Characters((x \o y) \o z) = Characters(x \o y) \o Characters(z)
      BY <2>8, <3>1, CharactersOf
    <3>3. Characters(x \o y) = Characters(x) \o Characters(y)
      BY <2>8, CharactersOf
    <3>4. QED
      BY <2>8, <3>2, <3>3
  <2>12. Characters(y) \in Seq(Nat)
    BY <2>8, CharactersOf
  <2>13. Characters(u) = Characters(y)
    BY <2>9, <2>10, <2>11, <2>12
  <2>14. Strip(u) = y /\ y # <<>> /\ Len(y) <= Len(u)
    <3>1. Len(y) \in Nat \ {0} /\ Len(y) <= Len(u)
      BY <1>1, <2>4, <2>5, <2>8
    <3>2. y # <<>>
      BY <3>1
    <3>3. QED
      BY <2>3, <3>1, <3>2 DEF y
  <2>15. \E c \in 1..Len(u) : \E d \in c..Len(u) :
           /\ u[c] # 0 /\ u[d] # 0 /\ Strip(u) = SubSeq(u, c, d) /\ Strip(u) # <<>>
           /\ \A i \in 1..Len(u) : u[i] # 0 => c <= i /\ i <= d
    BY <2>3, <2>4, <2>6, <2>7, <2>14
  <2>16. QED
    BY <2>8, <2>13, <2>14, <2>15
<1>4. QED
  BY <1>2, <1>3

\* Tokens, from how many characters there are and how many are the text's own
Counted(own, all) == own + (all - own + 3) \div 4

LEMMA TokensAre ==
  ASSUME NEW u \in Seq(Nat)
  PROVE  Tokens(u) = Counted(Len(Characters(u)), Len(u)) /\ Tokens(u) \in Nat
<1>1. Len(Characters(u)) \in 0..Len(u) /\ Len(u) \in Nat
  BY CharactersOf
<1> DEFINE k == Len(Characters(u))
           n == Len(u)
<1>2. Tokens(u) = Counted(k, n)
  BY DEF Tokens, Counted
<1>3. k \in Nat /\ n \in Nat /\ k <= n
  BY <1>1
<1> HIDE DEF k, n
<1>4. Counted(k, n) \in Nat
  BY <1>3 DEF Counted
<1>5. QED
  BY <1>2, <1>4 DEF k, n

\* Fewer of the program's characters are no more tokens.
LEMMA CountedLess ==
  ASSUME NEW own \in Nat, NEW all \in Nat, NEW less \in Nat, own <= less, less <= all
  PROVE  Counted(own, less) <= Counted(own, all)
BY DEF Counted

\* A text of its own characters only is so many tokens.
LEMMA CountedOwn ==
  ASSUME NEW own \in Nat
  PROVE  Counted(own, own) = own
BY DEF Counted

\* Two characters of the program and one of the text are two tokens more at most.
LEMMA CountedMore ==
  ASSUME NEW own \in Nat, NEW all \in Nat, own <= all
  PROVE  Counted(own + 1, all + 3) <= Counted(own, all) + 2
BY DEF Counted

-----------------------------------------------------------------------------
(* Join *)

\* A text as a join has it: behind what is put in between, or not
Behind(texts, between, n) ==
  IF texts[n] = <<>> THEN <<>>
  ELSE IF \E m \in 1..(n - 1) : texts[m] # <<>> THEN between \o texts[n]
  ELSE texts[n]

\* A join flattens its texts, some behind what is put in between.
LEMMA JoinIs ==
  ASSUME NEW texts \in Seq(Seq(Nat)), NEW between \in Seq(Nat)
  PROVE  LET each == [n \in DOMAIN texts |-> Behind(texts, between, n)]
         IN  each \in Seq(Seq(Nat)) /\ Join(texts, between) = FlattenSeq(each) /\ Join(texts, between) \in Seq(Nat)
<1> DEFINE each == [n \in DOMAIN texts |-> Behind(texts, between, n)]
<1>1. ASSUME NEW n \in DOMAIN texts PROVE Behind(texts, between, n) \in Seq(Nat)
  <2>1. texts[n] \in Seq(Nat) /\ <<>> \in Seq(Nat)
    OBVIOUS
  <2>2. between \o texts[n] \in Seq(Nat)
    BY <2>1
  <2>3. QED
    BY <2>1, <2>2 DEF Behind
<1>2. each \in Seq(Seq(Nat))
  <2>1. DOMAIN texts = 1..Len(texts) /\ Len(texts) \in Nat
    OBVIOUS
  <2>2. QED
    BY <1>1, <2>1
<1>3. Join(texts, between) = FlattenSeq(each)
  BY DEF Join, Behind
<1> HIDE DEF each
<1>4. FlattenSeq(each) \in Seq(Nat)
  BY <1>2, FlattenType
<1>5. QED
  BY <1>2, <1>3, <1>4 DEF each

\* One text joined is itself.
LEMMA JoinOne ==
  ASSUME NEW a \in Seq(Nat), NEW between \in Seq(Nat)
  PROVE  Join(<<a>>, between) = a
<1> DEFINE texts == <<a>>
           each == [n \in DOMAIN texts |-> Behind(texts, between, n)]
<1>1. texts \in Seq(Seq(Nat)) /\ DOMAIN texts = {1} /\ texts[1] = a
  OBVIOUS
<1>2. Behind(texts, between, 1) = a
  BY <1>1 DEF Behind
<1>3. each = <<a>>
  <2> HIDE DEF texts
  <2>1. DOMAIN each = 1..1 /\ each[1] = a
    BY <1>1, <1>2
  <2>2. QED
    BY <1>1, <1>2
<1>4. Join(texts, between) = FlattenSeq(each)
  BY <1>1, JoinIs
<1>5. QED
  BY <1>3, <1>4, FlattenOne

\* Two are the one, the other, or both with what is put in between.
LEMMA JoinTwo ==
  ASSUME NEW a \in Seq(Nat), NEW b \in Seq(Nat), NEW between \in Seq(Nat)
  PROVE  Join(<<a, b>>, between) =
           IF a = <<>> THEN b ELSE IF b = <<>> THEN a ELSE a \o between \o b
<1> DEFINE texts == <<a, b>>
           each == [n \in DOMAIN texts |-> Behind(texts, between, n)]
           second == IF b = <<>> THEN <<>> ELSE IF a # <<>> THEN between \o b ELSE b
<1>1. /\ texts \in Seq(Seq(Nat)) /\ DOMAIN texts = 1..2 /\ texts[1] = a /\ texts[2] = b
      /\ 1..(1 - 1) = {} /\ 1..(2 - 1) = {1}
  OBVIOUS
<1>2. Behind(texts, between, 1) = a
  BY <1>1 DEF Behind
<1>3. Behind(texts, between, 2) = second
  BY <1>1 DEF Behind
<1>4. each = <<a, second>>
  <2> HIDE DEF texts, second
  <2>1. QED
    BY <1>1, <1>2, <1>3
<1>5. second \in Seq(Nat)
  OBVIOUS
<1>6. FlattenSeq(<<a, second>>) = a \o second
  BY <1>5, FlattenTwo
<1>7. Join(texts, between) = FlattenSeq(each)
  BY <1>1, JoinIs
<1>8. Join(texts, between) = a \o second
  BY <1>4, <1>6, <1>7
<1>9. CASE a = <<>>
  <2>1. second = b /\ <<>> \o b = b
    BY <1>9
  <2>2. QED
    BY <1>8, <1>9, <2>1
<1>10. CASE a # <<>> /\ b = <<>>
  <2>1. second = <<>> /\ a \o <<>> = a
    BY <1>10
  <2>2. QED
    BY <1>8, <1>10, <2>1
<1>11. CASE a # <<>> /\ b # <<>>
  <2>1. second = between \o b
    BY <1>11
  <2>2. a \o (between \o b) = (a \o between) \o b
    <3>1. \A x, y, z \in Seq(Nat) : (x \o y) \o z = x \o (y \o z)
      BY ConcatAssociative
    <3>2. QED
      BY <3>1, Zenon
  <2>3. QED
    BY <1>8, <1>11, <2>1, <2>2
<1>12. QED
  BY <1>9, <1>10, <1>11

\* The characters of a join are those of its texts, when what is put in between has none.
LEMMA JoinCharacters ==
  ASSUME NEW texts \in Seq(Seq(Nat)), NEW between \in Seq(Nat), Characters(between) = <<>>
  PROVE  Characters(Join(texts, between)) = Characters(FlattenSeq(texts))
<1> DEFINE each == [n \in DOMAIN texts |-> Behind(texts, between, n)]
<1>1. each \in Seq(Seq(Nat)) /\ Join(texts, between) = FlattenSeq(each)
  BY JoinIs
<1>2. DOMAIN each = DOMAIN texts
  OBVIOUS
<1>3. ASSUME NEW n \in DOMAIN texts PROVE Characters(each[n]) = Characters(texts[n])
  <2>1. texts[n] \in Seq(Nat) /\ each[n] = Behind(texts, between, n)
    OBVIOUS
  <2>2. Characters(between \o texts[n]) = Characters(texts[n])
    <3>1. Characters(texts[n]) \in Seq(Nat)
      BY <2>1, CharactersOf
    <3>2. Characters(between \o texts[n]) = Characters(between) \o Characters(texts[n])
      BY <2>1, CharactersOf
    <3>3. QED
      BY <3>1, <3>2
  <2>3. QED
    BY <2>1, <2>2 DEF Behind
<1> HIDE DEF each
<1>4. [n \in DOMAIN each |-> Where(each[n], Nat \ {0})] = [n \in DOMAIN texts |-> Where(texts[n], Nat \ {0})]
  BY <1>2, <1>3 DEF Characters
<1>5. /\ Where(FlattenSeq(each), Nat \ {0}) = FlattenSeq([n \in DOMAIN each |-> Where(each[n], Nat \ {0})])
      /\ Where(FlattenSeq(texts), Nat \ {0}) = FlattenSeq([n \in DOMAIN texts |-> Where(texts[n], Nat \ {0})])
  <2>1. \A S : Where(FlattenSeq(each), S) = FlattenSeq([n \in DOMAIN each |-> Where(each[n], S)])
    BY <1>1, WhereFlatten
  <2>2. \A S : Where(FlattenSeq(texts), S) = FlattenSeq([n \in DOMAIN texts |-> Where(texts[n], S)])
    BY WhereFlatten
  <2>3. QED
    BY <2>1, <2>2
<1>6. QED
  BY <1>1, <1>4, <1>5 DEF Characters

-----------------------------------------------------------------------------
(* Lines of a document *)

\* A document is loaded, with a budget.
Loaded ==
  /\ call.size \in Nat \ {0} /\ Len(call.text) \in Nat /\ DOMAIN call.text = 1..Len(call.text)
  /\ \A l \in DOMAIN call.text : Length[call.text[l]] \in Nat

\* A line has its own characters only.
LEMMA LineType ==
  ASSUME Loaded, NEW l \in DOMAIN call.text
  PROVE  /\ Line(l) \in Seq(Nat) /\ Len(Line(l)) = Length[call.text[l]] /\ Len(Line(l)) \in Nat
         /\ \A i \in DOMAIN Line(l) : Line(l)[i] = l
         /\ l \in Nat \ {0} /\ Characters(Line(l)) = Line(l)
<1>1. l \in Nat \ {0} /\ Length[call.text[l]] \in Nat
  BY DEF Loaded
<1>2. Line(l) \in Seq(Nat) /\ Len(Line(l)) = Length[call.text[l]] /\ \A i \in DOMAIN Line(l) : Line(l)[i] = l
  BY <1>1 DEF Line
<1>3. QED
  BY <1>1, <1>2, CharactersOf

LEMMA LinesType ==
  ASSUME Loaded, NEW ls \in Seq(DOMAIN call.text)
  PROVE  Lines(ls) \in Seq(Seq(Nat)) /\ DOMAIN Lines(ls) = DOMAIN ls
<1>1. DOMAIN ls = 1..Len(ls) /\ Len(ls) \in Nat
  OBVIOUS
<1>2. ASSUME NEW n \in DOMAIN ls PROVE Line(ls[n]) \in Seq(Nat)
  <2>1. ls[n] \in DOMAIN call.text
    OBVIOUS
  <2>2. QED
    BY <2>1, LineType
<1>3. QED
  BY <1>1, <1>2 DEF Lines

\* What the program puts in between is its own.
LEMMA Separators ==
  /\ NL \in Seq(Nat) /\ Gap \in Seq(Nat) /\ <<0, 0, 0>> \in Seq(Nat)
  /\ Len(NL) = 1 /\ Len(Gap) = 2 /\ NL[1] = 0
  /\ Characters(NL) = <<>> /\ Characters(Gap) = <<>> /\ Tokens(Gap) = 1
<1>1. /\ NL \in Seq(Nat) /\ Gap \in Seq(Nat) /\ <<0, 0, 0>> \in Seq(Nat)
      /\ Len(NL) = 1 /\ Len(Gap) = 2 /\ NL[1] = 0
      /\ \A i \in DOMAIN NL : NL[i] = 0
      /\ \A i \in DOMAIN Gap : Gap[i] = 0
  BY DEF NL, Gap
<1>2. Characters(NL) = <<>> /\ Characters(Gap) = <<>>
  BY <1>1, CharactersOf
<1>3. Tokens(Gap) = Counted(0, 2)
  BY <1>1, <1>2, TokensAre
<1>4. Counted(0, 2) = 1
  BY DEF Counted
<1>5. QED
  BY <1>1, <1>2, <1>3, <1>4

\* The end of a sequence
LEMMA EndIs ==
  ASSUME NEW T, NEW s \in Seq(T), NEW k \in DOMAIN s
  PROVE  SubSeq(s, k, Len(s)) \in Seq(T) /\ (k = Len(s) => SubSeq(s, k, k) = <<s[k]>>)
<1>1. Len(s) \in Nat /\ k \in 1..Len(s) /\ k \in Int /\ Len(s) \in Int
  OBVIOUS
<1>2. \A i \in k..Len(s) : s[i] \in T
  BY <1>1
<1>3. SubSeq(s, k, Len(s)) \in Seq(T)
  BY <1>1, <1>2, SubSeqProperties
<1>4. SubSeq(s, k, k) \in Seq(T) /\ Len(SubSeq(s, k, k)) = 1 /\ SubSeq(s, k, k)[1] = s[k]
  BY <1>1
<1>5. SubSeq(s, k, k) = <<s[k]>>
  <2>1. <<s[k]>> \in Seq(T) /\ Len(<<s[k]>>) = 1
    OBVIOUS
  <2>2. \A i \in 1..1 : SubSeq(s, k, k)[i] = <<s[k]>>[i]
    BY <1>4
  <2>3. QED
    BY <1>4, <2>1, <2>2, SeqEqual
<1>6. QED
  BY <1>3, <1>5

\* The heading of a chunk leaves room for its separator and a character.
LEMMA HeadingFits ==
  ASSUME Loaded, NEW path \in Seq(DOMAIN call.text)
  PROVE  LET h == FitHeadingPath(path, call.size)
         IN  h \in Seq(Nat) /\ (h = <<>> \/ Tokens(h) <= call.size - 2)
<1> DEFINE size == call.size
           available == size - Tokens(Gap) - 1
           fitting == {k \in DOMAIN path : Tokens(Prefix(SubSeq(path, k, Len(path)))) <= available}
           h == FitHeadingPath(path, size)
<1>1. size \in Nat \ {0} /\ available = size - 2 /\ Tokens(Gap) + 2 = 3
  BY Separators DEF Loaded
<1>2. path \in Seq(DOMAIN call.text) /\ Len(path) \in Nat /\ DOMAIN path = 1..Len(path)
  OBVIOUS
<1>3. ASSUME NEW k \in DOMAIN path PROVE Prefix(SubSeq(path, k, Len(path))) \in Seq(Nat)
  <2>1. SubSeq(path, k, Len(path)) \in Seq(DOMAIN call.text)
    BY <1>2, EndIs
  <2>2. Lines(SubSeq(path, k, Len(path))) \in Seq(Seq(Nat))
    BY <2>1, LinesType
  <2>3. QED
    BY <2>2, Separators, JoinIs DEF Prefix
<1>4. CASE path = <<>> \/ size < 3
  <2>1. h = <<>>
    BY <1>1, <1>4 DEF FitHeadingPath
  <2>2. QED
    BY <2>1
<1>5. CASE path # <<>> /\ size >= 3 /\ fitting # {}
  <2>1. h = Prefix(SubSeq(path, Min(fitting), Len(path)))
    BY <1>1, <1>5 DEF FitHeadingPath
  <2>2. Min(fitting) \in fitting
    <3>1. fitting \in SUBSET Nat
      BY <1>2
    <3> HIDE DEF fitting
    <3>2. QED
      BY <1>5, <3>1, MinIs
  <2>3. Min(fitting) \in DOMAIN path /\ Tokens(h) <= available
    BY <2>1, <2>2
  <2>4. h \in Seq(Nat)
    BY <1>3, <2>1, <2>3
  <2>5. QED
    BY <1>1, <2>3, <2>4
<1>6. CASE path # <<>> /\ size >= 3 /\ fitting = {}
  <2> DEFINE last == Line(Last(path))
             n == Len(path)
  <2>1. h = SubSeq(last, Len(last) - available + 1, Len(last))
    <3>1. ~ (path = <<>> \/ size < Tokens(Gap) + 2)
      BY <1>1, <1>6
    <3>2. ~ (path # <<>> /\ size >= Tokens(Gap) + 2 /\ fitting # {})
      BY <1>6
    <3>3. QED
      BY <3>1, <3>2 DEF FitHeadingPath
  <2>2. n \in DOMAIN path /\ Last(path) = path[n] /\ path[n] \in DOMAIN call.text
    BY <1>2, <1>6 DEF Last
  <2>3. last \in Seq(Nat) /\ Len(last) \in Nat /\ Characters(last) = last
    BY <2>2, LineType
  <2>4. Prefix(SubSeq(path, n, n)) = last
    <3>1. SubSeq(path, n, n) = <<path[n]>>
      BY <1>2, <2>2, EndIs
    <3>2. Lines(<<path[n]>>) = <<last>>
      BY <2>2 DEF Lines
    <3> HIDE DEF last
    <3>3. Join(<<last>>, <<0, 0, 0>>) = last
      BY <2>3, Separators, JoinOne
    <3>4. QED
      BY <3>1, <3>2, <3>3 DEF Prefix
  <2>5. ~ (Tokens(last) <= available)
    BY <1>6, <2>2, <2>4
  <2>6. Tokens(last) = Len(last)
    BY <2>3, TokensAre, CountedOwn
  <2> HIDE DEF last, n
  <2>7. Len(last) > available
    BY <1>1, <2>3, <2>5, <2>6
  <2>8. /\ h \in Seq(Nat) /\ Len(h) = available
        /\ \A i \in 1..available : h[i] = last[Len(last) - available + i]
    <3> DEFINE m == Len(last)
               tail == SubSeq(last, m - available + 1, m)
    <3>1. available \in Nat /\ m \in Nat /\ m > available /\ h = tail
      BY <1>1, <1>6, <2>1, <2>3, <2>7
    <3> HIDE DEF available
    <3>2. /\ tail \in Seq(Nat) /\ Len(tail) = available
          /\ \A i \in 1..available : tail[i] = last[m - available + i]
      BY <2>3, <3>1
    <3>3. QED
      BY <3>1, <3>2
  <2>9. ASSUME NEW i \in DOMAIN h PROVE h[i] # 0
    <3>1. i \in 1..available /\ Len(last) - available + i \in DOMAIN last
      <4>1. DOMAIN h = 1..available /\ DOMAIN last = 1..Len(last) /\ available \in Nat
        BY <1>1, <1>6, <2>3, <2>8
      <4> HIDE DEF available, h
      <4>2. QED
        BY <2>3, <2>7, <4>1
    <3>2. \A j \in DOMAIN last : last[j] # 0
      BY <2>2, LineType DEF last
    <3>3. QED
      BY <2>8, <3>1, <3>2
  <2>10. Tokens(h) = available
    <3>1. Characters(h) = h
      BY <2>8, <2>9, CharactersOf
    <3>2. QED
      BY <1>1, <1>6, <2>8, <3>1, TokensAre, CountedOwn
  <2>11. QED
    BY <1>1, <2>8, <2>10
<1>7. size < 3 \/ size >= 3
  BY <1>1
<1>8. QED
  BY <1>4, <1>5, <1>6, <1>7

-----------------------------------------------------------------------------
(* What a piece measures *)

\* Two texts in a row
LEMMA ConcatTexts ==
  ASSUME NEW u \in Seq(Nat), NEW v \in Seq(Nat)
  PROVE  /\ u \o v \in Seq(Nat) /\ Len(u \o v) = Len(u) + Len(v)
         /\ Len(u) \in Nat /\ Len(v) \in Nat
         /\ \A i \in 1..Len(u) : (u \o v)[i] = u[i]
         /\ \A j \in 1..Len(v) : (u \o v)[Len(u) + j] = v[j]
OBVIOUS

\* The text of a piece below its header, and below the heading of its chunk
Below(header, t) == Strip(Join(<<header, t>>, NL))
Shown(header, heading, t) == Join(<<heading, Below(header, t)>>, Gap)

LEMMA BelowType ==
  ASSUME NEW header \in Seq(Nat), NEW t \in Seq(Nat)
  PROVE  /\ Below(header, t) \in Seq(Nat) /\ Join(<<header, t>>, NL) \in Seq(Nat)
         /\ Characters(Below(header, t)) = Characters(header) \o Characters(t)
<1>1. /\ Join(<<header, t>>, NL) \in Seq(Nat)
      /\ Characters(Join(<<header, t>>, NL)) = Characters(header) \o Characters(t)
  <2> DEFINE texts == <<header, t>>
  <2>1. texts \in Seq(Seq(Nat)) /\ FlattenSeq(texts) = header \o t
    BY FlattenTwo
  <2> HIDE DEF texts
  <2>2. Join(texts, NL) \in Seq(Nat)
    BY <2>1, Separators, JoinIs
  <2>3. Characters(Join(texts, NL)) = Characters(FlattenSeq(texts))
    BY <2>1, Separators, JoinCharacters
  <2>4. Characters(header \o t) = Characters(header) \o Characters(t)
    BY CharactersOf
  <2>5. QED
    BY <2>1, <2>2, <2>3, <2>4 DEF texts
<1>2. QED
  BY <1>1, StripIs DEF Below

\* A chunk of one piece is rendered as this.
LEMMA WithinIs ==
  ASSUME NEW header \in Seq(Nat), NEW heading \in Seq(Nat), NEW t \in Seq(Nat)
  PROVE  /\ Within(t, Rendered(header, heading)) <=> Tokens(Shown(header, heading, t)) <= call.size
         /\ Render(<<Join(<<header, t>>, NL)>>, heading) = Shown(header, heading, t)
<1> DEFINE body == Join(<<header, t>>, NL)
           bodies == <<body>>
<1>1. body \in Seq(Nat) /\ Strip(body) \in Seq(Nat)
  BY BelowType DEF Below
<1>2. [n \in DOMAIN bodies |-> Strip(bodies[n])] = <<Strip(body)>>
  <2> HIDE DEF body
  <2>1. QED
    OBVIOUS
<1>3. Join(<<Strip(body)>>, Gap) = Strip(body)
  BY <1>1, Separators, JoinOne
<1>4. Render(bodies, heading) = Join(<<heading, Strip(body)>>, Gap)
  BY <1>2, <1>3 DEF Render
<1>5. Render(bodies, heading) = Shown(header, heading, t)
  BY <1>4 DEF Shown, Below
<1>6. Within(t, Rendered(header, heading)) <=> Tokens(Render(bodies, heading)) <= call.size
  BY DEF Within, Rendered
<1>7. QED
  BY <1>5, <1>6

\* A text below a heading is as long as both and the gap.
LEMMA GapCount ==
  ASSUME NEW heading \in Seq(Nat), NEW x \in Seq(Nat), x # <<>>
  PROVE  LET y == Join(<<heading, x>>, Gap)
         IN  /\ y \in Seq(Nat)
             /\ heading = <<>> => y = x
             /\ heading # <<>> => /\ Len(y) = Len(heading) + 2 + Len(x)
                                  /\ Len(Characters(y)) = Len(Characters(heading)) + Len(Characters(x))
<1> DEFINE y == Join(<<heading, x>>, Gap)
<1>1. Gap \in Seq(Nat) /\ Len(Gap) = 2 /\ Characters(Gap) = <<>>
  BY Separators
<1>2. y = IF heading = <<>> THEN x ELSE heading \o Gap \o x
  BY <1>1, JoinTwo
<1>3. heading \o Gap \in Seq(Nat) /\ Len(heading \o Gap) = Len(heading) + 2
  <2>1. heading \o Gap \in Seq(Nat) /\ Len(heading \o Gap) = Len(heading) + Len(Gap)
    BY <1>1, ConcatTexts
  <2>2. QED
    BY <1>1, <2>1
<1>4. heading \o Gap \o x \in Seq(Nat) /\ Len(heading \o Gap \o x) = Len(heading) + 2 + Len(x)
  <2>1. /\ heading \o Gap \o x \in Seq(Nat)
        /\ Len(heading \o Gap \o x) = Len(heading \o Gap) + Len(x)
    BY <1>3, ConcatTexts
  <2>2. QED
    BY <1>3, <2>1
<1>5. Len(Characters(heading \o Gap \o x)) = Len(Characters(heading)) + Len(Characters(x))
  <2>1. Characters(heading \o Gap) = Characters(heading) \o Characters(Gap)
    BY <1>1, CharactersOf
  <2>2. Characters((heading \o Gap) \o x) = Characters(heading \o Gap) \o Characters(x)
    BY <1>3, CharactersOf
  <2>3. Characters(heading) \in Seq(Nat) /\ Characters(x) \in Seq(Nat)
    BY CharactersOf
  <2>4. Characters(heading \o Gap) = Characters(heading)
    BY <1>1, <2>1, <2>3
  <2>5. QED
    BY <2>2, <2>3, <2>4, ConcatTexts
<1> HIDE DEF y
<1>6. QED
  BY <1>2, <1>4, <1>5 DEF y

\* Of two texts with as many characters of their own, the shorter is no more tokens.
LEMMA ShorterFits ==
  ASSUME NEW heading \in Seq(Nat), NEW x \in Seq(Nat), NEW y \in Seq(Nat), x # <<>>, y # <<>>,
         Len(Characters(x)) = Len(Characters(y)), Len(x) <= Len(y)
  PROVE  Tokens(Join(<<heading, x>>, Gap)) <= Tokens(Join(<<heading, y>>, Gap))
<1> DEFINE p == Join(<<heading, x>>, Gap)
           q == Join(<<heading, y>>, Gap)
<1>1. /\ p \in Seq(Nat) /\ q \in Seq(Nat)
      /\ Len(Characters(p)) = Len(Characters(q)) /\ Len(p) <= Len(q)
  <2>1. CASE heading = <<>>
    <3>1. p = x /\ q = y
      BY <2>1, GapCount
    <3> HIDE DEF p, q
    <3>2. QED
      BY <3>1
  <2>2. CASE heading # <<>>
    <3>1. /\ p \in Seq(Nat) /\ Len(p) = Len(heading) + 2 + Len(x)
          /\ Len(Characters(p)) = Len(Characters(heading)) + Len(Characters(x))
      BY <2>2, GapCount
    <3>2. /\ q \in Seq(Nat) /\ Len(q) = Len(heading) + 2 + Len(y)
          /\ Len(Characters(q)) = Len(Characters(heading)) + Len(Characters(y))
      BY <2>2, GapCount
    <3>3. Len(x) \in Nat /\ Len(y) \in Nat /\ Len(heading) \in Nat
      OBVIOUS
    <3> HIDE DEF p, q
    <3>4. QED
      BY <3>1, <3>2, <3>3
  <2>3. QED
    BY <2>1, <2>2
<1> HIDE DEF p, q
<1>2. /\ Tokens(p) = Counted(Len(Characters(p)), Len(p)) /\ Len(Characters(p)) \in 0..Len(p)
      /\ Tokens(q) = Counted(Len(Characters(q)), Len(q)) /\ Len(p) \in Nat /\ Len(q) \in Nat
  <2>1. Tokens(p) = Counted(Len(Characters(p)), Len(p)) /\ Tokens(q) = Counted(Len(Characters(q)), Len(q))
    BY <1>1, TokensAre
  <2>2. Len(Characters(p)) \in 0..Len(p) /\ Len(p) \in Nat /\ Len(q) \in Nat
    <3>1. Len(Characters(p)) \in 0..Len(p)
      BY <1>1, CharactersOf
    <3>2. QED
      BY <1>1, <3>1
  <2>3. QED
    BY <2>1, <2>2
<1> DEFINE k == Len(Characters(p))
           n == Len(p)
           m == Len(q)
<1>3. k \in Nat /\ n \in Nat /\ m \in Nat /\ k <= n /\ n <= m /\ Tokens(p) = Counted(k, n) /\ Tokens(q) = Counted(k, m)
  BY <1>1, <1>2
<1> HIDE DEF k, n, m
<1>4. Counted(k, n) <= Counted(k, m)
  BY <1>3, CountedLess
<1>5. QED
  BY <1>3, <1>4 DEF p, q

\* A header has its own characters only.
IsHeader(header) == header \in Seq(Nat) /\ \A i \in DOMAIN header : header[i] # 0

\* What is below a header that is not empty ends where the text's own characters do.
LEMMA BelowEnds ==
  ASSUME NEW header, IsHeader(header), header # <<>>, NEW t \in Seq(Nat),
         NEW b \in 1..Len(t), t[b] # 0
  PROVE  Len(header) + 1 + b <= Len(Below(header, t)) /\ Len(Below(header, t)) <= Len(header) + 1 + Len(t)
<1> DEFINE w == header \o NL \o t
           n == Len(header)
<1>1. header \in Seq(Nat) /\ n \in Nat \ {0} /\ header[1] # 0 /\ t # <<>> /\ Len(t) \in Nat
      /\ \A i \in DOMAIN header : header[i] # 0
  BY DEF IsHeader
<1>2. Join(<<header, t>>, NL) = w
  BY <1>1, Separators, JoinTwo
<1> DEFINE v == header \o NL
<1>3. v \in Seq(Nat) /\ Len(v) = n + 1 /\ v[1] = header[1]
  <2>1. v \in Seq(Nat) /\ Len(v) = Len(header) + Len(NL) /\ \A i \in 1..Len(header) : v[i] = header[i]
    BY <1>1, Separators, ConcatTexts
  <2>2. Len(NL) = 1 /\ 1 \in 1..Len(header)
    BY <1>1, Separators
  <2> HIDE DEF v
  <2>3. QED
    BY <2>1, <2>2
<1>4. w \in Seq(Nat) /\ Len(w) = n + 1 + Len(t) /\ w[1] # 0 /\ w[n + 1 + b] # 0
  <2> HIDE DEF n
  <2>1. v \in Seq(Nat) /\ Len(v) = n + 1 /\ v[1] # 0 /\ w = v \o t
    BY <1>1, <1>3
  <2> HIDE DEF v, w
  <2>2. w \in Seq(Nat) /\ Len(w) = n + 1 + Len(t)
    <3>1. v \o t \in Seq(Nat) /\ Len(v \o t) = Len(v) + Len(t)
      BY <2>1, ConcatTexts
    <3>2. QED
      BY <2>1, <3>1
  <2>3. w[1] = v[1]
    BY <1>1, <2>1, ConcatTexts
  <2>4. w[n + 1 + b] = t[b]
    BY <1>1, <2>1, ConcatTexts
  <2>5. QED
    BY <2>1, <2>2, <2>3, <2>4
<1> HIDE DEF w, n
<1>5. Characters(w) # <<>>
  <2>1. 1 \in DOMAIN w
    BY <1>1, <1>4
  <2>2. QED
    BY <1>4, <2>1, CharactersOf
<1>6. PICK c \in 1..Len(w) : \E d \in c..Len(w) :
        /\ Strip(w) = SubSeq(w, c, d)
        /\ \A i \in 1..Len(w) : w[i] # 0 => c <= i /\ i <= d
  BY <1>4, <1>5, StripIs
<1>7. PICK d \in c..Len(w) :
        /\ Strip(w) = SubSeq(w, c, d)
        /\ \A i \in 1..Len(w) : w[i] # 0 => c <= i /\ i <= d
  BY <1>6
<1>8. 1 \in 1..Len(w) /\ n + 1 + b \in 1..Len(w)
  BY <1>1, <1>4
<1>9. c <= 1 /\ n + 1 + b <= d
  BY <1>4, <1>7, <1>8
<1>10. Len(Strip(w)) = d + 1 - c
  BY <1>4, <1>7, ThreeParts
<1>11. Len(Strip(w)) >= n + 1 + b
  BY <1>1, <1>4, <1>9, <1>10
<1>12. Len(Strip(w)) <= Len(w)
  BY <1>4, StripIs
<1>13. Below(header, t) = Strip(w)
  BY <1>2 DEF Below
<1>14. QED
  BY <1>4, <1>11, <1>12, <1>13 DEF n

\* Stripping a text that fits leaves one that fits.
LEMMA StripWithin ==
  ASSUME NEW header, IsHeader(header), NEW heading \in Seq(Nat), NEW t \in Seq(Nat), Strip(t) # <<>>,
         call.size \in Nat, Within(t, Rendered(header, heading))
  PROVE  Within(Strip(t), Rendered(header, heading))
<1> DEFINE v == Strip(t)
           x == Below(header, v)
           y == Below(header, t)
<1>0. PICK a \in 1..Len(t) : \E b \in a..Len(t) :
        t[a] # 0 /\ t[b] # 0 /\ v = SubSeq(t, a, b)
  BY StripIs
<1>1. PICK b \in a..Len(t) : t[a] # 0 /\ t[b] # 0 /\ v = SubSeq(t, a, b)
  BY <1>0
<1>2. header \in Seq(Nat) /\ v \in Seq(Nat) /\ Characters(v) = Characters(t)
  BY StripIs DEF IsHeader
<1>3. x \in Seq(Nat) /\ y \in Seq(Nat) /\ Characters(x) = Characters(y)
  <2>1. x \in Seq(Nat) /\ Characters(x) = Characters(header) \o Characters(v)
    BY <1>2, BelowType
  <2>2. y \in Seq(Nat) /\ Characters(y) = Characters(header) \o Characters(t)
    BY <1>2, BelowType
  <2>3. QED
    BY <1>2, <2>1, <2>2
<1>4. Len(t) \in Nat /\ a \in Nat /\ b \in Nat /\ 1 <= a /\ a <= b /\ b <= Len(t) /\ b \in DOMAIN t
  OBVIOUS
<1>5. Len(v) = b + 1 - a /\ v[Len(v)] # 0
  <2>1. /\ Len(SubSeq(t, a, b)) = b + 1 - a
        /\ \A i \in 1..(b + 1 - a) : SubSeq(t, a, b)[i] = t[a - 1 + i]
    BY ThreeParts
  <2>2. Len(v) = b + 1 - a /\ v[b + 1 - a] = t[a - 1 + (b + 1 - a)]
    BY <1>1, <1>4, <2>1
  <2>3. a - 1 + (b + 1 - a) = b
    BY <1>4
  <2>4. QED
    BY <1>1, <2>2, <2>3
<1>6. x # <<>> /\ y # <<>>
  <2>1. Characters(t) # <<>>
    BY <1>1, <1>4, CharactersOf
  <2>2. Characters(y) = Characters(header) \o Characters(t)
    BY <1>2, BelowType
  <2>3. Characters(header) \in Seq(Nat) /\ Characters(t) \in Seq(Nat)
    BY <1>2, CharactersOf
  <2>4. Characters(y) # <<>>
    BY <2>1, <2>2, <2>3
  <2>5. Characters(<<>>) = <<>>
    BY WhereEmpty DEF Characters
  <2> HIDE DEF x, y
  <2>6. QED
    BY <1>3, <2>4, <2>5
<1>7. Len(x) <= Len(y)
  <2>1. CASE header = <<>>
    <3>1. Join(<<header, v>>, NL) = v /\ Join(<<header, t>>, NL) = t
      BY <1>2, <2>1, Separators, JoinTwo
    <3>2. x = Strip(v) /\ y = v
      BY <3>1 DEF Below
    <3>3. Len(Strip(v)) <= Len(v)
      BY <1>2, StripIs
    <3>4. QED
      BY <3>2, <3>3
  <2>2. CASE header # <<>>
    <3>1. Len(v) \in 1..Len(v)
      BY <1>4, <1>5
    <3>2. Len(x) <= Len(header) + 1 + Len(v)
      BY <1>2, <1>5, <2>2, <3>1, BelowEnds
    <3>3. Len(header) + 1 + b <= Len(y)
      <4>1. b \in 1..Len(t)
        BY <1>4
      <4>2. QED
        BY <1>1, <2>2, <4>1, BelowEnds
    <3>4. Len(header) \in Nat /\ Len(x) \in Nat /\ Len(y) \in Nat
      BY <1>2, <1>3
    <3> HIDE DEF x, y, v
    <3>5. QED
      BY <1>4, <1>5, <3>2, <3>3, <3>4
  <2>3. QED
    BY <2>1, <2>2
<1> HIDE DEF x, y, v
<1>8. Tokens(Join(<<heading, x>>, Gap)) <= Tokens(Join(<<heading, y>>, Gap))
  BY <1>3, <1>6, <1>7, ShorterFits
<1>9. Tokens(Shown(header, heading, t)) <= call.size
  BY <1>2, WithinIs
<1>10. Tokens(Shown(header, heading, v)) <= Tokens(Shown(header, heading, t))
  BY <1>8 DEF x, y, Shown
<1>11. Tokens(Shown(header, heading, v)) \in Nat /\ Tokens(Shown(header, heading, t)) \in Nat
  <2>1. Shown(header, heading, v) \in Seq(Nat) /\ Shown(header, heading, t) \in Seq(Nat)
    BY <1>3, <1>6, GapCount DEF Shown, x, y
  <2>2. QED
    BY <2>1, TokensAre
<1>12. Tokens(Shown(header, heading, v)) <= call.size
  BY <1>9, <1>10, <1>11
<1>13. QED
  BY <1>2, <1>12, WithinIs DEF v

-----------------------------------------------------------------------------
(* One character *)

\* A character of the text below a header, by itself
LEMMA CharacterBelow ==
  ASSUME NEW header, IsHeader(header), NEW c \in Nat \ {0}
  PROVE  LET x == Below(header, <<c>>)
         IN  /\ x \in Seq(Nat) /\ x # <<>> /\ Len(Characters(x)) = Len(header) + 1
             /\ Len(x) = IF header = <<>> THEN 1 ELSE Len(header) + 2
<1> DEFINE t == <<c>>
           x == Below(header, t)
<1>1. /\ t \in Seq(Nat) /\ Len(t) = 1 /\ 1 \in 1..Len(t) /\ t[1] # 0 /\ t # <<>>
      /\ \A i \in DOMAIN t : t[i] # 0
  OBVIOUS
<1>2. header \in Seq(Nat) /\ Len(header) \in Nat /\ Characters(header) = header
  BY CharactersOf DEF IsHeader
<1> HIDE DEF t
<1>3. Characters(t) = t
  BY <1>1, CharactersOf
<1>4. x \in Seq(Nat) /\ Characters(x) = header \o t
  BY <1>1, <1>2, <1>3, BelowType
<1>5. Len(Characters(x)) = Len(header) + 1
  BY <1>1, <1>2, <1>4, ConcatTexts
<1>6. x # <<>>
  <2>1. Characters(<<>>) = <<>> /\ Len(<<>>) = 0
    BY WhereEmpty DEF Characters
  <2> HIDE DEF x
  <2>2. QED
    BY <1>2, <1>5, <2>1
<1>7. CASE header = <<>>
  <2>1. Join(<<header, t>>, NL) = t
    BY <1>1, <1>2, <1>7, Separators, JoinTwo
  <2>2. Len(Strip(t)) <= 1
    BY <1>1, StripIs
  <2>3. Len(x) <= 1
    BY <2>1, <2>2 DEF Below
  <2>4. Len(Characters(x)) <= Len(x) /\ Len(Characters(x)) = 1 /\ Len(x) \in Nat
    <3>1. Len(Characters(x)) \in 0..Len(x)
      BY <1>4, CharactersOf
    <3>2. Len(header) = 0
      BY <1>7
    <3> HIDE DEF x
    <3>3. QED
      BY <1>4, <1>5, <3>1, <3>2
  <2> HIDE DEF x
  <2>5. QED
    BY <1>4, <1>5, <1>6, <1>7, <2>3, <2>4 DEF t, x
<1>8. CASE header # <<>>
  <2>1. Len(header) + 1 + 1 <= Len(x) /\ Len(x) <= Len(header) + 1 + 1
    BY <1>1, <1>8, BelowEnds
  <2> HIDE DEF x
  <2>2. Len(x) = Len(header) + 2
    BY <1>2, <1>4, <2>1
  <2>3. QED
    BY <1>4, <1>5, <1>6, <1>8, <2>2 DEF t, x
<1>9. QED
  BY <1>7, <1>8

\* Which character it is makes no difference to what fits.
LEMMA OneCharacter ==
  ASSUME NEW header, IsHeader(header), NEW heading \in Seq(Nat), NEW c \in Nat \ {0},
         call.size \in Nat, Within(<< 1 >>, Rendered(header, heading))
  PROVE  Within(<<c>>, Rendered(header, heading))
<1> DEFINE x == Below(header, <<c>>)
           y == Below(header, <<1>>)
<1>1. /\ x \in Seq(Nat) /\ x # <<>> /\ Len(Characters(x)) = Len(header) + 1
      /\ Len(x) = IF header = <<>> THEN 1 ELSE Len(header) + 2
  BY CharacterBelow
<1>2. /\ y \in Seq(Nat) /\ y # <<>> /\ Len(Characters(y)) = Len(header) + 1
      /\ Len(y) = IF header = <<>> THEN 1 ELSE Len(header) + 2
  <2>1. 1 \in Nat \ {0}
    OBVIOUS
  <2>2. QED
    BY <2>1, CharacterBelow
<1>3. header \in Seq(Nat) /\ <<c>> \in Seq(Nat) /\ <<1>> \in Seq(Nat)
  BY DEF IsHeader
<1> HIDE DEF x, y
<1>4. Len(Characters(x)) = Len(Characters(y)) /\ Len(x) <= Len(y)
  BY <1>1, <1>2
<1>5. Tokens(Join(<<heading, x>>, Gap)) <= Tokens(Join(<<heading, y>>, Gap))
  BY <1>1, <1>2, <1>4, ShorterFits
<1>6. Tokens(Join(<<heading, x>>, Gap)) \in Nat /\ Tokens(Join(<<heading, y>>, Gap)) \in Nat
  <2>1. Join(<<heading, x>>, Gap) \in Seq(Nat)
    BY <1>1, GapCount
  <2>2. Join(<<heading, y>>, Gap) \in Seq(Nat)
    BY <1>2, GapCount
  <2>3. QED
    BY <2>1, <2>2, TokensAre
<1>7. Tokens(Join(<<heading, y>>, Gap)) <= call.size
  BY <1>3, WithinIs DEF Shown, y
<1>8. Tokens(Join(<<heading, x>>, Gap)) <= call.size
  BY <1>5, <1>6, <1>7
<1>9. QED
  BY <1>3, <1>8, WithinIs DEF Shown, x

\* Without a header, a heading leaves room for a character.
LEMMA RoomForCharacter ==
  ASSUME NEW heading \in Seq(Nat), NEW c \in Nat \ {0}, call.size \in Nat \ {0},
         heading = <<>> \/ Tokens(heading) <= call.size - 2
  PROVE  Within(<<c>>, Rendered(<<>>, heading))
<1> DEFINE x == Below(<<>>, <<c>>)
           y == Join(<<heading, x>>, Gap)
<1>1. IsHeader(<<>>) /\ <<>> \in Seq(Nat) /\ Len(<<>>) = 0 /\ <<c>> \in Seq(Nat)
  BY DEF IsHeader
<1>2. x \in Seq(Nat) /\ x # <<>> /\ Len(Characters(x)) = 1 /\ Len(x) = 1
  BY <1>1, CharacterBelow
<1> HIDE DEF x
<1>3. CASE heading = <<>>
  <2>1. y = x
    BY <1>2, <1>3, GapCount
  <2>2. Tokens(x) = 1
    BY <1>2, TokensAre, CountedOwn
  <2>3. Tokens(Shown(<<>>, heading, <<c>>)) <= call.size
    <3>1. Shown(<<>>, heading, <<c>>) = y
      BY DEF Shown, x
    <3> HIDE DEF y
    <3>2. QED
      BY <2>1, <2>2, <3>1
  <2>4. QED
    BY <1>1, <2>3, WithinIs
<1>4. CASE heading # <<>>
  <2>1. y \in Seq(Nat) /\ Len(y) = Len(heading) + 2 + Len(x)
    BY <1>2, <1>4, GapCount
  <2>2. Len(Characters(y)) = Len(Characters(heading)) + Len(Characters(x))
    BY <1>2, <1>4, GapCount
  <2> HIDE DEF y
  <2>3. Len(heading) \in Nat /\ Len(Characters(heading)) \in Nat /\ Len(Characters(heading)) <= Len(heading)
    <3>1. Len(Characters(heading)) \in 0..Len(heading)
      BY CharactersOf
    <3>2. QED
      BY <3>1
  <2>4. Len(y) = Len(heading) + 3 /\ Len(Characters(y)) = Len(Characters(heading)) + 1
    BY <1>2, <2>1, <2>2, <2>3
  <2>5. Tokens(y) = Counted(Len(Characters(heading)) + 1, Len(heading) + 3)
    BY <2>1, <2>4, TokensAre
  <2>6. Tokens(heading) = Counted(Len(Characters(heading)), Len(heading)) /\ Tokens(heading) \in Nat
    BY TokensAre
  <2>7. Tokens(y) <= Tokens(heading) + 2
    BY <2>3, <2>5, <2>6, CountedMore
  <2>8. Tokens(y) \in Nat
    BY <2>1, TokensAre
  <2>9. Tokens(y) <= call.size
    BY <1>4, <2>6, <2>7, <2>8
  <2>10. QED
    BY <1>1, <2>9, WithinIs DEF Shown, x, y
<1>5. QED
  BY <1>3, <1>4

-----------------------------------------------------------------------------
(* Grouped *)

\* Where Grouped begins
NoGroups == [done |-> <<>>, open |-> <<>>]

\* f[n] is what the first n parts come to.
Groups(f, parts, between, limit) ==
  /\ f[0] = NoGroups
  /\ \A i \in 1..Len(parts) : f[i] = Added(f[i - 1], parts[i], between, limit)

\* f is such a function on 0..n.
GroupsTo(f, parts, between, limit, n) ==
  f = [i \in 0..n |-> IF i = 0 THEN NoGroups ELSE Added(f[i - 1], parts[i], between, limit)]

\* The recursive definition of Grouped defines a function.
LEMMA GroupsExist ==
  ASSUME NEW parts, NEW between, NEW limit, NEW n \in Nat
  PROVE  \E f : GroupsTo(f, parts, between, limit, n)
<1> DEFINE Is(f, k) == f = [i \in 0..k |->
                              IF i = 0 THEN NoGroups ELSE Added(f[i - 1], parts[i], between, limit)]
           S == {k \in Nat : \E f : Is(f, k)}
<1>1. 0 \in S
  <2> DEFINE f == [i \in 0..0 |-> NoGroups]
  <2>1. Is(f, 0)
    OBVIOUS
  <2> HIDE DEF f, Is
  <2>2. QED
    BY <2>1
<1>2. ASSUME NEW k \in Nat, k \in S
      PROVE  k + 1 \in S
  <2>1. PICK f : Is(f, k)
    BY <1>2
  <2> DEFINE g == [i \in 0..(k + 1) |->
                     IF i = k + 1 THEN Added(f[k], parts[i], between, limit) ELSE f[i]]
  <2>2. ASSUME NEW i \in 0..(k + 1)
        PROVE  g[i] = IF i = 0 THEN NoGroups ELSE Added(g[i - 1], parts[i], between, limit)
    <3>1. CASE i = k + 1
      <4>1. g[i] = Added(f[k], parts[i], between, limit) /\ g[i - 1] = f[k] /\ i # 0
        BY <3>1
      <4> HIDE DEF g
      <4>2. QED
        BY <4>1
    <3>2. CASE i # k + 1
      <4>1. i \in 0..k /\ g[i] = f[i]
        BY <3>2
      <4>2. f[i] = IF i = 0 THEN NoGroups ELSE Added(f[i - 1], parts[i], between, limit)
        BY <2>1, <4>1
      <4>3. i # 0 => g[i - 1] = f[i - 1]
        BY <4>1
      <4> HIDE DEF g, Is
      <4>4. QED
        BY <4>1, <4>2, <4>3
    <3>3. QED
      BY <3>1, <3>2
  <2>3. g = [i \in 0..(k + 1) |->
               IF i = 0 THEN NoGroups ELSE Added(g[i - 1], parts[i], between, limit)]
    <3>1. g = [i \in 0..(k + 1) |-> g[i]]
      OBVIOUS
    <3> HIDE DEF g
    <3>2. QED
      BY <2>2, <3>1
  <2> HIDE DEF g
  <2>4. Is(g, k + 1)
    BY <2>3
  <2> HIDE DEF Is
  <2>5. QED
    BY <2>4
<1> HIDE DEF S
<1>3. n \in S
  BY <1>1, <1>2, Induct
<1>4. QED
  BY <1>3 DEF S, GroupsTo

\* Grouped adds the parts one after the other.
LEMMA GroupedIs ==
  ASSUME NEW parts, Len(parts) \in Nat, NEW between, NEW limit
  PROVE  \E f : /\ Groups(f, parts, between, limit)
                /\ Grouped(parts, between, limit) = f[Len(parts)].done \o Closed(f[Len(parts)].open)
<1> DEFINE F == CHOOSE f : f = [i \in 0..Len(parts) |->
                  IF i = 0 THEN NoGroups ELSE Added(f[i - 1], parts[i], between, limit)]
<1>1. F = [i \in 0..Len(parts) |-> IF i = 0 THEN NoGroups ELSE Added(F[i - 1], parts[i], between, limit)]
  <2>1. \E f : f = [i \in 0..Len(parts) |->
                      IF i = 0 THEN NoGroups ELSE Added(f[i - 1], parts[i], between, limit)]
    <3>1. \E f : GroupsTo(f, parts, between, limit, Len(parts))
      BY GroupsExist
    <3>2. QED
      BY <3>1 DEF GroupsTo
  <2>2. QED
    BY <2>1, Zenon
<1>2. Grouped(parts, between, limit) = F[Len(parts)].done \o Closed(F[Len(parts)].open)
  BY DEF Grouped, NoGroups
<1> HIDE DEF F
<1>3. \A i \in 0..Len(parts) : F[i] = IF i = 0 THEN NoGroups ELSE Added(F[i - 1], parts[i], between, limit)
  BY <1>1
<1>4. F[0] = NoGroups
  BY <1>3
<1>5. ASSUME NEW i \in 1..Len(parts) PROVE F[i] = Added(F[i - 1], parts[i], between, limit)
  <2>1. i \in 0..Len(parts) /\ i # 0
    OBVIOUS
  <2>2. QED
    BY <1>3, <2>1
<1>6. Groups(F, parts, between, limit)
  BY <1>4, <1>5 DEF Groups
<1>7. QED
  BY <1>2, <1>6

-----------------------------------------------------------------------------
(* What Grouped keeps *)

\* What is done and what is open, character by character
Tally(done, open) == Characters(FlattenSeq(done)) \o Characters(open)

\* The characters of many texts and of more
LEMMA TallyMore ==
  ASSUME NEW a \in Seq(Seq(Nat)), NEW b \in Seq(Seq(Nat))
  PROVE  /\ Characters(FlattenSeq(a)) \in Seq(Nat) /\ a \o b \in Seq(Seq(Nat))
         /\ Characters(FlattenSeq(a \o b)) = Characters(FlattenSeq(a)) \o Characters(FlattenSeq(b))
<1>1. FlattenSeq(a) \in Seq(Nat) /\ FlattenSeq(b) \in Seq(Nat)
  BY FlattenType
<1>2. FlattenSeq(a \o b) = FlattenSeq(a) \o FlattenSeq(b)
  BY FlattenConcat
<1>3. Characters(FlattenSeq(a)) \in Seq(Nat)
  BY <1>1, CharactersOf
<1>4. Characters(FlattenSeq(a) \o FlattenSeq(b)) = Characters(FlattenSeq(a)) \o Characters(FlattenSeq(b))
  BY <1>1, CharactersOf
<1>5. a \o b \in Seq(Seq(Nat))
  OBVIOUS
<1>6. QED
  BY <1>2, <1>3, <1>4, <1>5

\* Closing a text keeps its characters.
LEMMA ClosedIs ==
  ASSUME NEW u \in Seq(Nat), NEW Q \in SUBSET Seq(Nat), Strip(u) # <<>> => Strip(u) \in Q
  PROVE  Closed(u) \in Seq(Q) /\ Closed(u) \in Seq(Seq(Nat)) /\ Characters(FlattenSeq(Closed(u))) = Characters(u)
<1>1. Strip(u) \in Seq(Nat) /\ Characters(Strip(u)) = Characters(u)
  BY StripIs
<1>2. CASE Strip(u) = <<>>
  <2>1. Closed(u) = <<>> /\ FlattenSeq(<<>>) = <<>>
    BY <1>2, FlattenEmpty DEF Closed
  <2>2. <<>> \in Seq(Q) /\ <<>> \in Seq(Seq(Nat))
    OBVIOUS
  <2>3. QED
    BY <1>1, <1>2, <2>1, <2>2
<1>3. CASE Strip(u) # <<>>
  <2> DEFINE v == Strip(u)
  <2>1. Closed(u) = <<v>> /\ v \in Q /\ v \in Seq(Nat)
    BY <1>1, <1>3 DEF Closed
  <2> HIDE DEF v
  <2>2. FlattenSeq(<<v>>) = v /\ <<v>> \in Seq(Q) /\ <<v>> \in Seq(Seq(Nat))
    BY <2>1, FlattenOne
  <2>3. QED
    BY <1>1, <2>1, <2>2 DEF v
<1>4. QED
  BY <1>2, <1>3

\* One part more: what comes of it is in Q, and its characters are behind the others.
GroupOK(acc, Q, limit) ==
  /\ acc.done \in Seq(Q) /\ acc.done \in Seq(Seq(Nat))
  /\ acc.open \in Seq(Nat) /\ (acc.open = <<>> \/ Within(acc.open, limit))

\* Q has every text that fits, once stripped, and the parts that do not.
Fitting(Q, limit) == \A u \in Seq(Nat) : Within(u, limit) /\ Strip(u) # <<>> => Strip(u) \in Q
Alone(Q, part, limit) == ~ Within(part, limit) /\ Strip(part) # <<>> => Strip(part) \in Q

LEMMA AddedSound ==
  ASSUME NEW acc, NEW part \in Seq(Nat), NEW between \in Seq(Nat), NEW limit, NEW Q \in SUBSET Seq(Nat),
         Characters(between) = <<>>, GroupOK(acc, Q, limit), Fitting(Q, limit), Alone(Q, part, limit)
  PROVE  LET r == Added(acc, part, between, limit)
         IN  /\ GroupOK(r, Q, limit)
             /\ Tally(r.done, r.open) = Tally(acc.done, acc.open) \o Characters(part)
<1> DEFINE o == acc.open
           d == acc.done
           joined == IF o = <<>> THEN part ELSE o \o between \o part
           closed == d \o Closed(o)
           r == Added(acc, part, between, limit)
<1>1. d \in Seq(Q) /\ d \in Seq(Seq(Nat)) /\ o \in Seq(Nat) /\ (o = <<>> \/ Within(o, limit))
  BY DEF GroupOK
<1>2. r = IF Within(joined, limit) THEN [done |-> d, open |-> joined]
          ELSE IF Within(part, limit) THEN [done |-> closed, open |-> part]
          ELSE [done |-> closed \o Closed(part), open |-> <<>>]
  BY DEF Added
<1> HIDE DEF o, d, r
<1>3. /\ Characters(o) \in Seq(Nat) /\ Characters(part) \in Seq(Nat)
      /\ Characters(FlattenSeq(d)) \in Seq(Nat) /\ FlattenSeq(d) \in Seq(Nat)
  <2>1. FlattenSeq(d) \in Seq(Nat)
    BY <1>1, FlattenType
  <2>2. QED
    BY <1>1, <2>1, CharactersOf
<1>4. joined \in Seq(Nat) /\ Characters(joined) = Characters(o) \o Characters(part)
  <2>1. CASE o = <<>>
    <3>1. joined = part /\ Characters(o) = <<>>
      BY <2>1, WhereEmpty DEF Characters
    <3>2. QED
      BY <1>3, <3>1
  <2>2. CASE o # <<>>
    <3>1. joined = (o \o between) \o part /\ o \o between \in Seq(Nat)
      BY <1>1, <2>2
    <3>2. Characters(o \o between) = Characters(o) \o Characters(between)
      BY <1>1, CharactersOf
    <3>3. Characters(o \o between) = Characters(o)
      BY <1>3, <3>2
    <3>4. Characters((o \o between) \o part) = Characters(o \o between) \o Characters(part)
      BY <3>1, CharactersOf
    <3> HIDE DEF joined
    <3>5. joined \in Seq(Nat)
      BY <3>1, ConcatTexts
    <3>6. QED
      BY <3>1, <3>3, <3>4, <3>5
  <2>3. QED
    BY <2>1, <2>2
<1>5. closed \in Seq(Q) /\ closed \in Seq(Seq(Nat)) /\ Characters(FlattenSeq(closed)) = Tally(d, o)
  <2>1. o # <<>> => (Strip(o) # <<>> => Strip(o) \in Q)
    BY <1>1 DEF Fitting
  <2>2. o = <<>> => Strip(o) = <<>>
    <3>1. Len(Strip(o)) <= Len(o) /\ Strip(o) \in Seq(Nat)
      BY <1>1, StripIs
    <3>2. QED
      BY <3>1
  <2>3. /\ Closed(o) \in Seq(Q) /\ Closed(o) \in Seq(Seq(Nat))
        /\ Characters(FlattenSeq(Closed(o))) = Characters(o)
    BY <1>1, <2>1, <2>2, ClosedIs
  <2>4. Characters(FlattenSeq(d \o Closed(o))) = Characters(FlattenSeq(d)) \o Characters(FlattenSeq(Closed(o)))
    BY <1>1, <2>3, TallyMore
  <2>5. d \o Closed(o) \in Seq(Q) /\ d \o Closed(o) \in Seq(Seq(Nat))
    BY <1>1, <2>3
  <2>6. QED
    BY <2>3, <2>4, <2>5 DEF Tally
<1>6. Tally(d, joined) = Tally(d, o) \o Characters(part)
  <2>1. \A x, y, z \in Seq(Nat) : (x \o y) \o z = x \o (y \o z)
    BY ConcatAssociative
  <2>2. Characters(FlattenSeq(d)) \o (Characters(o) \o Characters(part)) =
          (Characters(FlattenSeq(d)) \o Characters(o)) \o Characters(part)
    BY <1>3, <2>1, Zenon
  <2>3. QED
    BY <1>4, <2>2 DEF Tally
<1> HIDE DEF joined, closed
<1>7. CASE Within(joined, limit)
  <2>1. r.done = d /\ r.open = joined
    BY <1>2, <1>7
  <2>2. QED
    BY <1>1, <1>4, <1>6, <1>7, <2>1 DEF GroupOK, o, d, r
<1>8. CASE ~ Within(joined, limit) /\ Within(part, limit)
  <2>1. r.done = closed /\ r.open = part
    BY <1>2, <1>8
  <2>2. Tally(closed, part) = Tally(d, o) \o Characters(part)
    BY <1>5 DEF Tally
  <2>3. QED
    BY <1>5, <1>8, <2>1, <2>2 DEF GroupOK, o, d, r
<1>9. CASE ~ Within(joined, limit) /\ ~ Within(part, limit)
  <2> DEFINE all == closed \o Closed(part)
  <2>1. r.done = all /\ r.open = <<>>
    BY <1>2, <1>9
  <2>2. Strip(part) # <<>> => Strip(part) \in Q
    BY <1>9 DEF Alone
  <2>3. /\ Closed(part) \in Seq(Q) /\ Closed(part) \in Seq(Seq(Nat))
        /\ Characters(FlattenSeq(Closed(part))) = Characters(part)
    BY <2>2, ClosedIs
  <2>4. all \in Seq(Q) /\ all \in Seq(Seq(Nat))
    BY <1>5, <2>3
  <2>5. Characters(FlattenSeq(all)) = Tally(d, o) \o Characters(part)
    BY <1>5, <2>3, TallyMore
  <2>6. Characters(<<>>) = <<>> /\ Characters(FlattenSeq(all)) \in Seq(Nat)
    <3>1. FlattenSeq(all) \in Seq(Nat)
      BY <2>4, FlattenType
    <3>2. QED
      BY <3>1, CharactersOf, WhereEmpty DEF Characters
  <2> HIDE DEF all
  <2>7. Tally(all, <<>>) = Characters(FlattenSeq(all))
    BY <2>6 DEF Tally
  <2>8. QED
    BY <2>1, <2>4, <2>5, <2>7 DEF GroupOK, o, d, r
<1>10. QED
  BY <1>7, <1>8, <1>9

\* Grouped keeps the characters of its parts, and makes texts that fit.
LEMMA GroupedSound ==
  ASSUME NEW parts \in Seq(Seq(Nat)), NEW between \in Seq(Nat), NEW limit, NEW Q \in SUBSET Seq(Nat),
         Characters(between) = <<>>, Fitting(Q, limit), \A i \in DOMAIN parts : Alone(Q, parts[i], limit)
  PROVE  /\ Grouped(parts, between, limit) \in Seq(Q) /\ Grouped(parts, between, limit) \in Seq(Seq(Nat))
         /\ Characters(FlattenSeq(Grouped(parts, between, limit))) = Characters(FlattenSeq(parts))
<1>1. PICK f : /\ Groups(f, parts, between, limit)
               /\ Grouped(parts, between, limit) = f[Len(parts)].done \o Closed(f[Len(parts)].open)
  <2>1. Len(parts) \in Nat
    OBVIOUS
  <2>2. QED
    BY <2>1, GroupedIs
<1> DEFINE Firsts(n) == SubSeq(parts, 1, n)
           Good(n) == n <= Len(parts) => /\ GroupOK(f[n], Q, limit)
                                         /\ Tally(f[n].done, f[n].open) = Characters(FlattenSeq(Firsts(n)))
           S == {n \in Nat : Good(n)}
<1>2. 0 \in S
  <2>1. f[0].done = <<>> /\ f[0].open = <<>> /\ Firsts(0) = <<>>
    BY <1>1 DEF Groups, NoGroups
  <2>2. Tally(<<>>, <<>>) = Characters(FlattenSeq(<<>>))
    <3>1. FlattenSeq(<<>>) = <<>> /\ Characters(<<>>) = <<>> /\ <<>> \o <<>> = <<>>
      BY FlattenEmpty, WhereEmpty DEF Characters
    <3>2. QED
      BY <3>1 DEF Tally
  <2>3. GroupOK(f[0], Q, limit)
    BY <2>1 DEF GroupOK
  <2> HIDE DEF Firsts
  <2>4. QED
    BY <2>1, <2>2, <2>3
<1>3. ASSUME NEW n \in Nat, n \in S PROVE n + 1 \in S
  <2>1. SUFFICES ASSUME n + 1 <= Len(parts)
                 PROVE  /\ GroupOK(f[n + 1], Q, limit)
                        /\ Tally(f[n + 1].done, f[n + 1].open) = Characters(FlattenSeq(Firsts(n + 1)))
    OBVIOUS
  <2>2. n + 1 \in 1..Len(parts) /\ n + 1 \in DOMAIN parts /\ n <= Len(parts) /\ (n + 1) - 1 = n
    BY <2>1
  <2>3. /\ GroupOK(f[n], Q, limit)
        /\ Tally(f[n].done, f[n].open) = Characters(FlattenSeq(Firsts(n)))
    BY <1>3, <2>2
  <2>4. parts[n + 1] \in Seq(Nat) /\ f[n + 1] = Added(f[n], parts[n + 1], between, limit)
    BY <1>1, <2>2 DEF Groups
  <2>5. /\ GroupOK(f[n + 1], Q, limit)
        /\ Tally(f[n + 1].done, f[n + 1].open) = Tally(f[n].done, f[n].open) \o Characters(parts[n + 1])
    <3> DEFINE r == Added(f[n], parts[n + 1], between, limit)
    <3>1. Alone(Q, parts[n + 1], limit)
      BY <2>2
    <3>2. GroupOK(r, Q, limit) /\ Tally(r.done, r.open) = Tally(f[n].done, f[n].open) \o Characters(parts[n + 1])
      BY <2>3, <2>4, <3>1, AddedSound
    <3>3. QED
      BY <2>4, <3>2
  <2>6. Firsts(n + 1) = Append(Firsts(n), parts[n + 1]) /\ Firsts(n) \in Seq(Seq(Nat))
    BY <2>2
  <2> HIDE DEF Firsts
  <2>7. FlattenSeq(Firsts(n + 1)) = FlattenSeq(Firsts(n)) \o parts[n + 1] /\ FlattenSeq(Firsts(n)) \in Seq(Nat)
    BY <2>4, <2>6, FlattenAppend, FlattenType
  <2>8. Characters(FlattenSeq(Firsts(n + 1))) = Characters(FlattenSeq(Firsts(n))) \o Characters(parts[n + 1])
    BY <2>4, <2>7, CharactersOf
  <2>9. QED
    BY <2>3, <2>5, <2>8
<1> HIDE DEF S
<1>4. Len(parts) \in S
  <2>1. Len(parts) \in Nat
    OBVIOUS
  <2>2. QED
    BY <1>2, <1>3, <2>1, Induct
<1> DEFINE d == f[Len(parts)].done
           o == f[Len(parts)].open
<1>5. GroupOK(f[Len(parts)], Q, limit) /\ Tally(d, o) = Characters(FlattenSeq(parts))
  <2>1. Firsts(Len(parts)) = parts /\ Len(parts) <= Len(parts)
    OBVIOUS
  <2>2. QED
    BY <1>4, <2>1 DEF S
<1>6. d \in Seq(Q) /\ d \in Seq(Seq(Nat)) /\ o \in Seq(Nat) /\ (o = <<>> \/ Within(o, limit))
  BY <1>5 DEF GroupOK
<1>7. Strip(o) # <<>> => Strip(o) \in Q
  <2>1. o = <<>> => Strip(o) = <<>>
    <3>1. Len(Strip(o)) <= Len(o) /\ Strip(o) \in Seq(Nat)
      BY <1>6, StripIs
    <3>2. QED
      BY <3>1
  <2>2. QED
    BY <1>6, <2>1 DEF Fitting
<1>8. Grouped(parts, between, limit) = d \o Closed(o)
  BY <1>1
<1> HIDE DEF d, o
<1>9. /\ Closed(o) \in Seq(Q) /\ Closed(o) \in Seq(Seq(Nat))
      /\ Characters(FlattenSeq(Closed(o))) = Characters(o)
  BY <1>6, <1>7, ClosedIs
<1>10. Characters(FlattenSeq(d \o Closed(o))) = Tally(d, o)
  BY <1>6, <1>9, TallyMore DEF Tally
<1>11. d \o Closed(o) \in Seq(Q) /\ d \o Closed(o) \in Seq(Seq(Nat))
  BY <1>6, <1>9
<1>12. QED
  BY <1>5, <1>8, <1>10, <1>11

-----------------------------------------------------------------------------
(* What Split keeps *)

\* Its members, each a sequence of one, make a sequence again.
Singles(s) == [n \in DOMAIN s |-> <<s[n]>>]

LEMMA SinglesIs ==
  ASSUME NEW T, NEW s \in Seq(T)
  PROVE  Singles(s) \in Seq(Seq(T)) /\ FlattenSeq(Singles(s)) = s
<1> DEFINE Q == {u \in Seq(T) : Singles(u) \in Seq(Seq(T)) /\ FlattenSeq(Singles(u)) = u}
<1>1. <<>> \in Q
  <2>1. Singles(<<>>) = <<>> /\ <<>> \in Seq(T) /\ <<>> \in Seq(Seq(T))
    BY DEF Singles
  <2>2. QED
    BY <2>1, FlattenEmpty
<1>2. ASSUME NEW u \in Seq(T), NEW x \in T, u \in Q PROVE Append(u, x) \in Q
  <2> DEFINE w == Append(u, x)
             a == Singles(w)
             b == Append(Singles(u), <<x>>)
  <2>1. /\ w \in Seq(T) /\ Len(w) = Len(u) + 1 /\ DOMAIN w = 1..(Len(u) + 1) /\ Len(u) \in Nat
        /\ w[Len(u) + 1] = x /\ \A n \in 1..Len(u) : w[n] = u[n]
    OBVIOUS
  <2>2. /\ Singles(u) \in Seq(Seq(T)) /\ FlattenSeq(Singles(u)) = u /\ Len(Singles(u)) = Len(u)
        /\ \A n \in 1..Len(u) : Singles(u)[n] = <<u[n]>>
    <3>1. DOMAIN Singles(u) = 1..Len(u) /\ \A n \in 1..Len(u) : Singles(u)[n] = <<u[n]>>
      BY DEF Singles
    <3>2. QED
      BY <1>2, <3>1
  <2> HIDE DEF w
  <2>3. a \in Seq(Seq(T)) /\ Len(a) = Len(u) + 1 /\ \A n \in 1..(Len(u) + 1) : a[n] = <<w[n]>>
    <3>1. ASSUME NEW n \in DOMAIN w PROVE <<w[n]>> \in Seq(T)
      <4>1. w[n] \in T
        BY <2>1
      <4>2. QED
        BY <4>1
    <3>2. QED
      BY <2>1, <3>1 DEF Singles
  <2>4. /\ b \in Seq(Seq(T)) /\ Len(b) = Len(u) + 1 /\ b[Len(u) + 1] = <<x>>
        /\ \A n \in 1..Len(u) : b[n] = <<u[n]>>
    BY <2>2
  <2>5. ASSUME NEW n \in 1..(Len(u) + 1) PROVE a[n] = b[n]
    <3> HIDE DEF a, b
    <3>1. CASE n = Len(u) + 1
      BY <2>1, <2>3, <2>4, <3>1
    <3>2. CASE n # Len(u) + 1
      <4>1. n \in 1..Len(u)
        BY <2>1, <3>2
      <4>2. QED
        BY <2>1, <2>3, <2>4, <4>1
    <3>3. QED
      BY <3>1, <3>2
  <2>6. a = b
    <3> HIDE DEF a, b
    <3>1. QED
      BY <2>3, <2>4, <2>5, SeqEqual
  <2>7. FlattenSeq(b) = u \o <<x>>
    <3>1. <<x>> \in Seq(T)
      OBVIOUS
    <3>2. QED
      BY <2>2, <3>1, FlattenAppend
  <2>8. w = u \o <<x>>
    BY AppendIs DEF w
  <2>9. QED
    BY <2>1, <2>3, <2>6, <2>7, <2>8 DEF w
<1> HIDE DEF Q
<1>3. Seq(T) \subseteq Q
  BY <1>1, <1>2, SeqInduct
<1>4. QED
  BY <1>3 DEF Q

\* To flatten twice is to flatten the flattenings.
LEMMA FlattenTwice ==
  ASSUME NEW T, NEW s \in Seq(Seq(Seq(T)))
  PROVE  FlattenSeq(FlattenSeq(s)) = FlattenSeq([n \in DOMAIN s |-> FlattenSeq(s[n])])
<1> DEFINE Each(u) == [n \in DOMAIN u |-> FlattenSeq(u[n])]
           Q == {u \in Seq(Seq(Seq(T))) : FlattenSeq(FlattenSeq(u)) = FlattenSeq(Each(u))}
<1>1. <<>> \in Q
  <2>1. Each(<<>>) = <<>> /\ <<>> \in Seq(Seq(Seq(T)))
    OBVIOUS
  <2>2. QED
    BY <2>1, FlattenEmpty
<1>2. ASSUME NEW u \in Seq(Seq(Seq(T))), NEW x \in Seq(Seq(T)), u \in Q PROVE Append(u, x) \in Q
  <2> DEFINE w == Append(u, x)
             a == Each(w)
             b == Append(Each(u), FlattenSeq(x))
  <2>1. /\ w \in Seq(Seq(Seq(T))) /\ Len(w) = Len(u) + 1 /\ DOMAIN w = 1..(Len(u) + 1) /\ Len(u) \in Nat
        /\ w[Len(u) + 1] = x /\ \A n \in 1..Len(u) : w[n] = u[n]
    OBVIOUS
  <2>2. FlattenSeq(x) \in Seq(T)
    BY FlattenType
  <2> HIDE DEF w
  <2>3. ASSUME NEW v \in Seq(Seq(Seq(T)))
        PROVE  /\ Each(v) \in Seq(Seq(T)) /\ Len(Each(v)) = Len(v)
               /\ \A n \in 1..Len(v) : Each(v)[n] = FlattenSeq(v[n])
    <3>1. ASSUME NEW n \in DOMAIN v PROVE FlattenSeq(v[n]) \in Seq(T)
      <4>1. v[n] \in Seq(Seq(T))
        OBVIOUS
      <4>2. QED
        BY <4>1, FlattenType
    <3>2. DOMAIN v = 1..Len(v) /\ Len(v) \in Nat
      OBVIOUS
    <3>3. QED
      BY <3>1, <3>2
  <2>4. a \in Seq(Seq(T)) /\ Len(a) = Len(u) + 1 /\ \A n \in 1..(Len(u) + 1) : a[n] = FlattenSeq(w[n])
    BY <2>1, <2>3
  <2>5. /\ Each(u) \in Seq(Seq(T)) /\ Len(Each(u)) = Len(u)
        /\ \A n \in 1..Len(u) : Each(u)[n] = FlattenSeq(u[n])
    BY <2>3
  <2> HIDE DEF Each
  <2>6. /\ b \in Seq(Seq(T)) /\ Len(b) = Len(u) + 1 /\ b[Len(u) + 1] = FlattenSeq(x)
        /\ \A n \in 1..Len(u) : b[n] = FlattenSeq(u[n])
    BY <2>2, <2>5
  <2> HIDE DEF a, b
  <2>7. ASSUME NEW n \in 1..(Len(u) + 1) PROVE a[n] = b[n]
    <3>1. CASE n = Len(u) + 1
      BY <2>1, <2>4, <2>6, <3>1
    <3>2. CASE n # Len(u) + 1
      <4>1. n \in 1..Len(u)
        BY <2>1, <3>2
      <4>2. QED
        BY <2>1, <2>4, <2>6, <4>1
    <3>3. QED
      BY <3>1, <3>2
  <2>8. a = b
    BY <2>4, <2>6, <2>7, SeqEqual
  <2>9. FlattenSeq(b) = FlattenSeq(Each(u)) \o FlattenSeq(x)
    BY <2>2, <2>5, FlattenAppend DEF b
  <2>10. FlattenSeq(w) = FlattenSeq(u) \o x /\ FlattenSeq(u) \in Seq(Seq(T))
    BY FlattenType, FlattenAppend DEF w
  <2>11. FlattenSeq(FlattenSeq(w)) = FlattenSeq(FlattenSeq(u)) \o FlattenSeq(x)
    BY <2>10, FlattenConcat
  <2>12. FlattenSeq(FlattenSeq(u)) = FlattenSeq(Each(u))
    BY <1>2 DEF Each
  <2>13. FlattenSeq(FlattenSeq(w)) = FlattenSeq(Each(w))
    BY <2>8, <2>9, <2>11, <2>12 DEF a
  <2>14. QED
    BY <2>1, <2>13 DEF Each, w
<1> HIDE DEF Q
<1>3. Seq(Seq(Seq(T))) \subseteq Q
  BY <1>1, <1>2, SeqInduct
<1>4. QED
  BY <1>3 DEF Q

\* Q has what fits, as it is and stripped, and any character alone that does not.
Splits(Q, limit) ==
  /\ Q \in SUBSET Seq(Nat) /\ Fitting(Q, limit)
  /\ \A u \in Seq(Nat) : Within(u, limit) => u \in Q
  /\ \A c \in Nat \ {0} : ~ Within(<<c>>, limit) => <<c>> \in Q

\* Splitting a text into characters and putting them together keeps them.
LEMMA SplitCharactersSound ==
  ASSUME NEW source \in Seq(Nat), NEW limit, NEW Q, Splits(Q, limit)
  PROVE  LET r == SplitCharacters(source, limit)
         IN  r \in Seq(Q) /\ r \in Seq(Seq(Nat)) /\ Characters(FlattenSeq(r)) = Characters(source)
<1> DEFINE r == SplitCharacters(source, limit)
<1>1. CASE Within(source, limit)
  <2>1. r = <<source>> /\ source \in Q /\ FlattenSeq(<<source>>) = source
    BY <1>1, FlattenOne DEF SplitCharacters, Splits
  <2>2. QED
    BY <2>1
<1>2. CASE ~ Within(source, limit)
  <2>1. r = Grouped(Singles(source), <<>>, limit)
    BY <1>2 DEF SplitCharacters, Singles
  <2>2. Singles(source) \in Seq(Seq(Nat)) /\ FlattenSeq(Singles(source)) = source
    BY SinglesIs
  <2>3. ASSUME NEW i \in DOMAIN Singles(source) PROVE Alone(Q, Singles(source)[i], limit)
    <3> DEFINE c == source[i]
               one == <<c>>
    <3>1. i \in DOMAIN source /\ c \in Nat /\ Singles(source)[i] = one
      BY DEF Singles
    <3> HIDE DEF c
    <3>2. ASSUME ~ Within(one, limit), Strip(one) # <<>> PROVE Strip(one) \in Q
      <4>1. one \in Seq(Nat) /\ Len(one) = 1 /\ one[1] = c
        BY <3>1
      <4> HIDE DEF one
      <4>2. PICK a \in 1..Len(one) : \E b \in a..Len(one) : one[a] # 0 /\ Strip(one) = SubSeq(one, a, b)
        BY <3>2, <4>1, StripIs
      <4>3. a = 1 /\ c # 0 /\ Strip(one) = SubSeq(one, 1, 1)
        <5>1. PICK b \in a..Len(one) : one[a] # 0 /\ Strip(one) = SubSeq(one, a, b)
          BY <4>2
        <5>2. a = 1 /\ b = 1
          BY <4>1
        <5>3. QED
          BY <4>1, <5>1, <5>2
      <4>4. SubSeq(one, 1, 1) = one
        BY <4>1
      <4>5. one \in Q
        BY <3>1, <3>2, <4>3 DEF Splits, one
      <4>6. QED
        BY <4>3, <4>4, <4>5
    <3>3. QED
      BY <3>1, <3>2 DEF Alone
  <2>4. <<>> \in Seq(Nat) /\ Characters(<<>>) = <<>>
    BY WhereEmpty DEF Characters
  <2>5. Q \in SUBSET Seq(Nat) /\ Fitting(Q, limit)
    BY DEF Splits
  <2>6. QED
    BY <2>1, <2>2, <2>3, <2>4, <2>5, GroupedSound
<1>3. QED
  BY <1>1, <1>2

\* Splitting texts keeps their characters.
LEMMA SplitSound ==
  ASSUME NEW texts \in Seq(Seq(Nat)), NEW limit, NEW Q, Splits(Q, limit)
  PROVE  /\ Split(texts, limit) \in Seq(Q) /\ Split(texts, limit) \in Seq(Seq(Nat))
         /\ Characters(FlattenSeq(Split(texts, limit))) = Characters(FlattenSeq(texts))
<1> DEFINE each == [n \in DOMAIN texts |-> SplitCharacters(texts[n], limit)]
           flat == [n \in DOMAIN each |-> FlattenSeq(each[n])]
<1>1. DOMAIN texts = 1..Len(texts) /\ Len(texts) \in Nat
  OBVIOUS
<1>2. ASSUME NEW n \in DOMAIN texts
      PROVE  /\ SplitCharacters(texts[n], limit) \in Seq(Q) /\ SplitCharacters(texts[n], limit) \in Seq(Seq(Nat))
             /\ Characters(FlattenSeq(SplitCharacters(texts[n], limit))) = Characters(texts[n])
             /\ FlattenSeq(SplitCharacters(texts[n], limit)) \in Seq(Nat)
  <2>1. texts[n] \in Seq(Nat)
    OBVIOUS
  <2>2. QED
    BY <2>1, SplitCharactersSound, FlattenType
<1>3. each \in Seq(Seq(Q)) /\ each \in Seq(Seq(Seq(Nat))) /\ DOMAIN each = DOMAIN texts
  BY <1>1, <1>2
<1>4. flat \in Seq(Seq(Nat)) /\ DOMAIN flat = DOMAIN texts
  BY <1>1, <1>2
<1>5. \A n \in DOMAIN texts : Characters(flat[n]) = Characters(texts[n])
  BY <1>2
<1>6. Split(texts, limit) = FlattenSeq(each)
  BY DEF Split
<1> HIDE DEF each
<1>7. FlattenSeq(each) \in Seq(Q) /\ FlattenSeq(each) \in Seq(Seq(Nat))
  BY <1>3, FlattenType
<1>8. FlattenSeq(FlattenSeq(each)) = FlattenSeq(flat)
  BY <1>3, FlattenTwice
<1> HIDE DEF flat
<1>9. Characters(FlattenSeq(flat)) = Characters(FlattenSeq(texts))
  <2>1. \A S : Where(FlattenSeq(flat), S) = FlattenSeq([n \in DOMAIN flat |-> Where(flat[n], S)])
    BY <1>4, WhereFlatten
  <2>2. \A S : Where(FlattenSeq(texts), S) = FlattenSeq([n \in DOMAIN texts |-> Where(texts[n], S)])
    BY WhereFlatten
  <2>3. [n \in DOMAIN flat |-> Where(flat[n], Nat \ {0})] = [n \in DOMAIN texts |-> Where(texts[n], Nat \ {0})]
    BY <1>4, <1>5 DEF Characters
  <2>4. QED
    BY <2>1, <2>2, <2>3 DEF Characters
<1>10. QED
  BY <1>6, <1>7, <1>8, <1>9

-----------------------------------------------------------------------------
(* The pieces of a block *)

\* A heading that leaves room, and a block of lines of the document
HeadingOK(heading) == heading \in Seq(Nat) /\ (heading = <<>> \/ Tokens(heading) <= call.size - 2)
BlockOK(block) ==
  block.lines \in Seq(DOMAIN call.text) /\ block.lines # <<>> /\ block.header \in BOOLEAN

\* The lines that are data, not the header of a table
Data(block) ==
  IF block.kind = "table" /\ block.header /\ block.lines # <<>> THEN Tail(block.lines) ELSE block.lines

\* A text that fits below its header and heading, or no character would
TextFits(header, heading, source) ==
  \/ Within(source, Rendered(header, heading))
  \/ header # <<>> /\ ~ Within(<<1>>, Rendered(header, heading))

\* What is behind the first is of the same.
LEMMA TailType ==
  ASSUME NEW T, NEW s \in Seq(T), s # <<>>
  PROVE  Tail(s) \in Seq(T)
OBVIOUS

\* What split texts may be
LEMMA SplitsText ==
  ASSUME Loaded, NEW header, IsHeader(header), NEW heading, HeadingOK(heading)
  PROVE  Splits({u \in Seq(Nat) : TextFits(header, heading, u)}, Rendered(header, heading))
<1> DEFINE Q == {u \in Seq(Nat) : TextFits(header, heading, u)}
           limit == Rendered(header, heading)
<1>1. heading \in Seq(Nat) /\ call.size \in Nat /\ call.size \in Nat \ {0}
  BY DEF HeadingOK, Loaded
<1>2. ASSUME NEW u \in Seq(Nat), Within(u, limit), Strip(u) # <<>> PROVE Strip(u) \in Q
  <2>1. Within(Strip(u), limit)
    BY <1>1, <1>2, StripWithin
  <2>2. Strip(u) \in Seq(Nat)
    BY StripIs
  <2>3. QED
    BY <2>1, <2>2 DEF TextFits
<1>3. ASSUME NEW c \in Nat \ {0}, ~ Within(<<c>>, limit) PROVE <<c>> \in Q
  <2>1. <<c>> \in Seq(Nat)
    OBVIOUS
  <2>2. ~ Within(<<1>>, limit)
    BY <1>1, <1>3, OneCharacter
  <2>3. header # <<>>
    <3>1. SUFFICES ASSUME header = <<>> PROVE FALSE
      OBVIOUS
    <3>2. Within(<<c>>, Rendered(<<>>, heading))
      BY <1>1, RoomForCharacter DEF HeadingOK
    <3>3. QED
      BY <1>3, <3>1, <3>2
  <2>4. QED
    BY <2>1, <2>2, <2>3 DEF TextFits
<1>4. QED
  BY <1>2, <1>3 DEF Splits, Fitting, TextFits

\* By themselves, texts may be anything.
LEMMA SplitsPlain ==
  ASSUME NEW body
  PROVE  Splits(Seq(Nat), Plain(body)) /\ Fitting(Seq(Nat), Plain(body))
<1>1. \A u \in Seq(Nat) : Strip(u) \in Seq(Nat)
  BY StripIs
<1>2. \A c \in Nat \ {0} : <<c>> \in Seq(Nat)
  OBVIOUS
<1>3. QED
  BY <1>1, <1>2 DEF Splits, Fitting

\* Texts as pieces, all of a block
LEMMA TableTexts ==
  ASSUME Loaded, NEW block, BlockOK(block), NEW heading, HeadingOK(heading), block.kind = "table"
  PROVE  \E header : \E texts \in Seq(Seq(Nat)) :
           /\ IsHeader(header) /\ BlockPieces(block, heading) = MakePieces(block, heading, header, texts)
           /\ \A n \in DOMAIN texts : TextFits(header, heading, texts[n])
           /\ Characters(FlattenSeq(texts)) = Characters(FlattenSeq(Lines(Data(block))))
<1> DEFINE header == IF block.header THEN Line(block.lines[1]) ELSE <<>>
           data == Lines(Data(block))
           limit == Rendered(header, heading)
           Q == {u \in Seq(Nat) : TextFits(header, heading, u)}
           texts == Split(Grouped(data, NL, limit), limit)
<1>1. BlockPieces(block, heading) = MakePieces(block, heading, header, texts)
  <2>1. data = Lines(IF block.header THEN Tail(block.lines) ELSE block.lines)
    BY DEF Data, BlockOK
  <2>2. QED
    BY <2>1 DEF BlockPieces, TablePieces
<1>2. IsHeader(header)
  <2>1. block.lines[1] \in DOMAIN call.text
    BY DEF BlockOK
  <2>2. /\ Line(block.lines[1]) \in Seq(Nat) /\ block.lines[1] \in Nat \ {0}
        /\ \A i \in DOMAIN Line(block.lines[1]) : Line(block.lines[1])[i] = block.lines[1]
    BY <2>1, LineType
  <2>3. IsHeader(Line(block.lines[1])) /\ IsHeader(<<>>)
    BY <2>2 DEF IsHeader
  <2>4. QED
    BY <2>3
<1>3. data \in Seq(Seq(Nat))
  <2>1. Data(block) \in Seq(DOMAIN call.text)
    <3>1. block.lines \in Seq(DOMAIN call.text) /\ block.lines # <<>>
      BY DEF BlockOK
    <3>2. Tail(block.lines) \in Seq(DOMAIN call.text)
      BY <3>1, TailType
    <3>3. QED
      BY <3>1, <3>2 DEF Data
  <2>2. QED
    BY <2>1, LinesType
<1>4. Splits(Q, limit)
  BY <1>2, SplitsText
<1> HIDE DEF header, data, limit
<1>5. /\ Grouped(data, NL, limit) \in Seq(Seq(Nat))
      /\ Characters(FlattenSeq(Grouped(data, NL, limit))) = Characters(FlattenSeq(data))
  <2>1. ASSUME NEW i \in DOMAIN data PROVE Alone(Seq(Nat), data[i], limit)
    <3>1. Strip(data[i]) \in Seq(Nat)
      BY <1>3, StripIs
    <3>2. QED
      BY <3>1 DEF Alone
  <2>2. Fitting(Seq(Nat), limit)
    BY StripIs DEF Fitting
  <2>3. QED
    BY <1>3, <2>1, <2>2, Separators, GroupedSound
<1>6. /\ texts \in Seq(Q) /\ texts \in Seq(Seq(Nat))
      /\ Characters(FlattenSeq(texts)) = Characters(FlattenSeq(data))
  <2> DEFINE grouped == Grouped(data, NL, limit)
  <2> HIDE DEF Q
  <2>1. grouped \in Seq(Seq(Nat)) /\ Splits(Q, limit)
    BY <1>4, <1>5
  <2> HIDE DEF grouped
  <2>2. /\ Split(grouped, limit) \in Seq(Q) /\ Split(grouped, limit) \in Seq(Seq(Nat))
        /\ Characters(FlattenSeq(Split(grouped, limit))) = Characters(FlattenSeq(grouped))
    BY <2>1, SplitSound
  <2>3. QED
    BY <1>5, <2>2 DEF grouped
<1>7. \A n \in DOMAIN texts : TextFits(header, heading, texts[n])
  <2> HIDE DEF texts
  <2>1. \A n \in DOMAIN texts : texts[n] \in Q
    BY <1>6
  <2>2. QED
    BY <2>1
<1> HIDE DEF texts
<1>8. QED
  BY <1>1, <1>2, <1>6, <1>7 DEF data

LEMMA PlainTexts ==
  ASSUME Loaded, NEW block, BlockOK(block), NEW heading, HeadingOK(heading), block.kind # "table"
  PROVE  \E texts \in Seq(Seq(Nat)) :
           /\ BlockPieces(block, heading) = MakePieces(block, heading, <<>>, texts)
           /\ \A n \in DOMAIN texts : TextFits(<<>>, heading, texts[n])
           /\ Characters(FlattenSeq(texts)) = Characters(FlattenSeq(Lines(Data(block))))
<1> DEFINE data == Lines(block.lines)
           source == Strip(Join(data, NL))
           limit == Rendered(<<>>, heading)
           room == call.size - Tokens(heading) - Tokens(Gap)
           body == IF room < 1 THEN 1 ELSE room
           sentences == IF block.kind = "code" THEN <<source>> ELSE data
           texts == CASE source = <<>> -> <<>>
                      [] source # <<>> /\ Within(source, limit) -> <<source>>
                      [] OTHER -> Split(SplitText(sentences, body), limit)
           Q == {u \in Seq(Nat) : TextFits(<<>>, heading, u)}
<1>1. BlockPieces(block, heading) = MakePieces(block, heading, <<>>, texts)
  BY DEF BlockPieces, TextPieces
<1>2. Data(block) = block.lines /\ block.lines \in Seq(DOMAIN call.text)
  BY DEF Data, BlockOK
<1>3. data \in Seq(Seq(Nat))
  BY <1>2, LinesType
<1>4. Splits(Q, limit)
  <2>1. IsHeader(<<>>)
    BY DEF IsHeader
  <2>2. QED
    BY <2>1, SplitsText
<1> HIDE DEF data, limit, body, Q
<1>5. source \in Seq(Nat) /\ Characters(source) = Characters(FlattenSeq(data))
  <2>1. Join(data, NL) \in Seq(Nat) /\ Characters(Join(data, NL)) = Characters(FlattenSeq(data))
    BY <1>3, Separators, JoinIs, JoinCharacters
  <2>2. QED
    BY <2>1, StripIs
<1> HIDE DEF source
<1>6. CASE source = <<>>
  <2>1. texts = <<>> /\ <<>> \in Seq(Q) /\ <<>> \in Seq(Seq(Nat)) /\ FlattenSeq(<<>>) = source
    BY <1>6, FlattenEmpty
  <2>2. texts \in Seq(Q) /\ texts \in Seq(Seq(Nat)) /\ Characters(FlattenSeq(texts)) = Characters(source)
    BY <2>1
  <2>3. QED
    BY <1>1, <1>2, <1>5, <2>2 DEF Q, data
<1>7. CASE source # <<>> /\ Within(source, limit)
  <2>1. texts = <<source>> /\ source \in Q /\ FlattenSeq(<<source>>) = source
    BY <1>4, <1>5, <1>7, FlattenOne DEF Splits
  <2>2. <<source>> \in Seq(Q) /\ <<source>> \in Seq(Seq(Nat))
    BY <1>5, <2>1
  <2>3. texts \in Seq(Q) /\ texts \in Seq(Seq(Nat)) /\ Characters(FlattenSeq(texts)) = Characters(source)
    BY <2>1, <2>2
  <2>4. QED
    BY <1>1, <1>2, <1>5, <2>3 DEF Q, data
<1>8. CASE source # <<>> /\ ~ Within(source, limit)
  <2> DEFINE grouped == Grouped(sentences, NL, Plain(body))
             parts == Split(grouped, Plain(body))
  <2>1. texts = Split(parts, limit)
    <3>1. texts = Split(SplitText(sentences, body), limit)
      BY <1>8
    <3>2. QED
      BY <3>1 DEF SplitText
  <2>2. sentences \in Seq(Seq(Nat)) /\ Characters(FlattenSeq(sentences)) = Characters(source)
    <3>1. <<source>> \in Seq(Seq(Nat)) /\ FlattenSeq(<<source>>) = source
      BY <1>5, FlattenOne
    <3>2. QED
      BY <1>3, <1>5, <3>1
  <2> HIDE DEF sentences
  <2>3. ASSUME NEW i \in DOMAIN sentences PROVE Alone(Seq(Nat), sentences[i], Plain(body))
    <3>1. Strip(sentences[i]) \in Seq(Nat)
      BY <2>2, StripIs
    <3>2. QED
      BY <3>1 DEF Alone
  <2>4. /\ grouped \in Seq(Seq(Nat))
        /\ Characters(FlattenSeq(grouped)) = Characters(source)
    BY <2>2, <2>3, SplitsPlain, Separators, GroupedSound
  <2> HIDE DEF grouped
  <2>5. /\ parts \in Seq(Seq(Nat))
        /\ Characters(FlattenSeq(parts)) = Characters(source)
    BY <2>4, SplitsPlain, SplitSound
  <2> HIDE DEF parts
  <2>6. /\ Split(parts, limit) \in Seq(Q) /\ Split(parts, limit) \in Seq(Seq(Nat))
        /\ Characters(FlattenSeq(Split(parts, limit))) = Characters(source)
    BY <1>4, <2>5, SplitSound
  <2> HIDE DEF texts
  <2>7. /\ texts \in Seq(Q) /\ texts \in Seq(Seq(Nat)) /\ Characters(FlattenSeq(texts)) = Characters(source)
    BY <2>1, <2>6
  <2>8. \A n \in DOMAIN texts : TextFits(<<>>, heading, texts[n])
    <3>1. \A n \in DOMAIN texts : texts[n] \in Q
      BY <2>7
    <3>2. QED
      BY <3>1 DEF Q
  <2>9. QED
    BY <1>1, <1>2, <1>5, <2>7, <2>8 DEF data, texts
<1>9. QED
  BY <1>6, <1>7, <1>8

-----------------------------------------------------------------------------
(* Blocks of lines *)

\* A document's lines
IsText(source) == Len(source) \in Nat /\ DOMAIN source = 1..Len(source)

\* A block ends before its end, where a line is not of it.
LEMMA EndOfIs ==
  ASSUME NEW source, IsText(source), NEW i \in 1..(Len(source) + 1), NEW lines
  PROVE  LET e == EndOf(source, i, lines)
         IN  /\ e \in i..(Len(source) + 1) /\ e \notin lines \cap DOMAIN source
             /\ \A j \in i..(e - 1) : j \in lines /\ j \in DOMAIN source
<1> DEFINE S == i..(Len(source) + 2) \ (lines \cap DOMAIN source)
<1>1. Len(source) \in Nat /\ DOMAIN source = 1..Len(source)
  BY DEF IsText
<1>2. S \in SUBSET Nat /\ Len(source) + 1 \in S
  BY <1>1
<1>3. EndOf(source, i, lines) = Min(S)
  BY DEF EndOf
<1>4. Min(S) \in S /\ \A n \in S : Min(S) <= n
  <2> HIDE DEF S
  <2>1. QED
    BY <1>2, MinIs
<1>5. Min(S) <= Len(source) + 1
  BY <1>2, <1>4
<1>6. ASSUME NEW j \in i..(Min(S) - 1) PROVE j \in lines /\ j \in DOMAIN source
  <2> DEFINE m == Min(S)
  <2>1. m \in i..(Len(source) + 2) /\ m <= Len(source) + 1 /\ \A n \in S : m <= n
    BY <1>4, <1>5
  <2> HIDE DEF m
  <2>2. j \in i..(m - 1)
    BY <1>6 DEF m
  <2>3. j \in i..(Len(source) + 2) /\ j < m
    BY <1>1, <2>1, <2>2
  <2>4. j \notin S
    BY <1>1, <2>1, <2>3
  <2>5. QED
    BY <2>3, <2>4
<1> DEFINE e == EndOf(source, i, lines)
<1>7. e = Min(S) /\ e \in i..(Len(source) + 1) /\ e \notin lines \cap DOMAIN source
  BY <1>1, <1>3, <1>4, <1>5
<1>8. \A j \in i..(e - 1) : j \in lines /\ j \in DOMAIN source
  BY <1>6, <1>7
<1>9. QED
  BY <1>7, <1>8

\* Lines in a row
LEMMA IntervalIs ==
  ASSUME NEW first \in Nat \ {0}, NEW last \in Nat, last + 1 >= first, NEW D, first..last \subseteq D
  PROVE  LET s == Interval(first, last)
         IN  /\ s \in Seq(D) /\ Ordered(s, Less)
             /\ \A k \in DOMAIN s : s[k] \in first..last
             /\ \A l \in first..last : \E k \in DOMAIN s : s[k] = l
             /\ last >= first => s # <<>> /\ s[1] = first
<1> DEFINE s == Interval(first, last)
           n == last + 1 - first
<1>1. n \in Nat /\ s = [k \in 1..n |-> first + k - 1]
  BY DEF Interval
<1>2. DOMAIN s = 1..n /\ \A k \in 1..n : s[k] = first + k - 1 /\ s[k] \in first..last
  BY <1>1
<1>3. s \in Seq(D) /\ Len(s) = n
  BY <1>1, <1>2
<1>4. Ordered(s, Less)
  BY <1>2 DEF Ordered, Less
<1>5. ASSUME NEW l \in first..last PROVE \E k \in DOMAIN s : s[k] = l
  <2>1. l + 1 - first \in 1..n /\ first + (l + 1 - first) - 1 = l
    OBVIOUS
  <2> HIDE DEF n, s
  <2>2. s[l + 1 - first] = l
    BY <1>2, <2>1
  <2>3. QED
    BY <1>2, <2>1, <2>2
<1>6. last >= first => s # <<>> /\ s[1] = first
  <2>1. SUFFICES ASSUME last >= first PROVE s # <<>> /\ s[1] = first
    OBVIOUS
  <2>2. 1 \in 1..n /\ first + 1 - 1 = first /\ n # 0
    BY <2>1
  <2> HIDE DEF s, n
  <2>3. QED
    BY <1>2, <1>3, <2>2
<1>7. QED
  BY <1>2, <1>3, <1>4, <1>5, <1>6

\* The lines from i to before next are in lines, in their order.
Lists(lines, i, next, D) ==
  /\ lines \in Seq(D) /\ Ordered(lines, Less)
  /\ \A k \in DOMAIN lines : lines[k] \in Nat /\ i <= lines[k] /\ lines[k] < next

\* A line is listed.
Listed(lines, l) == \E k \in DOMAIN lines : lines[k] = l

\* The lines of a run that are in S
LEMMA WhereLists ==
  ASSUME NEW lines, NEW i \in Nat, NEW next \in Nat, NEW D, NEW S, Lists(lines, i, next, D)
  PROVE  /\ Lists(Where(lines, S), i, next, D)
         /\ \A k \in DOMAIN Where(lines, S) : Where(lines, S)[k] \in S /\ Listed(lines, Where(lines, S)[k])
         /\ \A l \in S : Listed(lines, l) => Listed(Where(lines, S), l)
<1> DEFINE w == Where(lines, S)
<1>1. lines \in Seq(D) /\ Ordered(lines, Less)
  BY DEF Lists
<1>2. w \in Seq(D) /\ Ordered(w, Less)
  BY <1>1, WhereType, WhereOrdered
<1>3. /\ \A k \in DOMAIN w : w[k] \in S /\ \E n \in DOMAIN lines : lines[n] = w[k]
      /\ \A n \in DOMAIN lines : lines[n] \in S => \E k \in DOMAIN w : w[k] = lines[n]
  BY <1>1, WhereHolds
<1> HIDE DEF w
<1>4. \A k \in DOMAIN w : w[k] \in Nat /\ i <= w[k] /\ w[k] < next
  BY <1>3 DEF Lists
<1>5. QED
  BY <1>2, <1>3, <1>4 DEF Lists, Listed, w

\* Without its first line, others are still listed.
LEMMA TailLists ==
  ASSUME NEW lines, NEW D, lines \in Seq(D), lines # <<>>
  PROVE  /\ Tail(lines) \in Seq(D) /\ (Ordered(lines, Less) => Ordered(Tail(lines), Less))
         /\ \A k \in DOMAIN Tail(lines) : Listed(lines, Tail(lines)[k])
         /\ \A l : Listed(lines, l) /\ l # lines[1] => Listed(Tail(lines), l)
<1> DEFINE t == Tail(lines)
<1>1. /\ Len(lines) \in Nat \ {0} /\ DOMAIN lines = 1..Len(lines)
      /\ t \in Seq(D) /\ DOMAIN t = 1..(Len(lines) - 1)
      /\ \A k \in 1..(Len(lines) - 1) : t[k] = lines[k + 1]
  OBVIOUS
<1> HIDE DEF t
<1>2. \A k \in DOMAIN t : k + 1 \in DOMAIN lines /\ t[k] = lines[k + 1]
  BY <1>1
<1>3. ASSUME Ordered(lines, Less) PROVE Ordered(t, Less)
  <2>1. SUFFICES ASSUME NEW a \in DOMAIN t, NEW b \in DOMAIN t, a < b PROVE <<t[a], t[b]>> \in Less
    BY DEF Ordered
  <2>2. a + 1 < b + 1 /\ a + 1 \in DOMAIN lines /\ b + 1 \in DOMAIN lines
    BY <1>1, <2>1
  <2>3. QED
    BY <1>2, <1>3, <2>2 DEF Ordered
<1>4. ASSUME NEW l, Listed(lines, l), l # lines[1] PROVE Listed(t, l)
  <2>1. PICK k \in DOMAIN lines : lines[k] = l
    BY <1>4 DEF Listed
  <2>2. k - 1 \in DOMAIN t /\ t[k - 1] = lines[k]
    BY <1>1, <1>4, <2>1
  <2>3. QED
    BY <2>1, <2>2 DEF Listed
<1>5. QED
  BY <1>1, <1>2, <1>3, <1>4 DEF Listed, t

-----------------------------------------------------------------------------
(* The blocks of a source *)

\* What is content of a text
TextContent(source, l) == source[l] \in {"text", "item", "row"} /\ KindAt(source, l + 1) \notin {"under", "rule"}

\* A block of the lines from i on has the content of its lines, in their order.
BlockFrom(source, i, b) ==
  /\ b.next \in Nat /\ i < b.next /\ b.next <= Len(source) + 2 /\ b.header \in BOOLEAN
  /\ Lists(b.lines, i, b.next, DOMAIN source)
  /\ \A l \in DOMAIN source : i <= l /\ l < b.next /\ TextContent(source, l) =>
       b.kind # "heading" /\ Listed(Data(b), l)

\* No two rules in a row
Ruled(source) == \A i \in 2..Len(source) : ~(source[i - 1] = "rule" /\ source[i] = "rule")

\* A block that is one line
LEMMA OneLine ==
  ASSUME NEW source, IsText(source), NEW i \in DOMAIN source
  PROVE  Lists(<<i>>, i, i + 1, DOMAIN source) /\ Lists(<<i>>, i, i + 2, DOMAIN source)
<1>1. i \in Nat
  BY DEF IsText
<1>2. <<i>> \in Seq(DOMAIN source) /\ \A k \in DOMAIN <<i>> : <<i>>[k] = i /\ k = 1
  OBVIOUS
<1>3. Ordered(<<i>>, Less)
  BY <1>2 DEF Ordered
<1>4. QED
  BY <1>1, <1>2, <1>3 DEF Lists

\* A run of lines
LEMMA RunLists ==
  ASSUME NEW source, IsText(source), NEW a \in Nat \ {0}, NEW e \in Nat, a <= e, e <= Len(source) + 1
  PROVE  LET s == Interval(a, e - 1)
         IN  /\ Lists(s, a, e, DOMAIN source) /\ \A l \in a..(e - 1) : Listed(s, l)
             /\ a < e => s # <<>> /\ s[1] = a
<1> DEFINE s == Interval(a, e - 1)
<1>1. e - 1 \in Nat /\ (e - 1) + 1 >= a /\ a..(e - 1) \subseteq DOMAIN source
  BY DEF IsText
<1>2. /\ s \in Seq(DOMAIN source) /\ Ordered(s, Less)
      /\ \A k \in DOMAIN s : s[k] \in a..(e - 1)
      /\ \A l \in a..(e - 1) : \E k \in DOMAIN s : s[k] = l
      /\ e - 1 >= a => s # <<>> /\ s[1] = a
  BY <1>1, IntervalIs
<1> HIDE DEF s
<1>3. \A k \in DOMAIN s : s[k] \in Nat /\ a <= s[k] /\ s[k] < e
  BY <1>2
<1>4. a < e => e - 1 >= a
  OBVIOUS
<1>5. QED
  BY <1>2, <1>3, <1>4 DEF Lists, Listed, s
\* A block of a text has the content of its lines, in their order.
LEMMA BlockAtIs ==
  ASSUME NEW source, IsText(source), Ruled(source), NEW i \in DOMAIN source
  PROVE  BlockFrom(source, i, BlockAt(source, i))
<1> DEFINE Block(form, header, lines, next) ==
             [kind |-> form, header |-> header, lines |-> lines, next |-> next]
           OfKinds(kinds) == {j \in DOMAIN source : source[j] \in kinds}
           code == EndOf(source, i + 1, DOMAIN source \ OfKinds({"fence"}))
           table == EndOf(source, i, OfKinds({"row", "rule"}))
           items == EndOf(source, i, OfKinds({"item"}))
           prose == EndOf(source, i + 1, {j \in DOMAIN source : Continues(source, j)})
           rows == Where(Interval(i, table - 1), OfKinds({"row"}))
           b == BlockAt(source, i)
<1>1. i \in Nat \ {0} /\ i \in 1..(Len(source) + 1) /\ i + 1 \in 1..(Len(source) + 1) /\ Len(source) \in Nat
      /\ DOMAIN source = 1..Len(source) /\ i + 1 \in Nat \ {0}
  BY DEF IsText
<1>2. b = CASE source[i] = "blank" -> Block("blank", FALSE, <<>>, i + 1)
            [] source[i] = "heading" -> Block("heading", FALSE, <<i>>, i + 1)
            [] IsSetext(source, i) /\ source[i] # "heading" -> Block("heading", FALSE, <<i>>, i + 2)
            [] source[i] = "fence" /\ ~IsSetext(source, i) ->
                 Block("code", FALSE, Interval(i + 1, code - 1), code + 1)
            [] LooksLikeTable(source, i) -> Block("table", source[i + 1] = "rule", rows, table)
            [] source[i] = "item" /\ ~IsSetext(source, i) -> Block("list", FALSE, Interval(i, items - 1), items)
            [] OTHER -> Block("prose", FALSE, Interval(i, prose - 1), prose)
  BY DEF BlockAt
<1>3. /\ IsSetext(source, i) <=> source[i] # "blank" /\ KindAt(source, i + 1) = "under"
      /\ LooksLikeTable(source, i) <=> source[i] \in {"row", "rule"} /\ KindAt(source, i + 1) \in {"row", "rule"}
  BY DEF IsSetext, LooksLikeTable, KindAt
<1> HIDE DEF b, code, table, items, prose, rows
<1>4. CASE source[i] = "blank"
  <2>1. b = Block("blank", FALSE, <<>>, i + 1)
    BY <1>2, <1>3, <1>4
  <2>2. Lists(<<>>, i, i + 1, DOMAIN source)
    BY DEF Lists, Ordered
  <2>3. QED
    BY <1>1, <1>4, <2>1, <2>2 DEF BlockFrom, TextContent, b
<1>5. CASE source[i] = "heading"
  <2>1. b = Block("heading", FALSE, <<i>>, i + 1)
    BY <1>2, <1>3, <1>5
  <2>2. QED
    BY <1>1, <1>5, <2>1, OneLine DEF BlockFrom, TextContent, b
<1>6. CASE IsSetext(source, i) /\ source[i] # "heading"
  <2>1. b = Block("heading", FALSE, <<i>>, i + 2)
    BY <1>2, <1>3, <1>6
  <2>2. ASSUME NEW l \in DOMAIN source, i <= l, l < i + 2 PROVE ~ TextContent(source, l)
    <3>1. l = i \/ l = i + 1
      BY <1>1, <2>2
    <3>2. l = i + 1 => source[l] = "under"
      BY <1>3, <1>6, <2>2 DEF KindAt
    <3>3. QED
      BY <1>3, <1>6, <3>1, <3>2 DEF TextContent
  <2>3. QED
    BY <1>1, <2>1, <2>2, OneLine DEF BlockFrom, b
<1>7. CASE source[i] = "fence" /\ ~ IsSetext(source, i)
  <2> DEFINE s == Interval(i + 1, code - 1)
  <2>1. b = Block("code", FALSE, s, code + 1)
    BY <1>2, <1>3, <1>7
  <2>2. /\ code \in (i + 1)..(Len(source) + 1)
        /\ code \notin (DOMAIN source \ OfKinds({"fence"})) \cap DOMAIN source
    BY <1>1, EndOfIs DEF code
  <2>3. code \in Nat /\ i + 1 <= code /\ code <= Len(source) + 1
    BY <1>1, <2>2
  <2>4. Lists(s, i + 1, code, DOMAIN source) /\ \A l \in (i + 1)..(code - 1) : Listed(s, l)
    BY <1>1, <2>3, RunLists
  <2> HIDE DEF s
  <2>5. Lists(s, i, code + 1, DOMAIN source)
    BY <1>1, <2>3, <2>4 DEF Lists
  <2>6. ASSUME NEW l \in DOMAIN source, i <= l, l < code + 1, TextContent(source, l) PROVE Listed(s, l)
    <3>1. l # i
      BY <1>7, <2>6 DEF TextContent
    <3>2. l # code
      BY <2>2, <2>6 DEF TextContent
    <3>3. l \in (i + 1)..(code - 1)
      BY <1>1, <2>3, <2>6, <3>1, <3>2
    <3>4. QED
      BY <2>4, <3>3
  <2>7. b.kind = "code" /\ Data(b) = s /\ b.lines = s /\ b.next = code + 1 /\ b.header = FALSE
    BY <2>1 DEF Data
  <2>8. code + 1 \in Nat /\ i < code + 1 /\ code + 1 <= Len(source) + 2
    BY <1>1, <2>3
  <2>9. QED
    BY <2>5, <2>6, <2>7, <2>8 DEF BlockFrom, b
<1>8. CASE LooksLikeTable(source, i)
  <2> DEFINE s == Interval(i, table - 1)
  <2>1. b = Block("table", source[i + 1] = "rule", rows, table)
    BY <1>2, <1>3, <1>8
  <2>2. /\ table \in i..(Len(source) + 1) /\ table \notin OfKinds({"row", "rule"}) \cap DOMAIN source
        /\ \A j \in i..(table - 1) : j \in OfKinds({"row", "rule"})
    BY <1>1, EndOfIs DEF table
  <2>3. table \in Nat /\ i < table /\ table <= Len(source) + 1
    <3>1. i \in OfKinds({"row", "rule"}) \cap DOMAIN source
      BY <1>3, <1>8
    <3>2. QED
      BY <1>1, <2>2, <3>1
  <2>4. Lists(s, i, table, DOMAIN source) /\ \A l \in i..(table - 1) : Listed(s, l)
    BY <1>1, <2>3, RunLists
  <2> HIDE DEF s
  <2>5. /\ Lists(rows, i, table, DOMAIN source)
        /\ \A k \in DOMAIN rows : rows[k] \in OfKinds({"row"}) /\ Listed(s, rows[k])
        /\ \A l \in OfKinds({"row"}) : Listed(s, l) => Listed(rows, l)
    BY <1>1, <2>3, <2>4, WhereLists DEF rows, s
  <2>6. ASSUME NEW l \in DOMAIN source, i <= l, l < table, TextContent(source, l)
        PROVE  Listed(rows, l) /\ KindAt(source, l + 1) # "rule"
    <3>1. l \in i..(table - 1) /\ Listed(s, l)
      BY <1>1, <2>3, <2>4, <2>6
    <3>2. l \in OfKinds({"row", "rule"})
      BY <2>2, <3>1
    <3>3. l \in OfKinds({"row"})
      BY <2>6, <3>2 DEF TextContent
    <3>4. QED
      BY <2>5, <2>6, <3>1, <3>3 DEF TextContent
  <2>7. b.kind = "table" /\ b.lines = rows /\ b.next = table /\ b.header = (source[i + 1] = "rule")
    BY <2>1
  <2>8. ASSUME NEW l \in DOMAIN source, i <= l, l < table, TextContent(source, l), source[i + 1] = "rule"
        PROVE  Listed(Tail(rows), l)
    <3>1. Listed(rows, l) /\ rows \in Seq(DOMAIN source) /\ rows # <<>>
      BY <2>5, <2>6, <2>8 DEF Listed, Lists
    <3>2. i + 1 \in DOMAIN source /\ source[i] # "rule"
      <4>1. i + 1 \in DOMAIN source
        BY <1>3, <1>8 DEF KindAt
      <4>2. i + 1 \in 2..Len(source) /\ (i + 1) - 1 = i
        BY <1>1, <4>1
      <4>3. QED
        BY <2>8, <4>1, <4>2 DEF Ruled
    <3>3. i \in OfKinds({"row"}) /\ Listed(s, i)
      <4>1. i \in i..(table - 1)
        BY <1>1, <2>3
      <4>2. QED
        BY <1>3, <1>8, <2>4, <3>2, <4>1
    <3>4. rows[1] = i
      <4>1. PICK k \in DOMAIN rows : rows[k] = i
        BY <2>5, <3>3 DEF Listed
      <4>2. 1 \in DOMAIN rows /\ k \in Nat /\ 1 <= k
        BY <3>1
      <4>3. i <= rows[1] /\ (1 < k => rows[1] < rows[k]) /\ rows[1] \in Nat
        BY <2>5, <4>1, <4>2 DEF Lists, Ordered, Less
      <4>4. QED
        BY <1>1, <4>1, <4>2, <4>3
    <3>5. l # i
      <4>1. KindAt(source, i + 1) = "rule"
        BY <2>8, <3>2 DEF KindAt
      <4>2. QED
        BY <2>6, <2>8, <4>1
    <3>6. QED
      BY <3>1, <3>4, <3>5, TailLists
  <2>9. ASSUME NEW l \in DOMAIN source, i <= l, l < table, TextContent(source, l) PROVE Listed(Data(b), l)
    <3>1. Data(b) = IF source[i + 1] = "rule" /\ rows # <<>> THEN Tail(rows) ELSE rows
      BY <2>7 DEF Data
    <3>2. QED
      BY <2>6, <2>8, <2>9, <3>1
  <2>10. QED
    BY <1>1, <2>3, <2>5, <2>7, <2>9 DEF BlockFrom, b
<1>9. CASE source[i] = "item" /\ ~ IsSetext(source, i)
  <2> DEFINE s == Interval(i, items - 1)
  <2>1. b = Block("list", FALSE, s, items)
    BY <1>2, <1>3, <1>9
  <2>2. items \in i..(Len(source) + 1) /\ items \notin OfKinds({"item"}) \cap DOMAIN source
    BY <1>1, EndOfIs DEF items
  <2>3. items \in Nat /\ i < items /\ items <= Len(source) + 1
    <3>1. i \in OfKinds({"item"}) \cap DOMAIN source
      BY <1>9
    <3>2. QED
      BY <1>1, <2>2, <3>1
  <2>4. Lists(s, i, items, DOMAIN source) /\ \A l \in i..(items - 1) : Listed(s, l)
    BY <1>1, <2>3, RunLists
  <2> HIDE DEF s
  <2>5. ASSUME NEW l \in DOMAIN source, i <= l, l < items PROVE Listed(s, l)
    <3>1. l \in i..(items - 1)
      BY <1>1, <2>3, <2>5
    <3>2. QED
      BY <2>4, <3>1
  <2>6. b.kind = "list" /\ Data(b) = s /\ b.lines = s /\ b.next = items /\ b.header = FALSE
    BY <2>1 DEF Data
  <2>7. items <= Len(source) + 2
    BY <1>1, <2>3
  <2>8. QED
    BY <2>3, <2>4, <2>5, <2>6, <2>7 DEF BlockFrom, b
<1>10. CASE /\ source[i] \notin {"blank", "heading"} /\ ~ IsSetext(source, i) /\ ~ LooksLikeTable(source, i)
            /\ source[i] \notin {"fence", "item"}
  <2> DEFINE s == Interval(i, prose - 1)
  <2>1. b = Block("prose", FALSE, s, prose)
    BY <1>2, <1>10
  <2>2. prose \in (i + 1)..(Len(source) + 1)
    BY <1>1, EndOfIs DEF prose
  <2>3. prose \in Nat /\ i < prose /\ prose <= Len(source) + 1
    BY <1>1, <2>2
  <2>4. Lists(s, i, prose, DOMAIN source) /\ \A l \in i..(prose - 1) : Listed(s, l)
    BY <1>1, <2>3, RunLists
  <2> HIDE DEF s
  <2>5. ASSUME NEW l \in DOMAIN source, i <= l, l < prose PROVE Listed(s, l)
    <3>1. l \in i..(prose - 1)
      BY <1>1, <2>3, <2>5
    <3>2. QED
      BY <2>4, <3>1
  <2>6. b.kind = "prose" /\ Data(b) = s /\ b.lines = s /\ b.next = prose /\ b.header = FALSE
    BY <2>1 DEF Data
  <2>7. prose <= Len(source) + 2
    BY <1>1, <2>3
  <2>8. QED
    BY <2>3, <2>4, <2>5, <2>6, <2>7 DEF BlockFrom, b
<1>11. \/ source[i] = "blank" \/ source[i] = "heading" \/ (IsSetext(source, i) /\ source[i] # "heading")
       \/ (source[i] = "fence" /\ ~ IsSetext(source, i)) \/ LooksLikeTable(source, i)
       \/ (source[i] = "item" /\ ~ IsSetext(source, i))
       \/ (/\ source[i] \notin {"blank", "heading"} /\ ~ IsSetext(source, i) /\ ~ LooksLikeTable(source, i)
            /\ source[i] \notin {"fence", "item"})
  BY <1>3
<1>12. QED
  BY <1>4, <1>5, <1>6, <1>7, <1>8, <1>9, <1>10, <1>11

\* The lines of the first are before those of the second.
Before(T) ==
  {pair \in T \X T : \A a \in DOMAIN pair[1].lines, c \in DOMAIN pair[2].lines :
                       pair[1].lines[a] < pair[2].lines[c]}

\* A block of lines of D from i on
BlockIn(b, i, D) ==
  /\ b.header \in BOOLEAN /\ b.lines \in Seq(D) /\ Ordered(b.lines, Less)
  /\ \A k \in DOMAIN b.lines : b.lines[k] \in Nat /\ i <= b.lines[k]

\* A line is data of a block.
IsData(bs, l) == \E n \in DOMAIN bs : bs[n].kind # "heading" /\ Listed(Data(bs[n]), l)

\* Blocks in the order of their lines, with all lines of C from i on
BlocksHold(bs, T, i, C, D) ==
  /\ bs \in Seq(T) /\ Ordered(bs, Before(T))
  /\ \A n \in DOMAIN bs : BlockIn(bs[n], i, D)
  /\ \A l \in C : i <= l => IsData(bs, l)

\* One more ahead
LEMMA AheadIs ==
  ASSUME NEW T, NEW b \in T, NEW bs \in Seq(T)
  PROVE  /\ <<b>> \o bs \in Seq(T) /\ Len(<<b>> \o bs) = 1 + Len(bs) /\ (<<b>> \o bs)[1] = b
         /\ \A n \in 1..Len(bs) : (<<b>> \o bs)[n + 1] = bs[n]
OBVIOUS

\* A block, and those of the lines behind it
LEMMA BlocksMore ==
  ASSUME NEW source, IsText(source), NEW T, NEW b \in T, NEW bs, NEW i \in Nat,
         BlockFrom(source, i, b),
         BlocksHold(bs, T, b.next, {l \in DOMAIN source : TextContent(source, l)}, DOMAIN source)
  PROVE  BlocksHold(<<b>> \o bs, T, i, {l \in DOMAIN source : TextContent(source, l)}, DOMAIN source)
<1> DEFINE C == {l \in DOMAIN source : TextContent(source, l)}
           one == <<b>>
           all == one \o bs
<1>1. /\ bs \in Seq(T) /\ Ordered(bs, Before(T))
      /\ \A n \in DOMAIN bs : BlockIn(bs[n], b.next, DOMAIN source)
      /\ \A l \in C : b.next <= l => IsData(bs, l)
  BY DEF BlocksHold
<1>2. /\ b.next \in Nat /\ i < b.next /\ BlockIn(b, i, DOMAIN source)
      /\ \A k \in DOMAIN b.lines : b.lines[k] < b.next
      /\ \A l \in C : i <= l /\ l < b.next => b.kind # "heading" /\ Listed(Data(b), l)
  BY DEF BlockFrom, BlockIn, Lists
<1>3. one \in Seq(T) /\ Ordered(one, Before(T)) /\ DOMAIN one = {1} /\ one[1] = b /\ Len(one) = 1
  <2>1. one \in Seq(T) /\ DOMAIN one = {1} /\ one[1] = b /\ Len(one) = 1
    OBVIOUS
  <2> HIDE DEF one
  <2>2. Ordered(one, Before(T))
    BY <2>1 DEF Ordered
  <2>3. QED
    BY <2>1, <2>2
<1> HIDE DEF one
<1>4. /\ all \in Seq(T) /\ DOMAIN all = 1..(1 + Len(bs)) /\ all[1] = b
      /\ \A n \in DOMAIN bs : n + 1 \in DOMAIN all /\ all[n + 1] = bs[n]
      /\ \A n \in DOMAIN all : n = 1 \/ (n - 1 \in DOMAIN bs /\ all[n] = bs[n - 1])
  <2>1. /\ all \in Seq(T) /\ Len(all) = 1 + Len(bs) /\ all[1] = b
        /\ \A n \in 1..Len(bs) : all[n + 1] = bs[n]
    BY <1>1, AheadIs DEF one
  <2> HIDE DEF all
  <2>2. Len(bs) \in Nat /\ DOMAIN bs = 1..Len(bs) /\ DOMAIN all = 1..(1 + Len(bs))
    BY <1>1, <2>1
  <2>3. ASSUME NEW n \in DOMAIN all, n # 1 PROVE n - 1 \in DOMAIN bs /\ all[n] = bs[n - 1]
    <3>1. n - 1 \in 1..Len(bs) /\ (n - 1) + 1 = n
      BY <2>2, <2>3
    <3>2. QED
      BY <2>1, <2>2, <3>1
  <2>4. \A n \in DOMAIN bs : n + 1 \in DOMAIN all /\ all[n + 1] = bs[n]
    BY <2>1, <2>2
  <2>5. QED
    BY <2>1, <2>2, <2>3, <2>4
<1>5. Ordered(all, Before(T))
  <2>1. ASSUME NEW n \in DOMAIN bs PROVE <<b, bs[n]>> \in Before(T)
    <3>1. BlockIn(bs[n], b.next, DOMAIN source) /\ bs[n] \in T
      BY <1>1
    <3>2. \A a \in DOMAIN b.lines, c \in DOMAIN bs[n].lines : b.lines[a] < bs[n].lines[c]
      BY <1>2, <3>1 DEF BlockIn
    <3>3. QED
      BY <3>1, <3>2 DEF Before
  <2>2. \A a \in DOMAIN one, c \in DOMAIN bs : <<one[a], bs[c]>> \in Before(T)
    BY <1>3, <2>1
  <2>3. QED
    BY <1>1, <1>3, <2>2, OrderedConcat
<1> HIDE DEF all, C
<1>6. ASSUME NEW n \in DOMAIN all PROVE BlockIn(all[n], i, DOMAIN source)
  <2>1. CASE n = 1
    BY <1>2, <1>4, <2>1
  <2>2. CASE n # 1
    <3>1. n - 1 \in DOMAIN bs /\ all[n] = bs[n - 1]
      BY <1>4, <2>2
    <3>2. BlockIn(bs[n - 1], b.next, DOMAIN source)
      BY <1>1, <3>1
    <3>3. QED
      BY <1>2, <3>1, <3>2 DEF BlockIn
  <2>3. QED
    BY <2>1, <2>2
<1>7. ASSUME NEW l \in C, i <= l PROVE IsData(all, l)
  <2>1. l \in Nat
    BY <1>7 DEF C, IsText
  <2>2. CASE l < b.next
    <3>1. b.kind # "heading" /\ Listed(Data(b), l)
      BY <1>2, <1>7, <2>2 DEF C
    <3>2. 1 \in DOMAIN all
      BY <1>1, <1>4
    <3>3. QED
      BY <1>4, <3>1, <3>2 DEF IsData
  <2>3. CASE b.next <= l
    <3>1. PICK n \in DOMAIN bs : bs[n].kind # "heading" /\ Listed(Data(bs[n]), l)
      BY <1>1, <1>7, <2>3 DEF IsData
    <3>2. n + 1 \in DOMAIN all /\ all[n + 1] = bs[n]
      BY <1>4
    <3>3. QED
      BY <3>1, <3>2 DEF IsData
  <2>4. QED
    BY <1>2, <2>1, <2>2, <2>3
<1>8. QED
  BY <1>4, <1>5, <1>6, <1>7 DEF BlocksHold, all, C

\* f[i] is the blocks of the lines from i on, for i from k on.
ReadsFrom(f, source, k) ==
  f = [i \in k..(Len(source) + 3) |->
         IF i > Len(source) THEN <<>> ELSE <<BlockAt(source, i)>> \o f[BlockAt(source, i).next]]

\* The recursive definition of TextBlocks defines a function.
LEMMA ReadsExist ==
  ASSUME NEW source, IsText(source), Ruled(source)
  PROVE  \E f : ReadsFrom(f, source, 1)
<1> DEFINE top == Len(source) + 3
           S == {n \in Nat : n < top => \E f : ReadsFrom(f, source, top - n)}
<1>1. Len(source) \in Nat /\ top \in Nat /\ DOMAIN source = 1..Len(source)
  BY DEF IsText
<1>2. 0 \in S
  <2> DEFINE f == [i \in top..top |-> <<>>]
  <2>1. ReadsFrom(f, source, top)
    BY <1>1 DEF ReadsFrom
  <2>2. top - 0 = top
    BY <1>1
  <2> HIDE DEF f
  <2>3. QED
    BY <2>1, <2>2
<1>3. ASSUME NEW n \in Nat, n \in S PROVE n + 1 \in S
  <2>1. SUFFICES ASSUME n + 1 < top PROVE \E f : ReadsFrom(f, source, top - (n + 1))
    OBVIOUS
  <2> DEFINE k == top - n
             j == top - (n + 1)
  <2>2. PICK f : ReadsFrom(f, source, k)
    BY <1>1, <1>3, <2>1
  <2>3. k \in Nat /\ j \in Nat \ {0} /\ k = j + 1 /\ k <= top
    BY <1>1, <2>1
  <2> HIDE DEF k, j
  <2> DEFINE next(i) == BlockAt(source, i).next
             at == IF j > Len(source) THEN <<>> ELSE <<BlockAt(source, j)>> \o f[next(j)]
             g == [i \in j..top |-> IF i = j THEN at ELSE f[i]]
  <2>4. ASSUME NEW i \in j..top, i <= Len(source) PROVE next(i) \in (i + 1)..top
    <3>1. i \in DOMAIN source
      BY <1>1, <2>3, <2>4
    <3>2. BlockFrom(source, i, BlockAt(source, i))
      BY <3>1, BlockAtIs
    <3>3. QED
      BY <1>1, <2>3, <3>2 DEF BlockFrom
  <2>5. ASSUME NEW i \in j..top
        PROVE  g[i] = IF i > Len(source) THEN <<>> ELSE <<BlockAt(source, i)>> \o g[next(i)]
    <3>1. i <= Len(source) => next(i) # j /\ next(i) \in j..top /\ g[next(i)] = f[next(i)]
      BY <1>1, <2>3, <2>4
    <3>2. CASE i = j
      <4>1. g[i] = at
        BY <3>2
      <4> HIDE DEF g
      <4>2. QED
        BY <1>1, <2>3, <3>1, <3>2, <4>1
    <3>3. CASE i # j
      <4>1. i \in k..top /\ g[i] = f[i]
        BY <1>1, <2>3, <3>3
      <4>2. f[i] = IF i > Len(source) THEN <<>> ELSE <<BlockAt(source, i)>> \o f[next(i)]
        BY <2>2, <4>1 DEF ReadsFrom
      <4> HIDE DEF g
      <4>3. QED
        BY <1>1, <2>3, <3>1, <4>1, <4>2
    <3>4. QED
      BY <3>2, <3>3
  <2>6. g = [i \in j..top |-> g[i]]
    OBVIOUS
  <2> HIDE DEF g
  <2>7. ReadsFrom(g, source, j)
    BY <2>5, <2>6 DEF ReadsFrom
  <2>8. QED
    BY <2>7 DEF j
<1> HIDE DEF S
<1>4. Len(source) + 2 \in S
  BY <1>1, <1>2, <1>3, Induct
<1>5. Len(source) + 2 < top /\ top - (Len(source) + 2) = 1
  BY <1>1
<1>6. QED
  BY <1>4, <1>5 DEF S

\* The blocks of a text have its content, in its order.
LEMMA TextBlocksHold ==
  ASSUME NEW source, IsText(source), Ruled(source)
  PROVE  \E T : BlocksHold(TextBlocks(source), T, 1, {l \in DOMAIN source : TextContent(source, l)}, DOMAIN source)
<1> DEFINE top == Len(source) + 3
           F == CHOOSE f : f = [i \in 1..top |->
                  IF i > Len(source) THEN <<>> ELSE <<BlockAt(source, i)>> \o f[BlockAt(source, i).next]]
           T == {BlockAt(source, i) : i \in DOMAIN source}
           C == {l \in DOMAIN source : TextContent(source, l)}
           S == {n \in Nat : n < top => BlocksHold(F[top - n], T, top - n, C, DOMAIN source)}
<1>1. Len(source) \in Nat /\ top \in Nat /\ DOMAIN source = 1..Len(source)
  BY DEF IsText
<1>2. F = [i \in 1..top |-> IF i > Len(source) THEN <<>> ELSE <<BlockAt(source, i)>> \o F[BlockAt(source, i).next]]
  <2>1. \E f : f = [i \in 1..top |->
                  IF i > Len(source) THEN <<>> ELSE <<BlockAt(source, i)>> \o f[BlockAt(source, i).next]]
    BY ReadsExist DEF ReadsFrom
  <2>2. QED
    BY <2>1, Zenon
<1>3. TextBlocks(source) = F[1]
  BY DEF TextBlocks
<1> HIDE DEF F
<1>4. \A i \in 1..top : F[i] = IF i > Len(source) THEN <<>> ELSE <<BlockAt(source, i)>> \o F[BlockAt(source, i).next]
  BY <1>2
<1>5. ASSUME NEW i \in 1..top, i > Len(source) PROVE BlocksHold(F[i], T, i, C, DOMAIN source)
  <2>1. F[i] = <<>>
    BY <1>4, <1>5
  <2>2. \A l \in C : ~ (i <= l)
    BY <1>1, <1>5
  <2> HIDE DEF T, C
  <2>3. QED
    BY <2>1, <2>2 DEF BlocksHold, Ordered
\* All that starts later holds what is behind it.
<1>6. ASSUME NEW n \in Nat, \A m \in 0..n : m \in S PROVE n + 1 \in S
  <2>1. SUFFICES ASSUME n + 1 < top PROVE BlocksHold(F[top - (n + 1)], T, top - (n + 1), C, DOMAIN source)
    OBVIOUS
  <2> DEFINE i == top - (n + 1)
             b == BlockAt(source, i)
  <2>2. i \in 1..top /\ i \in Nat
    BY <1>1, <2>1
  <2>3. CASE i > Len(source)
    BY <1>5, <2>2, <2>3
  <2>4. CASE i <= Len(source)
    <3>1. i \in DOMAIN source
      BY <1>1, <2>2, <2>4
    <3>2. BlockFrom(source, i, b) /\ b \in T
      BY <3>1, BlockAtIs
    <3>3. F[i] = <<b>> \o F[b.next]
      <4> HIDE DEF i
      <4>1. F[i] = IF i > Len(source) THEN <<>> ELSE <<b>> \o F[b.next]
        BY <1>4, <2>2
      <4> HIDE DEF b
      <4>2. ~ (i > Len(source))
        BY <1>1, <2>2, <2>4
      <4>3. QED
        BY <4>1, <4>2
    <3>4. b.next \in (i + 1)..(Len(source) + 2)
      BY <1>1, <2>2, <3>2 DEF BlockFrom
    <3> HIDE DEF b
    <3>5. top - b.next \in 0..n /\ top - b.next < top /\ top - (top - b.next) = b.next
      BY <1>1, <2>1, <3>4
    <3>6. top - b.next \in S
      BY <1>6, <3>5
    <3>7. BlocksHold(F[b.next], T, b.next, C, DOMAIN source)
      BY <3>5, <3>6
    <3> HIDE DEF T, i
    <3>8. BlocksHold(<<b>> \o F[b.next], T, i, C, DOMAIN source)
      BY <2>2, <3>2, <3>7, BlocksMore
    <3>9. QED
      BY <3>3, <3>8 DEF i
  <2>5. QED
    BY <1>1, <2>2, <2>3, <2>4
<1>7. 0 \in S
  <2>1. top \in 1..top /\ top > Len(source) /\ top - 0 = top
    BY <1>1
  <2>2. BlocksHold(F[top], T, top, C, DOMAIN source)
    BY <1>5, <2>1
  <2> HIDE DEF T, C
  <2>3. QED
    BY <2>1, <2>2
<1> DEFINE All == {n \in Nat : \A m \in 0..n : m \in S}
<1> HIDE DEF S
<1>8. 0 \in All
  BY <1>7
<1>9. ASSUME NEW n \in Nat, n \in All PROVE n + 1 \in All
  <2>1. n + 1 \in S
    BY <1>6, <1>9
  <2>2. \A m \in 0..(n + 1) : m \in 0..n \/ m = n + 1
    OBVIOUS
  <2>3. QED
    BY <1>9, <2>1, <2>2
<1> HIDE DEF All
<1>10. Len(source) + 2 \in All
  BY <1>1, <1>8, <1>9, Induct
<1>11. Len(source) + 2 \in S /\ Len(source) + 2 < top /\ top - (Len(source) + 2) = 1
  BY <1>1, <1>10 DEF All
<1>12. BlocksHold(F[1], T, 1, C, DOMAIN source)
  BY <1>11 DEF S
<1> HIDE DEF T
<1>13. QED
  BY <1>3, <1>12

-----------------------------------------------------------------------------
(* The blocks of files *)

\* A flattening has what its sequences have.
LEMMA FlattenHas ==
  ASSUME NEW T, NEW s \in Seq(Seq(T)), NEW n \in DOMAIN s, NEW k \in DOMAIN s[n]
  PROVE  \E i \in DOMAIN FlattenSeq(s) : FlattenSeq(s)[i] = s[n][k]
<1> DEFINE Has(u) == \A a \in DOMAIN u : \A b \in DOMAIN u[a] :
                       \E i \in DOMAIN FlattenSeq(u) : FlattenSeq(u)[i] = u[a][b]
           S == {u \in Seq(Seq(T)) : Has(u)}
<1>1. <<>> \in S
  OBVIOUS
<1>2. ASSUME NEW u \in Seq(Seq(T)), NEW x \in Seq(T), u \in S PROVE Append(u, x) \in S
  <2> DEFINE w == Append(u, x)
             F == FlattenSeq(u)
  <2>1. FlattenSeq(w) = F \o x
    BY FlattenAppend
  <2>2. F \in Seq(T)
    BY FlattenType
  <2>3. /\ w \in Seq(Seq(T)) /\ DOMAIN w = 1..(Len(u) + 1) /\ Len(u) \in Nat /\ DOMAIN u = 1..Len(u)
        /\ w[Len(u) + 1] = x /\ \A a \in DOMAIN u : w[a] = u[a]
    OBVIOUS
  <2>4. Has(u)
    BY <1>2
  <2> HIDE DEF w, F
  <2>5. /\ \A i \in DOMAIN F : i \in DOMAIN (F \o x) /\ (F \o x)[i] = F[i]
        /\ \A i \in DOMAIN x : Len(F) + i \in DOMAIN (F \o x) /\ (F \o x)[Len(F) + i] = x[i]
    BY <2>2
  <2>6. ASSUME NEW a \in DOMAIN w, NEW b \in DOMAIN w[a]
        PROVE  \E i \in DOMAIN (F \o x) : (F \o x)[i] = w[a][b]
    <3>1. CASE a = Len(u) + 1
      BY <2>3, <2>5, <3>1
    <3>2. CASE a # Len(u) + 1
      <4>1. a \in DOMAIN u /\ w[a] = u[a]
        BY <2>3, <3>2
      <4>2. PICK i \in DOMAIN F : F[i] = u[a][b]
        BY <2>4, <4>1 DEF F
      <4>3. QED
        BY <2>5, <4>1, <4>2
    <3>3. QED
      BY <3>1, <3>2
  <2>7. Has(w)
    BY <2>1, <2>6
  <2>8. QED
    BY <2>3, <2>7 DEF w
<1> HIDE DEF S
<1>3. Seq(Seq(T)) \subseteq S
  BY <1>1, <1>2, SeqInduct
<1>4. QED
  BY <1>3 DEF S

\* Blocks found line by line, those of each before where the next begin
LEMMA FilesHold ==
  ASSUME NEW source, IsText(source), NEW T, NEW f \in [DOMAIN source -> Seq(T)], NEW e, NEW C,
         \A i \in DOMAIN source : Ordered(f[i], Before(T)),
         \A i \in DOMAIN source : \A n \in DOMAIN f[i] :
           f[i][n].header \in BOOLEAN /\ Lists(f[i][n].lines, i, e[i], DOMAIN source),
         \A i, j \in DOMAIN source : i < j /\ f[j] # <<>> => e[i] \in Nat /\ e[i] <= j,
         \A l \in C : \E i \in DOMAIN source : IsData(f[i], l)
  PROVE  BlocksHold(FlattenSeq(f), T, 1, C, DOMAIN source)
<1> DEFINE bs == FlattenSeq(f)
<1>1. f \in Seq(Seq(T)) /\ DOMAIN f = DOMAIN source /\ DOMAIN source \subseteq Nat \ {0}
  BY DEF IsText
<1>2. bs \in Seq(T)
  BY <1>1, FlattenType
<1>3. ASSUME NEW i \in DOMAIN source, NEW j \in DOMAIN source, i < j, NEW n \in DOMAIN f[i], NEW m \in DOMAIN f[j]
      PROVE  <<f[i][n], f[j][m]>> \in Before(T)
  <2>1. f[i] \in Seq(T) /\ f[j] \in Seq(T) /\ f[j] # <<>>
    OBVIOUS
  <2>2. e[i] \in Nat /\ e[i] <= j /\ i \in Nat /\ j \in Nat
    BY <1>1, <1>3, <2>1
  <2>3. Lists(f[i][n].lines, i, e[i], DOMAIN source) /\ Lists(f[j][m].lines, j, e[j], DOMAIN source)
    OBVIOUS
  <2>4. \A a \in DOMAIN f[i][n].lines, c \in DOMAIN f[j][m].lines : f[i][n].lines[a] < f[j][m].lines[c]
    BY <2>2, <2>3 DEF Lists
  <2>5. f[i][n] \in T /\ f[j][m] \in T
    BY <2>1
  <2>6. QED
    BY <2>4, <2>5 DEF Before
<1>4. Ordered(bs, Before(T))
  BY <1>1, <1>3, FlattenOrdered
<1>5. \A k \in DOMAIN bs : \E i \in DOMAIN f : \E n \in DOMAIN f[i] : bs[k] = f[i][n]
  BY <1>1, FlattenHolds
<1>6. \A i \in DOMAIN f : \A n \in DOMAIN f[i] : \E k \in DOMAIN bs : bs[k] = f[i][n]
  BY <1>1, FlattenHas
<1> HIDE DEF bs
<1>7. ASSUME NEW k \in DOMAIN bs PROVE BlockIn(bs[k], 1, DOMAIN source)
  <2>1. PICK i \in DOMAIN f : \E n \in DOMAIN f[i] : bs[k] = f[i][n]
    BY <1>5
  <2>2. PICK n \in DOMAIN f[i] : bs[k] = f[i][n]
    BY <2>1
  <2>3. bs[k].header \in BOOLEAN /\ Lists(bs[k].lines, i, e[i], DOMAIN source) /\ i \in Nat /\ 1 <= i
    BY <1>1, <2>2
  <2>4. QED
    BY <2>3 DEF BlockIn, Lists
<1>8. ASSUME NEW l \in C PROVE IsData(bs, l)
  <2>1. PICK i \in DOMAIN source : IsData(f[i], l)
    OBVIOUS
  <2>2. PICK n \in DOMAIN f[i] : f[i][n].kind # "heading" /\ Listed(Data(f[i][n]), l)
    BY <2>1 DEF IsData
  <2>3. PICK k \in DOMAIN bs : bs[k] = f[i][n]
    BY <1>1, <1>6
  <2>4. QED
    BY <2>2, <2>3 DEF IsData
<1>9. QED
  BY <1>2, <1>4, <1>7, <1>8 DEF BlocksHold, bs

\* Lines of these kinds
OfKinds(source, kinds) == {j \in DOMAIN source : source[j] \in kinds}

\* A run goes from its first line to its end.
LEMMA RunIs ==
  ASSUME NEW source, IsText(source), NEW kinds, NEW i \in 1..(Len(source) + 1)
  PROVE  LET e == EndOf(source, i, OfKinds(source, kinds))
         IN  /\ e \in Nat /\ i <= e /\ e <= Len(source) + 1 /\ Run(source, i, kinds) = Interval(i, e - 1)
             /\ Lists(Run(source, i, kinds), i, e, DOMAIN source)
             /\ \A j \in DOMAIN source : i <= j /\ j < e => source[j] \in kinds /\ Listed(Run(source, i, kinds), j)
             /\ e \in DOMAIN source => source[e] \notin kinds
             /\ i < e => Run(source, i, kinds) # <<>> /\ Run(source, i, kinds)[1] = i
<1> DEFINE e == EndOf(source, i, OfKinds(source, kinds))
<1>1. e \in i..(Len(source) + 1) /\ e \notin OfKinds(source, kinds) \cap DOMAIN source
      /\ \A j \in i..(e - 1) : j \in OfKinds(source, kinds)
  BY EndOfIs
<1>2. Run(source, i, kinds) = Interval(i, e - 1)
  BY DEF Run, OfKinds
<1> HIDE DEF e
<1>3. i \in Nat \ {0} /\ e \in Nat /\ i <= e /\ e <= Len(source) + 1 /\ DOMAIN source \subseteq Nat
  BY <1>1 DEF IsText
<1>4. /\ Lists(Interval(i, e - 1), i, e, DOMAIN source) /\ \A l \in i..(e - 1) : Listed(Interval(i, e - 1), l)
      /\ i < e => Interval(i, e - 1) # <<>> /\ Interval(i, e - 1)[1] = i
  BY <1>3, RunLists
<1>5. ASSUME NEW j \in DOMAIN source, i <= j, j < e
      PROVE  source[j] \in kinds /\ Listed(Interval(i, e - 1), j)
  <2>1. j \in i..(e - 1)
    BY <1>3, <1>5
  <2>2. QED
    BY <1>1, <1>4, <2>1 DEF OfKinds
<1>6. e \in DOMAIN source => source[e] \notin kinds
  BY <1>1 DEF OfKinds
<1>7. QED
  BY <1>2, <1>3, <1>4, <1>5, <1>6 DEF e

\* A line of these kinds is in the run that begins where none is before.
LEMMA RunStart ==
  ASSUME NEW source, IsText(source), NEW kinds, "blank" \notin kinds, NEW l \in DOMAIN source, source[l] \in kinds
  PROVE  \E i \in DOMAIN source :
           /\ i <= l /\ source[i] \in kinds /\ KindAt(source, i - 1) \notin kinds
           /\ l < EndOf(source, i, OfKinds(source, kinds))
<1> DEFINE A == {a \in 1..l : \A j \in a..l : source[j] \in kinds}
<1>1. Len(source) \in Nat /\ DOMAIN source = 1..Len(source)
  BY DEF IsText
<1>2. A \in SUBSET Nat /\ l \in A
  BY <1>1
<1>3. PICK i \in A : \A m \in A : i <= m
  BY <1>2, LeastNumber
<1>4. i \in 1..l /\ \A j \in i..l : source[j] \in kinds
  BY <1>3
<1>5. i \in DOMAIN source /\ i <= l /\ source[i] \in kinds
  BY <1>1, <1>4
<1>6. KindAt(source, i - 1) \notin kinds
  <2>1. SUFFICES ASSUME KindAt(source, i - 1) \in kinds PROVE FALSE
    OBVIOUS
  <2>2. i - 1 \in DOMAIN source /\ source[i - 1] \in kinds
    BY <2>1 DEF KindAt
  <2>3. \A j \in (i - 1)..l : j = i - 1 \/ j \in i..l
    BY <1>1, <1>4
  <2>4. i - 1 \in A
    BY <1>1, <1>4, <2>2, <2>3
  <2>5. QED
    BY <1>1, <1>3, <1>4, <2>4
<1> DEFINE e == EndOf(source, i, OfKinds(source, kinds))
<1>7. l < e
  <2>1. i \in 1..(Len(source) + 1)
    BY <1>1, <1>5
  <2>2. e \in Nat /\ i <= e /\ (e \in DOMAIN source => source[e] \notin kinds)
    BY <2>1, RunIs
  <2> HIDE DEF e
  <2>3. e <= l => e \in i..l /\ e \in DOMAIN source
    BY <1>1, <1>4, <2>2
  <2>4. QED
    BY <1>1, <1>4, <2>2, <2>3
<1> HIDE DEF A
<1>8. QED
  BY <1>5, <1>6, <1>7

\* Blocks of a file
FileBlocks(source) ==
  [kind : {"heading", "list", "prose", "table"}, header : BOOLEAN, lines : Seq(DOMAIN source)]

\* A block of one line, and one of a run
LEMMA OneBlock ==
  ASSUME NEW source, IsText(source), NEW i \in DOMAIN source, NEW form \in {"heading", "list", "prose", "table"}
  PROVE  LET f == <<Of(form, FALSE, <<i>>)>>
         IN  /\ f \in Seq(FileBlocks(source)) /\ Ordered(f, Before(FileBlocks(source)))
             /\ \A n \in DOMAIN f : f[n].header \in BOOLEAN /\ Lists(f[n].lines, i, i + 1, DOMAIN source)
             /\ form # "heading" => IsData(f, i)
<1> DEFINE b == Of(form, FALSE, <<i>>)
           f == <<b>>
<1>1. b \in FileBlocks(source) /\ b.header = FALSE /\ b.lines = <<i>> /\ b.kind = form
  BY DEF FileBlocks, Of
<1> HIDE DEF b
<1>2. f \in Seq(FileBlocks(source)) /\ DOMAIN f = {1} /\ f[1] = b
  BY <1>1
<1> HIDE DEF f
<1>3. Ordered(f, Before(FileBlocks(source)))
  BY <1>2 DEF Ordered
<1>4. \A n \in DOMAIN f : f[n].header \in BOOLEAN /\ Lists(f[n].lines, i, i + 1, DOMAIN source)
  BY <1>1, <1>2, OneLine
<1>5. form # "heading" => IsData(f, i)
  <2>1. Data(b) = <<i>>
    BY <1>1 DEF Data
  <2>2. Listed(<<i>>, i)
    BY DEF Listed
  <2>3. QED
    BY <1>1, <1>2, <2>1, <2>2 DEF IsData
<1>6. QED
  BY <1>2, <1>3, <1>4, <1>5 DEF f, b

LEMMA RunBlock ==
  ASSUME NEW source, IsText(source), NEW i \in DOMAIN source, NEW e, NEW lines, Lists(lines, i, e, DOMAIN source),
         lines # <<>>, NEW form \in {"list", "prose", "table"}, NEW header \in BOOLEAN
  PROVE  LET f == <<Of(form, header, lines)>>
         IN  /\ f \in Seq(FileBlocks(source)) /\ Ordered(f, Before(FileBlocks(source)))
             /\ \A n \in DOMAIN f : f[n].header \in BOOLEAN /\ Lists(f[n].lines, i, e, DOMAIN source)
             /\ \A l : Listed(lines, l) /\ (form = "table" /\ header => l # lines[1]) => IsData(f, l)
<1> DEFINE b == Of(form, header, lines)
           f == <<b>>
<1>1. b \in FileBlocks(source) /\ b.header = header /\ b.lines = lines /\ b.kind = form
  BY DEF FileBlocks, Of, Lists
<1> HIDE DEF b
<1>2. f \in Seq(FileBlocks(source)) /\ DOMAIN f = {1} /\ f[1] = b
  BY <1>1
<1> HIDE DEF f
<1>3. Ordered(f, Before(FileBlocks(source)))
  BY <1>2 DEF Ordered
<1>4. \A n \in DOMAIN f : f[n].header \in BOOLEAN /\ Lists(f[n].lines, i, e, DOMAIN source)
  BY <1>1, <1>2
<1>5. ASSUME NEW l, Listed(lines, l), form = "table" /\ header => l # lines[1] PROVE IsData(f, l)
  <2>1. Data(b) = IF form = "table" /\ header THEN Tail(lines) ELSE lines
    BY <1>1 DEF Data
  <2>2. form = "table" /\ header => Listed(Tail(lines), l)
    BY <1>5, TailLists DEF Lists
  <2>3. Listed(Data(b), l) /\ b.kind # "heading"
    BY <1>1, <1>5, <2>1, <2>2
  <2>4. QED
    BY <1>2, <2>3 DEF IsData
<1>6. QED
  BY <1>2, <1>3, <1>4, <1>5 DEF f, b

\* What is content of a Word document, of a workbook and of a PDF
DocxContent(source, l) ==
  \/ source[l] \in {"text", "item", "row"}
  \/ source[l] = "head" /\ KindAt(source, l - 1) \in {"row", "head"}
SheetContent(source, l) ==
  \/ source[l] = "row"
  \/ source[l] \in {"row", "head", "text"} /\ \E j \in 1..(l - 1) :
       source[j] \in {"row", "head", "text"} /\ \A h \in j..l : source[h] # "heading"

\* The blocks of a PDF have its text.
LEMMA PageBlocksHold ==
  ASSUME NEW source, IsText(source)
  PROVE  BlocksHold(PageBlocks(source), FileBlocks(source), 1, {l \in DOMAIN source : source[l] = "text"}, DOMAIN source)
<1> DEFINE At(i) == IF KindAt(source, i) = "text" /\ KindAt(source, i - 1) # "text"
                    THEN <<Of("prose", FALSE, Run(source, i, {"text"}))>> ELSE <<>>
           f == [i \in DOMAIN source |-> At(i)]
           e == [i \in DOMAIN source |-> EndOf(source, i, OfKinds(source, {"text"}))]
           C == {l \in DOMAIN source : source[l] = "text"}
<1>1. PageBlocks(source) = FlattenSeq(f)
  BY DEF PageBlocks
<1>2. Len(source) \in Nat /\ DOMAIN source = 1..Len(source)
  BY DEF IsText
<1>3. ASSUME NEW i \in DOMAIN source
      PROVE  /\ e[i] \in Nat /\ i <= e[i] /\ Lists(Run(source, i, {"text"}), i, e[i], DOMAIN source)
             /\ \A j \in DOMAIN source : i <= j /\ j < e[i] => source[j] = "text" /\ Listed(Run(source, i, {"text"}), j)
             /\ (e[i] \in DOMAIN source => source[e[i]] # "text")
             /\ i < e[i] => Run(source, i, {"text"}) # <<>> /\ Run(source, i, {"text"})[1] = i
  <2>1. i \in 1..(Len(source) + 1) /\ e[i] = EndOf(source, i, OfKinds(source, {"text"}))
    BY <1>2
  <2> HIDE DEF e
  <2>2. QED
    BY <2>1, RunIs
<1> HIDE DEF e
<1>4. ASSUME NEW i \in DOMAIN source
      PROVE  /\ At(i) \in Seq(FileBlocks(source)) /\ Ordered(At(i), Before(FileBlocks(source)))
             /\ \A n \in DOMAIN At(i) : At(i)[n].header \in BOOLEAN /\ Lists(At(i)[n].lines, i, e[i], DOMAIN source)
             /\ source[i] = "text" /\ KindAt(source, i - 1) # "text" =>
                  \A l \in DOMAIN source : i <= l /\ l < e[i] => IsData(At(i), l)
  <2>1. CASE source[i] = "text" /\ KindAt(source, i - 1) # "text"
    <3> DEFINE run == Run(source, i, {"text"})
    <3>1. At(i) = <<Of("prose", FALSE, run)>>
      BY <2>1 DEF KindAt
    <3>2. i < e[i]
      <4>1. i # e[i]
        BY <1>3, <2>1
      <4>2. QED
        BY <1>2, <1>3, <4>1
    <3>3. Lists(run, i, e[i], DOMAIN source) /\ run # <<>>
      BY <1>3, <3>2
    <3>4. \A l \in DOMAIN source : i <= l /\ l < e[i] => Listed(run, l)
      BY <1>3
    <3> HIDE DEF run
    <3> DEFINE one == <<Of("prose", FALSE, run)>>
    <3>5. "prose" \in {"list", "prose", "table"} /\ FALSE \in BOOLEAN /\ "prose" # "table"
      OBVIOUS
    <3>6. /\ one \in Seq(FileBlocks(source)) /\ Ordered(one, Before(FileBlocks(source)))
          /\ \A n \in DOMAIN one : one[n].header \in BOOLEAN /\ Lists(one[n].lines, i, e[i], DOMAIN source)
          /\ \A l : Listed(run, l) => IsData(one, l)
      BY <3>3, <3>5, RunBlock
    <3> HIDE DEF At, one
    <3>7. At(i) = one
      BY <3>1 DEF one
    <3>8. QED
      BY <3>4, <3>6, <3>7
  <2>2. CASE ~ (source[i] = "text" /\ KindAt(source, i - 1) # "text")
    <3>1. At(i) = <<>>
      BY <2>2 DEF KindAt
    <3> HIDE DEF At
    <3>2. QED
      BY <2>2, <3>1 DEF Ordered
  <2>3. QED
    BY <2>1, <2>2
<1>5. ASSUME NEW i \in DOMAIN source, NEW j \in DOMAIN source, i < j, At(j) # <<>> PROVE e[i] <= j
  <2>1. KindAt(source, j - 1) # "text"
    BY <1>5
  <2>2. j - 1 \in DOMAIN source /\ i <= j - 1
    BY <1>2, <1>5
  <2>3. source[j - 1] # "text"
    BY <2>1, <2>2 DEF KindAt
  <2>4. ~ (j - 1 < e[i])
    BY <1>3, <2>2, <2>3
  <2>5. ~ (j < e[i])
    BY <1>2, <1>3, <2>2, <2>4
  <2>6. QED
    BY <1>2, <1>3, <2>5
<1>6. ASSUME NEW l \in C PROVE \E i \in DOMAIN source : IsData(At(i), l)
  <2>1. "blank" \notin {"text"} /\ l \in DOMAIN source /\ source[l] \in {"text"}
    OBVIOUS
  <2>2. PICK i \in DOMAIN source : /\ i <= l /\ source[i] \in {"text"} /\ KindAt(source, i - 1) \notin {"text"}
                                 /\ l < EndOf(source, i, OfKinds(source, {"text"}))
    BY <2>1, RunStart
  <2>3. l < e[i]
    BY <2>2 DEF e
  <2>4. QED
    BY <1>4, <2>1, <2>2, <2>3
<1> HIDE DEF At, C
<1>7. f \in [DOMAIN source -> Seq(FileBlocks(source))] /\ \A i \in DOMAIN source : f[i] = At(i)
  BY <1>4
<1> HIDE DEF f
<1>8. BlocksHold(FlattenSeq(f), FileBlocks(source), 1, C, DOMAIN source)
  <2>1. /\ \A i \in DOMAIN source : Ordered(f[i], Before(FileBlocks(source)))
        /\ \A i \in DOMAIN source : \A n \in DOMAIN f[i] :
             f[i][n].header \in BOOLEAN /\ Lists(f[i][n].lines, i, e[i], DOMAIN source)
        /\ \A i, j \in DOMAIN source : i < j /\ f[j] # <<>> => e[i] \in Nat /\ e[i] <= j
        /\ \A l \in C : \E i \in DOMAIN source : IsData(f[i], l)
    BY <1>3, <1>4, <1>5, <1>6, <1>7
  <2>2. QED
    BY <1>7, <2>1, FilesHold
<1>9. QED
  BY <1>1, <1>8 DEF C
\* The blocks of a Word document have its content.
LEMMA DocxBlocksHold ==
  ASSUME NEW source, IsText(source)
  PROVE  BlocksHold(DocxBlocks(source), FileBlocks(source), 1, {l \in DOMAIN source : DocxContent(source, l)}, DOMAIN source)
<1> DEFINE Cells == {"row", "head"}
           At(i) ==
             CASE source[i] = "heading" -> <<Of("heading", FALSE, <<i>>)>>
               [] source[i] = "item" -> <<Of("list", FALSE, <<i>>)>>
               [] source[i] = "text" -> <<Of("prose", FALSE, <<i>>)>>
               [] source[i] \in Cells /\ KindAt(source, i - 1) \notin Cells ->
                    <<Of("table", source[i] = "head", Run(source, i, Cells))>>
               [] OTHER -> <<>>
           f == [i \in DOMAIN source |-> At(i)]
           e == [i \in DOMAIN source |-> IF source[i] \in Cells THEN EndOf(source, i, OfKinds(source, Cells)) ELSE i + 1]
           C == {l \in DOMAIN source : DocxContent(source, l)}
           T == FileBlocks(source)
<1>1. DocxBlocks(source) = FlattenSeq(f)
  BY DEF DocxBlocks
<1>2. Len(source) \in Nat /\ DOMAIN source = 1..Len(source)
  BY DEF IsText
<1>3. ASSUME NEW i \in DOMAIN source, source[i] \in Cells
      PROVE  /\ e[i] \in Nat /\ i < e[i] /\ Lists(Run(source, i, Cells), i, e[i], DOMAIN source)
             /\ \A j \in DOMAIN source : i <= j /\ j < e[i] => source[j] \in Cells /\ Listed(Run(source, i, Cells), j)
             /\ Run(source, i, Cells) # <<>> /\ Run(source, i, Cells)[1] = i
  <2>1. i \in 1..(Len(source) + 1) /\ e[i] = EndOf(source, i, OfKinds(source, Cells))
    BY <1>2, <1>3
  <2> HIDE DEF e
  <2>2. /\ e[i] \in Nat /\ i <= e[i] /\ Lists(Run(source, i, Cells), i, e[i], DOMAIN source)
        /\ \A j \in DOMAIN source : i <= j /\ j < e[i] => source[j] \in Cells /\ Listed(Run(source, i, Cells), j)
        /\ (e[i] \in DOMAIN source => source[e[i]] \notin Cells)
        /\ i < e[i] => Run(source, i, Cells) # <<>> /\ Run(source, i, Cells)[1] = i
    BY <2>1, RunIs
  <2>3. i # e[i]
    BY <1>3, <2>2
  <2>4. i < e[i]
    BY <1>2, <2>2, <2>3
  <2>5. QED
    BY <2>2, <2>4
<1>4. ASSUME NEW i \in DOMAIN source, source[i] \notin Cells PROVE e[i] = i + 1 /\ e[i] \in Nat
  BY <1>2, <1>4
<1> HIDE DEF e
<1>5. ASSUME NEW i \in DOMAIN source
      PROVE  /\ At(i) \in Seq(T) /\ Ordered(At(i), Before(T))
             /\ \A n \in DOMAIN At(i) : At(i)[n].header \in BOOLEAN /\ Lists(At(i)[n].lines, i, e[i], DOMAIN source)
             /\ source[i] \in {"text", "item"} => IsData(At(i), i)
             /\ source[i] \in Cells /\ KindAt(source, i - 1) \notin Cells =>
                  \A l \in DOMAIN source : i <= l /\ l < e[i] /\ (source[i] = "head" => l # i) => IsData(At(i), l)
  <2>1. CASE source[i] \in {"heading", "item", "text"}
    <3> DEFINE form == IF source[i] = "heading" THEN "heading" ELSE IF source[i] = "item" THEN "list" ELSE "prose"
               one == <<Of(form, FALSE, <<i>>)>>
    <3>1. At(i) = one
      BY <2>1
    <3>2. form \in {"heading", "list", "prose", "table"} /\ (source[i] # "heading" => form # "heading")
      OBVIOUS
    <3>3. e[i] = i + 1 /\ source[i] \notin Cells
      BY <1>4, <2>1
    <3> HIDE DEF At, form
    <3>4. /\ one \in Seq(T) /\ Ordered(one, Before(T))
          /\ \A n \in DOMAIN one : one[n].header \in BOOLEAN /\ Lists(one[n].lines, i, i + 1, DOMAIN source)
          /\ form # "heading" => IsData(one, i)
      BY <3>2, OneBlock
    <3> HIDE DEF one
    <3>5. QED
      BY <3>1, <3>2, <3>3, <3>4
  <2>2. CASE source[i] \in Cells /\ KindAt(source, i - 1) \notin Cells
    <3> DEFINE run == Run(source, i, Cells)
               one == <<Of("table", source[i] = "head", run)>>
    <3>1. At(i) = one
      BY <2>2
    <3>2. Lists(run, i, e[i], DOMAIN source) /\ run # <<>> /\ run[1] = i
      BY <1>3, <2>2
    <3>3. \A l \in DOMAIN source : i <= l /\ l < e[i] => Listed(run, l)
      BY <1>3, <2>2
    <3> HIDE DEF run, At
    <3>4. "table" \in {"list", "prose", "table"} /\ (source[i] = "head") \in BOOLEAN
      OBVIOUS
    <3>5. /\ one \in Seq(T) /\ Ordered(one, Before(T))
          /\ \A n \in DOMAIN one : one[n].header \in BOOLEAN /\ Lists(one[n].lines, i, e[i], DOMAIN source)
          /\ \A l : Listed(run, l) /\ ("table" = "table" /\ source[i] = "head" => l # run[1]) => IsData(one, l)
      BY <3>2, <3>4, RunBlock
    <3> HIDE DEF one
    <3>6. source[i] \notin {"text", "item"}
      BY <2>2
    <3>7. QED
      BY <3>1, <3>2, <3>3, <3>5, <3>6
  <2>3. CASE source[i] \notin {"heading", "item", "text"} /\ ~ (source[i] \in Cells /\ KindAt(source, i - 1) \notin Cells)
    <3>1. At(i) = <<>>
      BY <2>3
    <3> HIDE DEF At
    <3>2. QED
      BY <2>3, <3>1 DEF Ordered
  <2>4. QED
    BY <2>1, <2>2, <2>3
<1>6. ASSUME NEW i \in DOMAIN source, NEW j \in DOMAIN source, i < j, At(j) # <<>>
      PROVE  e[i] \in Nat /\ e[i] <= j
  <2>1. CASE source[i] \notin Cells
    BY <1>2, <1>4, <1>6, <2>1
  <2>2. CASE source[i] \in Cells
    <3>1. ~ (source[j] \in Cells /\ KindAt(source, j - 1) \in Cells)
      BY <1>6
    <3>2. j - 1 \in DOMAIN source /\ i <= j - 1
      BY <1>2, <1>6
    <3>3. ~ (source[j] \in Cells /\ source[j - 1] \in Cells)
      BY <3>1, <3>2 DEF KindAt
    <3>4. e[i] \in Nat /\ \A m \in DOMAIN source : i <= m /\ m < e[i] => source[m] \in Cells
      BY <1>3, <2>2
    <3> HIDE DEF Cells
    <3>5. j < e[i] => i <= j /\ j - 1 < e[i]
      BY <1>2, <1>6, <3>4
    <3>6. ~ (j < e[i])
      BY <3>2, <3>3, <3>4, <3>5
    <3>7. QED
      BY <1>2, <3>4, <3>6
  <2>3. QED
    BY <2>1, <2>2
<1>7. ASSUME NEW l \in C PROVE \E i \in DOMAIN source : IsData(At(i), l)
  <2>1. l \in DOMAIN source /\ DocxContent(source, l)
    OBVIOUS
  <2>2. CASE source[l] \in {"text", "item"}
    BY <1>5, <2>1, <2>2
  <2>3. CASE source[l] \in Cells
    <3>1. "blank" \notin Cells
      OBVIOUS
    <3>2. PICK i \in DOMAIN source : /\ i <= l /\ source[i] \in Cells /\ KindAt(source, i - 1) \notin Cells
                                   /\ l < EndOf(source, i, OfKinds(source, Cells))
      BY <2>1, <2>3, <3>1, RunStart
    <3>3. l < e[i]
      BY <3>2 DEF e
    <3>4. source[i] = "head" => l # i
      BY <2>1, <3>2 DEF DocxContent
    <3> HIDE DEF At
    <3>5. IsData(At(i), l)
      BY <1>5, <2>1, <3>2, <3>3, <3>4
    <3>6. QED
      BY <3>5
  <2>4. QED
    BY <2>1, <2>2, <2>3 DEF DocxContent
<1> HIDE DEF At, C
<1>8. f \in [DOMAIN source -> Seq(T)] /\ \A i \in DOMAIN source : f[i] = At(i)
  BY <1>5
<1> HIDE DEF f
<1>9. BlocksHold(FlattenSeq(f), T, 1, C, DOMAIN source)
  <2>1. /\ \A i \in DOMAIN source : Ordered(f[i], Before(T))
        /\ \A i \in DOMAIN source : \A n \in DOMAIN f[i] :
             f[i][n].header \in BOOLEAN /\ Lists(f[i][n].lines, i, e[i], DOMAIN source)
        /\ \A i, j \in DOMAIN source : i < j /\ f[j] # <<>> => e[i] \in Nat /\ e[i] <= j
        /\ \A l \in C : \E i \in DOMAIN source : IsData(f[i], l)
    BY <1>5, <1>6, <1>7, <1>8
  <2> HIDE DEF T
  <2>2. QED
    BY <1>8, <2>1, FilesHold
<1>10. QED
  BY <1>1, <1>9 DEF C

\* Lines of a workbook
SheetLines == {"row", "head", "text", "blank"}

\* The first of lines in order is the least.
LEMMA FirstIsLeast ==
  ASSUME NEW lines, NEW i \in Nat, NEW e, NEW D, Lists(lines, i, e, D), NEW l, Listed(lines, l)
  PROVE  lines # <<>> /\ l \in Nat /\ lines[1] \in Nat /\ lines[1] <= l
<1>1. lines \in Seq(D) /\ Ordered(lines, Less) /\ \A k \in DOMAIN lines : lines[k] \in Nat
  BY DEF Lists
<1>2. PICK k \in DOMAIN lines : lines[k] = l
  BY DEF Listed
<1>3. 1 \in DOMAIN lines /\ k \in Nat /\ 1 <= k /\ lines # <<>>
  BY <1>1
<1>4. 1 < k => lines[1] < lines[k]
  BY <1>1, <1>3 DEF Ordered, Less
<1>5. QED
  BY <1>1, <1>2, <1>3, <1>4

\* A title and its table
LEMMA SheetBlock ==
  ASSUME NEW source, IsText(source), NEW i \in DOMAIN source, NEW e \in Nat, i + 1 <= e,
         NEW lines, Lists(lines, i + 1, e, DOMAIN source), lines # <<>>, NEW header \in BOOLEAN
  PROVE  LET f == <<Of("heading", FALSE, <<i>>), Of("table", header, lines)>>
         IN  /\ f \in Seq(FileBlocks(source)) /\ Ordered(f, Before(FileBlocks(source)))
             /\ \A n \in DOMAIN f : f[n].header \in BOOLEAN /\ Lists(f[n].lines, i, e, DOMAIN source)
             /\ \A l : Listed(lines, l) /\ (header => l # lines[1]) => IsData(f, l)
<1> DEFINE a == Of("heading", FALSE, <<i>>)
           b == Of("table", header, lines)
           f == <<a, b>>
           T == FileBlocks(source)
<1>1. i \in Nat
  BY DEF IsText
<1>2. /\ a \in T /\ a.header = FALSE /\ a.lines = <<i>> /\ a.kind = "heading"
      /\ b \in T /\ b.header = header /\ b.lines = lines /\ b.kind = "table"
  BY DEF FileBlocks, Of, Lists
<1> HIDE DEF a, b
<1>3. f \in Seq(T) /\ DOMAIN f = {1, 2} /\ f[1] = a /\ f[2] = b
  BY <1>2
<1> HIDE DEF f
<1>4. Lists(<<i>>, i, e, DOMAIN source) /\ Lists(lines, i, e, DOMAIN source)
  <2>1. Lists(<<i>>, i, i + 1, DOMAIN source)
    BY OneLine
  <2>2. QED
    BY <1>1, <2>1 DEF Lists
<1>5. Ordered(f, Before(T))
  <2>1. \A c \in DOMAIN a.lines, d \in DOMAIN b.lines : a.lines[c] < b.lines[d]
    BY <1>1, <1>2 DEF Lists
  <2>2. <<a, b>> \in Before(T)
    BY <1>2, <2>1 DEF Before
  <2>3. QED
    BY <1>3, <2>2 DEF Ordered
<1>6. \A n \in DOMAIN f : f[n].header \in BOOLEAN /\ Lists(f[n].lines, i, e, DOMAIN source)
  BY <1>2, <1>3, <1>4
<1>7. ASSUME NEW l, Listed(lines, l), header => l # lines[1] PROVE IsData(f, l)
  <2>1. Data(b) = IF header THEN Tail(lines) ELSE lines
    BY <1>2 DEF Data
  <2>2. header => Listed(Tail(lines), l)
    BY <1>7, TailLists DEF Lists
  <2>3. Listed(Data(b), l) /\ b.kind # "heading"
    BY <1>2, <1>7, <2>1, <2>2
  <2>4. QED
    BY <1>3, <2>3 DEF IsData
<1>8. QED
  BY <1>3, <1>5, <1>6, <1>7 DEF f, a, b

\* The blocks of a workbook have its content.
LEMMA SheetBlocksHold ==
  ASSUME NEW source, IsText(source), source \in Seq(SheetLines \cup {"heading"}),
         source # <<>> => source[1] = "heading"
  PROVE  BlocksHold(SheetBlocks(source), FileBlocks(source), 1, {l \in DOMAIN source : SheetContent(source, l)}, DOMAIN source)
<1> DEFINE Rows(i) == Where(Run(source, i + 1, SheetLines), {l \in DOMAIN source : source[l] # "blank"})
           At(i) ==
             IF source[i] # "heading" \/ Rows(i) = <<>> THEN <<>>
             ELSE <<Of("heading", FALSE, <<i>>), Of("table", HasHeader(source, Rows(i)), Rows(i))>>
           f == [i \in DOMAIN source |-> At(i)]
           e == [i \in DOMAIN source |-> EndOf(source, i + 1, OfKinds(source, SheetLines))]
           C == {l \in DOMAIN source : SheetContent(source, l)}
           T == FileBlocks(source)
<1>1. SheetBlocks(source) = FlattenSeq(f)
  BY DEF SheetBlocks, SheetLines
<1>2. /\ Len(source) \in Nat /\ DOMAIN source = 1..Len(source)
      /\ \A l \in DOMAIN source : source[l] # "heading" => source[l] \in SheetLines
  BY DEF IsText
<1>3. ASSUME NEW i \in DOMAIN source
      PROVE  /\ e[i] \in Nat /\ i + 1 <= e[i] /\ Lists(Rows(i), i + 1, e[i], DOMAIN source)
             /\ \A j \in DOMAIN source : i + 1 <= j /\ j < e[i] =>
                  source[j] \in SheetLines /\ (source[j] # "blank" => Listed(Rows(i), j))
             /\ e[i] \in DOMAIN source => source[e[i]] \notin SheetLines
  <2> DEFINE run == Run(source, i + 1, SheetLines)
  <2>1. i + 1 \in 1..(Len(source) + 1) /\ i + 1 \in Nat /\ e[i] = EndOf(source, i + 1, OfKinds(source, SheetLines))
    BY <1>2
  <2> HIDE DEF e
  <2>2. /\ e[i] \in Nat /\ i + 1 <= e[i] /\ Lists(run, i + 1, e[i], DOMAIN source)
        /\ \A j \in DOMAIN source : i + 1 <= j /\ j < e[i] => source[j] \in SheetLines /\ Listed(run, j)
        /\ (e[i] \in DOMAIN source => source[e[i]] \notin SheetLines)
    BY <2>1, RunIs
  <2> HIDE DEF run
  <2>3. /\ Lists(Rows(i), i + 1, e[i], DOMAIN source)
        /\ \A l \in {l \in DOMAIN source : source[l] # "blank"} : Listed(run, l) => Listed(Rows(i), l)
    BY <2>1, <2>2, WhereLists DEF run
  <2> HIDE DEF Rows
  <2>4. QED
    BY <2>2, <2>3
<1> HIDE DEF e, Rows
<1>4. ASSUME NEW i \in DOMAIN source
      PROVE  /\ At(i) \in Seq(T) /\ Ordered(At(i), Before(T))
             /\ \A n \in DOMAIN At(i) : At(i)[n].header \in BOOLEAN /\ Lists(At(i)[n].lines, i, e[i], DOMAIN source)
             /\ source[i] = "heading" =>
                  \A l : Listed(Rows(i), l) /\ (HasHeader(source, Rows(i)) => l # Rows(i)[1]) => IsData(At(i), l)
  <2>1. CASE source[i] = "heading" /\ Rows(i) # <<>>
    <3> DEFINE rows == Rows(i)
               header == HasHeader(source, rows)
               two == <<Of("heading", FALSE, <<i>>), Of("table", header, rows)>>
    <3>1. At(i) = two
      BY <2>1
    <3>2. header \in BOOLEAN
      BY DEF HasHeader
    <3>3. e[i] \in Nat /\ i + 1 <= e[i] /\ Lists(rows, i + 1, e[i], DOMAIN source) /\ rows # <<>>
      BY <1>3, <2>1
    <3> HIDE DEF At, rows, header
    <3>4. /\ two \in Seq(T) /\ Ordered(two, Before(T))
          /\ \A n \in DOMAIN two : two[n].header \in BOOLEAN /\ Lists(two[n].lines, i, e[i], DOMAIN source)
          /\ \A l : Listed(rows, l) /\ (header => l # rows[1]) => IsData(two, l)
      BY <3>2, <3>3, SheetBlock
    <3> HIDE DEF two
    <3>5. QED
      BY <3>1, <3>4 DEF rows, header
  <2>2. CASE ~ (source[i] = "heading" /\ Rows(i) # <<>>)
    <3>1. At(i) = <<>>
      BY <2>2
    <3>2. source[i] = "heading" => \A l : ~ Listed(Rows(i), l)
      BY <2>2 DEF Listed
    <3> HIDE DEF At
    <3>3. QED
      BY <3>1, <3>2 DEF Ordered
  <2>3. QED
    BY <2>1, <2>2
<1>5. ASSUME NEW i \in DOMAIN source, NEW j \in DOMAIN source, i < j, At(j) # <<>>
      PROVE  e[i] \in Nat /\ e[i] <= j
  <2>1. source[j] \notin SheetLines
    BY <1>5 DEF SheetLines
  <2>2. e[i] \in Nat /\ (i + 1 <= j /\ j < e[i] => source[j] \in SheetLines)
    BY <1>3
  <2>3. i + 1 <= j
    BY <1>2, <1>5
  <2>4. ~ (j < e[i])
    BY <2>1, <2>2, <2>3
  <2>5. QED
    BY <1>2, <2>2, <2>4
<1>6. ASSUME NEW l \in C PROVE \E i \in DOMAIN source : IsData(At(i), l)
  <2>1. l \in DOMAIN source /\ SheetContent(source, l) /\ source[l] \in {"row", "head", "text"} /\ l \in Nat
    BY <1>2 DEF SheetContent
  <2> DEFINE H == {h \in 1..l : source[h] = "heading"}
             i == Max(H)
  <2>2. i \in H /\ \A h \in H : h <= i
    <3>1. source # <<>> /\ 1 \in H
      BY <1>2, <2>1
    <3>2. H \in SUBSET (0..l)
      BY <2>1
    <3> HIDE DEF H
    <3>3. QED
      BY <2>1, <3>1, <3>2, MaxIs
  <2>3. i \in DOMAIN source /\ source[i] = "heading" /\ i < l /\ \A h \in (i + 1)..l : source[h] # "heading"
    <3> HIDE DEF i
    <3>1. i \in 1..l /\ source[i] = "heading" /\ i # l
      BY <2>1, <2>2
    <3>2. ASSUME NEW h \in (i + 1)..l PROVE source[h] # "heading"
      BY <2>1, <2>2, <3>1
    <3>3. QED
      BY <1>2, <2>1, <3>1, <3>2
  <2> HIDE DEF i, H
  <2>4. l < e[i]
    <3>1. e[i] \in Nat /\ i + 1 <= e[i] /\ (e[i] \in DOMAIN source => source[e[i]] \notin SheetLines)
      BY <1>3, <2>3
    <3>2. e[i] <= l => e[i] \in (i + 1)..l /\ e[i] \in DOMAIN source
      BY <1>2, <2>1, <2>3, <3>1
    <3>3. QED
      BY <1>2, <2>1, <2>3, <3>1, <3>2
  <2>5. ASSUME NEW j \in DOMAIN source, i < j, j <= l, source[j] # "blank" PROVE Listed(Rows(i), j)
    <3>1. i + 1 <= j /\ j < e[i]
      BY <1>2, <1>3, <2>3, <2>4, <2>5
    <3>2. QED
      BY <1>3, <2>3, <2>5, <3>1
  <2>6. Listed(Rows(i), l)
    BY <2>1, <2>3, <2>5
  <2>7. HasHeader(source, Rows(i)) => l # Rows(i)[1]
    <3>1. SUFFICES ASSUME HasHeader(source, Rows(i)), l = Rows(i)[1] PROVE FALSE
      OBVIOUS
    <3>2. source[l] # "row"
      BY <3>1 DEF HasHeader
    <3>3. PICK j \in 1..(l - 1) : source[j] \in {"row", "head", "text"} /\ \A h \in j..l : source[h] # "heading"
      BY <2>1, <3>2 DEF SheetContent
    <3>4. j \in DOMAIN source /\ i < j /\ j < l
      BY <1>2, <2>1, <2>3, <3>3
    <3>5. Listed(Rows(i), j)
      BY <2>1, <2>5, <3>3, <3>4
    <3>6. Rows(i)[1] \in Nat /\ Rows(i)[1] <= j
      <4>1. i + 1 \in Nat /\ Lists(Rows(i), i + 1, e[i], DOMAIN source)
        BY <1>2, <1>3, <2>3
      <4>2. QED
        BY <3>5, <4>1, FirstIsLeast
    <3>7. QED
      BY <2>1, <3>1, <3>4, <3>6
  <2> HIDE DEF At
  <2>8. QED
    BY <1>4, <2>3, <2>6, <2>7
<1> HIDE DEF At, C
<1>7. f \in [DOMAIN source -> Seq(T)] /\ \A i \in DOMAIN source : f[i] = At(i)
  BY <1>4
<1> HIDE DEF f
<1>8. BlocksHold(FlattenSeq(f), T, 1, C, DOMAIN source)
  <2>1. /\ \A i \in DOMAIN source : Ordered(f[i], Before(T))
        /\ \A i \in DOMAIN source : \A n \in DOMAIN f[i] :
             f[i][n].header \in BOOLEAN /\ Lists(f[i][n].lines, i, e[i], DOMAIN source)
        /\ \A i, j \in DOMAIN source : i < j /\ f[j] # <<>> => e[i] \in Nat /\ e[i] <= j
        /\ \A l \in C : \E i \in DOMAIN source : IsData(f[i], l)
    BY <1>4, <1>5, <1>6, <1>7
  <2> HIDE DEF T
  <2>2. QED
    BY <1>7, <2>1, FilesHold
<1>9. QED
  BY <1>1, <1>8 DEF C

-----------------------------------------------------------------------------
(* What a parser makes of a document *)

\* A document as the assumption has it
DocumentOK(d) ==
  /\ d.format \in DOMAIN LineKinds /\ d.text \in Seq(LineKinds[d.format])
  /\ \A i \in 2..Len(d.text) : ~(d.text[i - 1] = "rule" /\ d.text[i] = "rule")
  /\ d.format = "xlsx" /\ d.text # <<>> => d.text[1] = "heading"

\* Its lines of content
DocumentContent(d) ==
  {l \in DOMAIN d.text :
     CASE d.format = "text" -> TextContent(d.text, l)
       [] d.format = "docx" -> DocxContent(d.text, l)
       [] d.format = "xlsx" -> SheetContent(d.text, l)
       [] d.format = "pdf" -> d.text[l] = "text"}

\* Without the blocks that have no lines, the lines are the same.
LEMMA WithoutEmpty ==
  ASSUME NEW bs, NEW T, NEW i, NEW C, NEW D, BlocksHold(bs, T, i, C, D)
  PROVE  LET kept == Where(bs, {b \in Range(bs) : b.lines # <<>>})
         IN  BlocksHold(kept, T, i, C, D) /\ \A n \in DOMAIN kept : kept[n].lines # <<>>
<1> DEFINE S == {b \in Range(bs) : b.lines # <<>>}
           kept == Where(bs, S)
<1>1. /\ bs \in Seq(T) /\ Ordered(bs, Before(T)) /\ \A n \in DOMAIN bs : BlockIn(bs[n], i, D)
      /\ \A l \in C : i <= l => IsData(bs, l)
  BY DEF BlocksHold
<1>2. kept \in Seq(T) /\ Ordered(kept, Before(T))
  <2>1. kept \in Seq(T)
    BY <1>1, WhereType
  <2>2. Ordered(kept, Before(T))
    BY <1>1, WhereOrdered
  <2>3. QED
    BY <2>1, <2>2
<1> HIDE DEF S
<1>3. /\ \A k \in DOMAIN kept : kept[k] \in S /\ \E n \in DOMAIN bs : bs[n] = kept[k]
      /\ \A n \in DOMAIN bs : bs[n] \in S => \E k \in DOMAIN kept : kept[k] = bs[n]
  BY <1>1, WhereHolds
<1>4. \A n \in DOMAIN bs : bs[n].lines # <<>> => bs[n] \in S
  BY DEF Range, S
<1> HIDE DEF kept
<1>5. \A k \in DOMAIN kept : BlockIn(kept[k], i, D) /\ kept[k].lines # <<>>
  <2>1. ASSUME NEW k \in DOMAIN kept PROVE BlockIn(kept[k], i, D) /\ kept[k].lines # <<>>
    <3>1. kept[k] \in S /\ \E n \in DOMAIN bs : bs[n] = kept[k]
      BY <1>3
    <3>2. QED
      BY <1>1, <3>1 DEF S
  <2>2. QED
    BY <2>1
<1>6. ASSUME NEW l \in C, i <= l PROVE IsData(kept, l)
  <2>1. PICK n \in DOMAIN bs : bs[n].kind # "heading" /\ Listed(Data(bs[n]), l)
    BY <1>1, <1>6 DEF IsData
  <2>2. bs[n].lines # <<>>
    <3>1. bs[n].lines = <<>> => Data(bs[n]) = <<>>
      BY DEF Data
    <3>2. QED
      BY <2>1, <3>1 DEF Listed
  <2>3. PICK k \in DOMAIN kept : kept[k] = bs[n]
    BY <1>3, <1>4, <2>2
  <2>4. QED
    BY <2>1, <2>3 DEF IsData
<1>7. QED
  BY <1>2, <1>5, <1>6 DEF BlocksHold, kept, S

\* A parser's blocks have the content of the document, in its order.
LEMMA ParsedHolds ==
  ASSUME NEW d, DocumentOK(d)
  PROVE  \E T : /\ BlocksHold(Parsed(d), T, 1, DocumentContent(d), DOMAIN d.text)
                /\ \A n \in DOMAIN Parsed(d) : Parsed(d)[n].lines # <<>>
<1> DEFINE source == d.text
           C == DocumentContent(d)
           found == CASE d.format = "text" -> TextBlocks(source)
                      [] d.format = "docx" -> DocxBlocks(source)
                      [] d.format = "xlsx" -> SheetBlocks(source)
                      [] d.format = "pdf" -> PageBlocks(source)
<1>1. Parsed(d) = Where(found, {b \in Range(found) : b.lines # <<>>})
  BY DEF Parsed
<1>2. /\ d.format \in {"text", "docx", "xlsx", "pdf"} /\ IsText(source) /\ Ruled(source)
      /\ d.format = "xlsx" => source \in Seq(SheetLines \cup {"heading"}) /\ (source # <<>> => source[1] = "heading")
  <2>1. DOMAIN LineKinds = {"text", "docx", "xlsx", "pdf"}
    BY DEF LineKinds
  <2>2. LineKinds["xlsx"] = SheetLines \cup {"heading"}
    BY DEF LineKinds, SheetLines
  <2>3. source \in Seq(LineKinds[d.format])
    BY DEF DocumentOK
  <2>4. IsText(source)
    BY <2>3 DEF IsText
  <2>5. QED
    BY <2>1, <2>2, <2>3, <2>4 DEF DocumentOK, Ruled
<1>3. \E T : BlocksHold(found, T, 1, C, DOMAIN source)
  <2>1. CASE d.format = "text"
    <3>1. found = TextBlocks(source) /\ C = {l \in DOMAIN source : TextContent(source, l)}
      BY <2>1 DEF DocumentContent
    <3>2. QED
      BY <1>2, <3>1, TextBlocksHold
  <2>2. CASE d.format = "docx"
    <3>1. found = DocxBlocks(source) /\ C = {l \in DOMAIN source : DocxContent(source, l)}
      BY <2>2 DEF DocumentContent
    <3>2. BlocksHold(DocxBlocks(source), FileBlocks(source), 1, {l \in DOMAIN source : DocxContent(source, l)}, DOMAIN source)
      BY <1>2, DocxBlocksHold
    <3>3. QED
      BY <3>1, <3>2
  <2>3. CASE d.format = "xlsx"
    <3>1. found = SheetBlocks(source) /\ C = {l \in DOMAIN source : SheetContent(source, l)}
      BY <2>3 DEF DocumentContent
    <3>2. BlocksHold(SheetBlocks(source), FileBlocks(source), 1, {l \in DOMAIN source : SheetContent(source, l)}, DOMAIN source)
      BY <1>2, <2>3, SheetBlocksHold
    <3>3. QED
      BY <3>1, <3>2
  <2>4. CASE d.format = "pdf"
    <3>1. found = PageBlocks(source) /\ C = {l \in DOMAIN source : source[l] = "text"}
      BY <2>4 DEF DocumentContent
    <3>2. BlocksHold(PageBlocks(source), FileBlocks(source), 1, {l \in DOMAIN source : source[l] = "text"}, DOMAIN source)
      BY <1>2, PageBlocksHold
    <3>3. QED
      BY <3>1, <3>2
  <2>5. QED
    BY <1>2, <2>1, <2>2, <2>3, <2>4
<1> HIDE DEF found, C
<1>4. PICK T : BlocksHold(found, T, 1, C, DOMAIN source)
  BY <1>3
<1> DEFINE kept == Where(found, {b \in Range(found) : b.lines # <<>>})
<1>5. BlocksHold(kept, T, 1, C, DOMAIN source) /\ \A n \in DOMAIN kept : kept[n].lines # <<>>
  BY <1>4, WithoutEmpty
<1> HIDE DEF kept
<1>6. Parsed(d) = kept
  BY <1>1 DEF kept
<1>7. QED
  BY <1>5, <1>6 DEF C

-----------------------------------------------------------------------------
(* What the blocks hold of the source *)

\* The characters of a block's data, and of many blocks'
DataText(b) == IF b.kind = "heading" THEN <<>> ELSE FlattenSeq(Lines(Data(b)))
Remains(bs) == FlattenSeq([n \in DOMAIN bs |-> DataText(bs[n])])

\* Blocks of lines of the document that is loaded, in their order
BlocksOK(bs, T) ==
  /\ bs \in Seq(T) /\ Ordered(bs, Before(T))
  /\ \A n \in DOMAIN bs : BlockIn(bs[n], 1, DOMAIN call.text) /\ bs[n].lines # <<>>

\* A block's data are lines of it, in their order.
LEMMA DataIs ==
  ASSUME Loaded, NEW b, BlockIn(b, 1, DOMAIN call.text), b.lines # <<>>
  PROVE  /\ Data(b) \in Seq(DOMAIN call.text) /\ Ordered(Data(b), Less)
         /\ \A k \in DOMAIN Data(b) : Listed(b.lines, Data(b)[k])
<1>1. b.lines \in Seq(DOMAIN call.text) /\ Ordered(b.lines, Less)
  BY DEF BlockIn
<1>2. /\ Tail(b.lines) \in Seq(DOMAIN call.text) /\ Ordered(Tail(b.lines), Less)
      /\ \A k \in DOMAIN Tail(b.lines) : Listed(b.lines, Tail(b.lines)[k])
  BY <1>1, TailLists
<1>3. \A k \in DOMAIN b.lines : Listed(b.lines, b.lines[k])
  BY DEF Listed
<1>4. QED
  BY <1>1, <1>2, <1>3 DEF Data

\* The text of lines is its own characters, each a line of them.
LEMMA LinesText ==
  ASSUME Loaded, NEW ls \in Seq(DOMAIN call.text)
  PROVE  /\ FlattenSeq(Lines(ls)) \in Seq(Nat) /\ Characters(FlattenSeq(Lines(ls))) = FlattenSeq(Lines(ls))
         /\ \A i \in DOMAIN FlattenSeq(Lines(ls)) : Listed(ls, FlattenSeq(Lines(ls))[i])
<1>1. Lines(ls) \in Seq(Seq(Nat)) /\ DOMAIN Lines(ls) = DOMAIN ls
  BY LinesType
<1>2. FlattenSeq(Lines(ls)) \in Seq(Nat)
  BY <1>1, FlattenType
<1>3. ASSUME NEW i \in DOMAIN FlattenSeq(Lines(ls))
      PROVE  Listed(ls, FlattenSeq(Lines(ls))[i]) /\ FlattenSeq(Lines(ls))[i] # 0
  <2>1. PICK n \in DOMAIN Lines(ls) : \E k \in DOMAIN Lines(ls)[n] : FlattenSeq(Lines(ls))[i] = Lines(ls)[n][k]
    BY <1>1, FlattenHolds
  <2>2. ls[n] \in DOMAIN call.text /\ n \in DOMAIN ls
    BY <1>1
  <2>3. Lines(ls)[n] = Line(ls[n])
    BY <2>2 DEF Lines
  <2>4. \A k \in DOMAIN Line(ls[n]) : Line(ls[n])[k] = ls[n] /\ ls[n] # 0
    BY <2>2, LineType
  <2>5. FlattenSeq(Lines(ls))[i] = ls[n] /\ ls[n] # 0
    BY <2>1, <2>3, <2>4
  <2>6. QED
    BY <2>2, <2>5 DEF Listed
<1>4. Characters(FlattenSeq(Lines(ls))) = FlattenSeq(Lines(ls))
  BY <1>2, <1>3, CharactersOf
<1>5. QED
  BY <1>2, <1>3, <1>4

\* What is not more
AtMost == {pair \in Nat \X Nat : pair[1] <= pair[2]}

\* Where only one is not empty, that one is the flattening.
LEMMA FlattenOnly ==
  ASSUME NEW T, NEW s \in Seq(Seq(T)), NEW k \in DOMAIN s, \A n \in DOMAIN s : n # k => s[n] = <<>>
  PROVE  FlattenSeq(s) = s[k]
<1> DEFINE Good(u) == /\ (\A n \in DOMAIN u : u[n] = <<>>) => FlattenSeq(u) = <<>>
                      /\ \A m \in DOMAIN u : (\A n \in DOMAIN u : n # m => u[n] = <<>>) => FlattenSeq(u) = u[m]
           S == {u \in Seq(Seq(T)) : Good(u)}
<1>1. <<>> \in S
  BY FlattenEmpty
<1>2. ASSUME NEW u \in Seq(Seq(T)), NEW x \in Seq(T), u \in S PROVE Append(u, x) \in S
  <2> DEFINE w == Append(u, x)
             F == FlattenSeq(u)
  <2>1. FlattenSeq(w) = F \o x
    BY FlattenAppend
  <2>2. F \in Seq(T)
    BY FlattenType
  <2>3. /\ w \in Seq(Seq(T)) /\ DOMAIN w = 1..(Len(u) + 1) /\ Len(u) \in Nat /\ DOMAIN u = 1..Len(u)
        /\ w[Len(u) + 1] = x /\ \A a \in DOMAIN u : w[a] = u[a]
    OBVIOUS
  <2>4. Good(u)
    BY <1>2
  <2> HIDE DEF w, F
  <2>5. ASSUME \A n \in DOMAIN w : w[n] = <<>> PROVE F \o x = <<>>
    <3>1. x = <<>> /\ \A n \in DOMAIN u : u[n] = <<>>
      <4>1. Len(u) + 1 \in DOMAIN w /\ \A n \in DOMAIN u : n \in DOMAIN w
        BY <2>3
      <4>2. QED
        BY <2>3, <2>5, <4>1
    <3>2. F = <<>>
      BY <2>4, <3>1 DEF F
    <3>3. QED
      BY <3>1, <3>2
  <2>6. ASSUME NEW m \in DOMAIN w, \A n \in DOMAIN w : n # m => w[n] = <<>> PROVE F \o x = w[m]
    <3>1. CASE m = Len(u) + 1
      <4>1. \A n \in DOMAIN u : u[n] = <<>>
        BY <2>3, <2>6, <3>1
      <4>2. F = <<>> /\ <<>> \o x = x
        BY <2>4, <4>1 DEF F
      <4>3. QED
        BY <2>3, <3>1, <4>2
    <3>2. CASE m # Len(u) + 1
      <4>1. m \in DOMAIN u /\ x = <<>> /\ \A n \in DOMAIN u : n # m => u[n] = <<>>
        <5>1. Len(u) + 1 \in DOMAIN w /\ \A n \in DOMAIN u : n \in DOMAIN w
          BY <2>3
        <5>2. m \in DOMAIN u
          BY <2>3, <3>2
        <5>3. QED
          BY <2>3, <2>6, <3>2, <5>1, <5>2
      <4>2. F = u[m] /\ F \o <<>> = F
        BY <2>2, <2>4, <4>1 DEF F
      <4>3. QED
        BY <2>3, <4>1, <4>2
    <3>3. QED
      BY <3>1, <3>2
  <2>7. Good(w)
    BY <2>1, <2>5, <2>6
  <2>8. QED
    BY <2>3, <2>7 DEF w
<1> HIDE DEF S
<1>3. Seq(Seq(T)) \subseteq S
  BY <1>1, <1>2, SeqInduct
<1>4. QED
  BY <1>3 DEF S

\* How often something is in a sequence
LEMMA CountIs ==
  ASSUME NEW T, NEW l, NEW s \in Seq(T)
  PROVE  Cardinality({i \in DOMAIN s : s[i] = l}) = Len(Where(s, {l}))
<1> DEFINE At(u) == {i \in DOMAIN u : u[i] = l}
           Q == {u \in Seq(T) : IsFiniteSet(At(u)) /\ Cardinality(At(u)) = Len(Where(u, {l}))}
<1>1. <<>> \in Q
  <2>1. At(<<>>) = {} /\ Where(<<>>, {l}) = <<>>
    BY WhereEmpty
  <2>2. QED
    BY <2>1, FS_EmptySet
<1>2. ASSUME NEW u \in Seq(T), NEW x \in T, u \in Q PROVE Append(u, x) \in Q
  <2> DEFINE w == Append(u, x)
  <2>1. /\ w \in Seq(T) /\ DOMAIN w = 1..(Len(u) + 1) /\ Len(u) \in Nat /\ DOMAIN u = 1..Len(u)
        /\ w[Len(u) + 1] = x /\ \A a \in DOMAIN u : w[a] = u[a]
    OBVIOUS
  <2>2. IsFiniteSet(At(u)) /\ Cardinality(At(u)) = Len(Where(u, {l}))
    BY <1>2
  <2>3. Where(w, {l}) = IF x \in {l} THEN Append(Where(u, {l}), x) ELSE Where(u, {l})
    BY WhereAppend
  <2>4. Where(u, {l}) \in Seq(T)
    BY WhereType
  <2> HIDE DEF w
  <2>5. CASE x = l
    <3>1. At(w) = At(u) \cup {Len(u) + 1} /\ Len(u) + 1 \notin At(u)
      BY <2>1, <2>5
    <3>2. Len(Where(w, {l})) = Len(Where(u, {l})) + 1
      BY <2>3, <2>4, <2>5
    <3> HIDE DEF At
    <3>3. IsFiniteSet(At(w)) /\ Cardinality(At(w)) = Cardinality(At(u)) + 1
      BY <2>2, <3>1, FS_AddElement
    <3>4. QED
      BY <2>1, <2>2, <3>2, <3>3 DEF w, At
  <2>6. CASE x # l
    <3>1. At(w) = At(u)
      BY <2>1, <2>6
    <3>2. Where(w, {l}) = Where(u, {l})
      BY <2>3, <2>6
    <3> HIDE DEF At
    <3>3. QED
      BY <2>1, <2>2, <3>1, <3>2 DEF w, At
  <2>7. QED
    BY <2>5, <2>6
<1> HIDE DEF Q
<1>3. Seq(T) \subseteq Q
  BY <1>1, <1>2, SeqInduct
<1>4. QED
  BY <1>3 DEF Q

\* Lines in order: their text is in order, and each line is whole in it.
LEMMA LinesOrdered ==
  ASSUME Loaded, NEW ls \in Seq(DOMAIN call.text), Ordered(ls, Less)
  PROVE  /\ Ordered(FlattenSeq(Lines(ls)), AtMost)
         /\ \A l \in DOMAIN call.text : Listed(ls, l) => Where(FlattenSeq(Lines(ls)), {l}) = Line(l)
<1> DEFINE texts == Lines(ls)
<1>1. texts \in Seq(Seq(Nat)) /\ DOMAIN texts = DOMAIN ls
  BY LinesType
<1>2. ASSUME NEW n \in DOMAIN ls
      PROVE  /\ texts[n] = Line(ls[n]) /\ ls[n] \in Nat /\ ls[n] \in DOMAIN call.text /\ Line(ls[n]) \in Seq(Nat)
             /\ \A i \in DOMAIN texts[n] : texts[n][i] = ls[n]
  <2>1. ls[n] \in DOMAIN call.text /\ texts[n] = Line(ls[n])
    BY DEF Lines
  <2>2. QED
    BY <2>1, LineType
<1> HIDE DEF texts
<1>3. Ordered(FlattenSeq(texts), AtMost)
  <2>1. \A n \in DOMAIN texts : Ordered(texts[n], AtMost)
    BY <1>1, <1>2 DEF Ordered, AtMost
  <2>2. ASSUME NEW n \in DOMAIN texts, NEW m \in DOMAIN texts, n < m,
               NEW i \in DOMAIN texts[n], NEW j \in DOMAIN texts[m]
        PROVE  <<texts[n][i], texts[m][j]>> \in AtMost
    <3>1. texts[n][i] = ls[n] /\ texts[m][j] = ls[m] /\ ls[n] \in Nat /\ ls[m] \in Nat
      BY <1>1, <1>2
    <3>2. ls[n] < ls[m]
      BY <1>1, <2>2 DEF Ordered, Less
    <3>3. QED
      BY <3>1, <3>2 DEF AtMost
  <2>3. QED
    BY <1>1, <2>1, <2>2, FlattenOrdered
<1>4. ASSUME NEW l \in DOMAIN call.text, Listed(ls, l) PROVE Where(FlattenSeq(texts), {l}) = Line(l)
  <2> DEFINE only == [n \in DOMAIN texts |-> Where(texts[n], {l})]
  <2>1. PICK k \in DOMAIN ls : ls[k] = l
    BY <1>4 DEF Listed
  <2>2. \A S : Where(FlattenSeq(texts), S) = FlattenSeq([n \in DOMAIN texts |-> Where(texts[n], S)])
    BY <1>1, WhereFlatten
  <2>3. Where(FlattenSeq(texts), {l}) = FlattenSeq(only)
    BY <2>2
  <2>4. only \in Seq(Seq(Nat))
    <3>1. \A n \in DOMAIN texts : Where(texts[n], {l}) \in Seq(Nat)
      <4>1. ASSUME NEW n \in DOMAIN texts PROVE Where(texts[n], {l}) \in Seq(Nat)
        <5>1. texts[n] \in Seq(Nat)
          BY <1>1
        <5>2. QED
          BY <5>1, WhereType
      <4>2. QED
        BY <4>1
    <3>2. DOMAIN texts = 1..Len(texts) /\ Len(texts) \in Nat
      BY <1>1
    <3>3. only \in [1..Len(texts) -> Seq(Nat)]
      BY <3>1, <3>2
    <3> HIDE DEF only
    <3>4. QED
      BY <3>2, <3>3
  <2>5. only[k] = Line(l)
    <3>1. only[k] = Where(Line(l), {l})
      BY <1>1, <1>2, <2>1
    <3>2. Line(l) \in Seq(Nat) /\ \A i \in DOMAIN Line(l) : Line(l)[i] \in {l}
      BY LineType
    <3>3. Where(Line(l), {l}) = Line(l)
      BY <3>2, WhereAll
    <3>4. QED
      BY <3>1, <3>3
  <2>6. ASSUME NEW n \in DOMAIN texts, n # k PROVE only[n] = <<>>
    <3>1. ls[n] # l
      <4>1. n \in DOMAIN ls /\ n \in Nat /\ k \in Nat
        BY <1>1
      <4>2. n < k \/ k < n
        BY <2>6, <4>1
      <4>3. ls[n] < ls[k] \/ ls[k] < ls[n]
        BY <4>1, <4>2 DEF Ordered, Less
      <4>4. ls[n] \in Nat /\ ls[k] \in Nat
        BY <1>2, <4>1
      <4>5. QED
        BY <2>1, <4>3, <4>4
    <3>2. texts[n] \in Seq(Nat) /\ \A i \in DOMAIN texts[n] : texts[n][i] \notin {l}
      BY <1>1, <1>2, <3>1
    <3>3. Where(texts[n], {l}) = <<>>
      BY <3>2, WhereNone
    <3>4. QED
      BY <3>3
  <2>7. DOMAIN only = DOMAIN texts
    OBVIOUS
  <2> HIDE DEF only
  <2>8. FlattenSeq(only) = only[k]
    BY <1>1, <2>4, <2>6, <2>7, FlattenOnly
  <2>9. QED
    BY <2>3, <2>5, <2>8
<1>5. QED
  BY <1>3, <1>4 DEF texts

\* What is before and what is not
LEMMA BeforeDiffers ==
  ASSUME Loaded, NEW T, NEW bs, BlocksOK(bs, T), NEW n \in DOMAIN bs, NEW m \in DOMAIN bs, n < m,
         NEW x, NEW y, Listed(bs[n].lines, x), Listed(bs[m].lines, y)
  PROVE  x < y /\ x \in Nat /\ y \in Nat
<1>1. <<bs[n], bs[m]>> \in Before(T)
  BY DEF BlocksOK, Ordered
<1>2. PICK a \in DOMAIN bs[n].lines : bs[n].lines[a] = x
  BY DEF Listed
<1>3. PICK c \in DOMAIN bs[m].lines : bs[m].lines[c] = y
  BY DEF Listed
<1>4. bs[n].lines[a] < bs[m].lines[c]
  BY <1>1 DEF Before
<1>5. bs[n].lines[a] \in Nat /\ bs[m].lines[c] \in Nat
  BY DEF BlocksOK, BlockIn
<1>6. QED
  BY <1>2, <1>3, <1>4, <1>5

\* The text of a block's data is of its lines.
LEMMA DataTextIs ==
  ASSUME Loaded, NEW b, BlockIn(b, 1, DOMAIN call.text), b.lines # <<>>
  PROVE  /\ DataText(b) \in Seq(Nat) /\ Characters(DataText(b)) = DataText(b) /\ Ordered(DataText(b), AtMost)
         /\ \A i \in DOMAIN DataText(b) : Listed(b.lines, DataText(b)[i])
         /\ \A l \in DOMAIN call.text : b.kind # "heading" /\ Listed(Data(b), l) =>
              Listed(b.lines, l) /\ Where(DataText(b), {l}) = Line(l)
<1>1. /\ Data(b) \in Seq(DOMAIN call.text) /\ Ordered(Data(b), Less)
      /\ \A k \in DOMAIN Data(b) : Listed(b.lines, Data(b)[k])
  BY DataIs
<1> DEFINE t == FlattenSeq(Lines(Data(b)))
<1>2. /\ t \in Seq(Nat) /\ Characters(t) = t /\ \A i \in DOMAIN t : Listed(Data(b), t[i])
      /\ Ordered(t, AtMost)
      /\ \A l \in DOMAIN call.text : Listed(Data(b), l) => Where(t, {l}) = Line(l)
  BY <1>1, LinesText, LinesOrdered
<1>3. \A l : Listed(Data(b), l) => Listed(b.lines, l)
  BY <1>1 DEF Listed
<1> HIDE DEF t
<1>4. CASE b.kind = "heading"
  <2>1. DataText(b) = <<>> /\ Characters(<<>>) = <<>>
    BY <1>4, WhereEmpty DEF DataText, Characters
  <2>2. QED
    BY <1>4, <2>1 DEF Ordered
<1>5. CASE b.kind # "heading"
  <2>1. DataText(b) = t
    BY <1>5 DEF DataText, t
  <2>2. QED
    BY <1>2, <1>3, <2>1
<1>6. QED
  BY <1>4, <1>5

\* What blocks hold of the text is in order, and each line of it is whole.
LEMMA RemainsIs ==
  ASSUME Loaded, NEW T, NEW bs, BlocksOK(bs, T)
  PROVE  /\ Remains(bs) \in Seq(Nat) /\ Ordered(Remains(bs), AtMost)
         /\ \A l \in DOMAIN call.text : IsData(bs, l) => Where(Remains(bs), {l}) = Line(l)
<1> DEFINE each == [n \in DOMAIN bs |-> DataText(bs[n])]
<1>1. bs \in Seq(T) /\ DOMAIN bs = 1..Len(bs) /\ Len(bs) \in Nat
  BY DEF BlocksOK
<1>2. ASSUME NEW n \in DOMAIN bs
      PROVE  /\ each[n] \in Seq(Nat) /\ Ordered(each[n], AtMost)
             /\ \A i \in DOMAIN each[n] : Listed(bs[n].lines, each[n][i])
             /\ \A l \in DOMAIN call.text : bs[n].kind # "heading" /\ Listed(Data(bs[n]), l) =>
                  Listed(bs[n].lines, l) /\ Where(each[n], {l}) = Line(l)
  <2>1. BlockIn(bs[n], 1, DOMAIN call.text) /\ bs[n].lines # <<>>
    BY DEF BlocksOK
  <2>2. each[n] = DataText(bs[n])
    OBVIOUS
  <2> HIDE DEF each
  <2>3. QED
    BY <2>1, <2>2, DataTextIs
<1>3. each \in Seq(Seq(Nat)) /\ DOMAIN each = DOMAIN bs
  BY <1>1, <1>2
<1>4. Remains(bs) = FlattenSeq(each)
  BY DEF Remains
<1> HIDE DEF each
<1>5. ASSUME NEW n \in DOMAIN bs, NEW m \in DOMAIN bs, n < m, NEW i \in DOMAIN each[n], NEW j \in DOMAIN each[m]
      PROVE  <<each[n][i], each[m][j]>> \in AtMost
  <2>1. Listed(bs[n].lines, each[n][i]) /\ Listed(bs[m].lines, each[m][j])
    BY <1>2
  <2>2. each[n][i] < each[m][j] /\ each[n][i] \in Nat /\ each[m][j] \in Nat
    BY <1>5, <2>1, BeforeDiffers
  <2>3. QED
    BY <2>2 DEF AtMost
<1>6. FlattenSeq(each) \in Seq(Nat) /\ Ordered(FlattenSeq(each), AtMost)
  <2>1. \A n \in DOMAIN each : Ordered(each[n], AtMost)
    BY <1>2, <1>3
  <2>2. Ordered(FlattenSeq(each), AtMost)
    BY <1>3, <1>5, <2>1, FlattenOrdered
  <2>3. QED
    BY <1>3, <2>2, FlattenType
<1>7. ASSUME NEW l \in DOMAIN call.text, IsData(bs, l) PROVE Where(FlattenSeq(each), {l}) = Line(l)
  <2> DEFINE only == [n \in DOMAIN each |-> Where(each[n], {l})]
  <2>1. PICK k \in DOMAIN bs : bs[k].kind # "heading" /\ Listed(Data(bs[k]), l)
    BY <1>7 DEF IsData
  <2>2. \A S : Where(FlattenSeq(each), S) = FlattenSeq([n \in DOMAIN each |-> Where(each[n], S)])
    BY <1>3, WhereFlatten
  <2>3. Where(FlattenSeq(each), {l}) = FlattenSeq(only)
    BY <2>2
  <2>4. only \in Seq(Seq(Nat))
    <3>1. ASSUME NEW n \in DOMAIN each PROVE Where(each[n], {l}) \in Seq(Nat)
      <4>1. each[n] \in Seq(Nat)
        BY <1>3
      <4>2. QED
        BY <4>1, WhereType
    <3>2. DOMAIN each = 1..Len(each) /\ Len(each) \in Nat
      BY <1>3
    <3>3. only \in [1..Len(each) -> Seq(Nat)]
      BY <3>1, <3>2
    <3> HIDE DEF only
    <3>4. QED
      BY <3>2, <3>3
  <2>5. only[k] = Line(l) /\ Listed(bs[k].lines, l)
    BY <1>2, <1>3, <2>1
  <2>6. ASSUME NEW n \in DOMAIN bs, n # k PROVE only[n] = <<>>
    <3>1. each[n] \in Seq(Nat) /\ n \in DOMAIN each
      BY <1>2, <1>3
    <3>2. ASSUME NEW i \in DOMAIN each[n], each[n][i] = l PROVE FALSE
      <4>1. Listed(bs[n].lines, l)
        BY <1>2, <3>2
      <4>2. n < k \/ k < n
        BY <1>1, <2>6
      <4>3. n < k => l < l /\ l \in Nat
        BY <2>5, <4>1, BeforeDiffers
      <4>4. k < n => l < l /\ l \in Nat
        BY <2>5, <4>1, BeforeDiffers
      <4>5. QED
        BY <4>2, <4>3, <4>4
    <3>3. \A i \in DOMAIN each[n] : each[n][i] \notin {l}
      BY <3>2
    <3>4. Where(each[n], {l}) = <<>>
      BY <3>1, <3>3, WhereNone
    <3>5. QED
      BY <3>1, <3>4
  <2>7. DOMAIN only = DOMAIN each
    OBVIOUS
  <2> HIDE DEF only
  <2>8. FlattenSeq(only) = only[k]
    BY <1>3, <2>4, <2>6, <2>7, FlattenOnly
  <2>9. QED
    BY <2>3, <2>5, <2>8
<1>8. QED
  BY <1>4, <1>6, <1>7

-----------------------------------------------------------------------------
(* What chunks hold *)

ChunkPiece ==
  [block : Nat, part : Nat, heading : Seq(Nat), header : Seq(Nat), text : Seq(Nat)]

\* The texts of pieces in a row
TextOf(ps) == FlattenSeq([k \in DOMAIN ps |-> ps[k].text])

\* The pieces of a chunk that the last of these does not have
News(rs, c) == IF rs = <<>> THEN c ELSE Where(c, Range(c) \ Range(rs[Len(rs)]))

\* What these chunks hold, each without what the one before has
FreshOf(rs, n) == IF n = 1 THEN rs[n] ELSE Where(rs[n], Range(rs[n]) \ Range(rs[n - 1]))
HeldOf(rs) == Characters(FlattenSeq([n \in DOMAIN rs |-> TextOf(FreshOf(rs, n))]))

\* The texts of a sequence with one more
LEMMA TextOfIs ==
  ASSUME NEW ps \in Seq(ChunkPiece)
  PROVE  /\ TextOf(ps) \in Seq(Nat) /\ [k \in DOMAIN ps |-> ps[k].text] \in Seq(Seq(Nat))
         /\ \A p \in ChunkPiece : TextOf(Append(ps, p)) = TextOf(ps) \o p.text
<1> DEFINE Each(qs) == [k \in DOMAIN qs |-> qs[k].text]
<1>1. ASSUME NEW qs \in Seq(ChunkPiece)
      PROVE  /\ Each(qs) \in Seq(Seq(Nat)) /\ Len(Each(qs)) = Len(qs)
             /\ \A k \in 1..Len(qs) : Each(qs)[k] = qs[k].text
  <2>1. ASSUME NEW k \in DOMAIN qs PROVE qs[k].text \in Seq(Nat)
    <3>1. qs[k] \in ChunkPiece
      OBVIOUS
    <3>2. QED
      BY <3>1 DEF ChunkPiece
  <2>2. DOMAIN qs = 1..Len(qs) /\ Len(qs) \in Nat
    OBVIOUS
  <2>3. QED
    BY <2>1, <2>2
<1>2. TextOf(ps) \in Seq(Nat)
  BY <1>1, FlattenType DEF TextOf
<1>3. ASSUME NEW p \in ChunkPiece PROVE TextOf(Append(ps, p)) = TextOf(ps) \o p.text
  <2> DEFINE w == Append(ps, p)
             a == Each(w)
             b == Append(Each(ps), p.text)
  <2>1. /\ w \in Seq(ChunkPiece) /\ Len(w) = Len(ps) + 1 /\ Len(ps) \in Nat
        /\ w[Len(ps) + 1] = p /\ \A k \in 1..Len(ps) : w[k] = ps[k]
    OBVIOUS
  <2>2. p.text \in Seq(Nat)
    BY DEF ChunkPiece
  <2> HIDE DEF w
  <2>3. a \in Seq(Seq(Nat)) /\ Len(a) = Len(ps) + 1 /\ \A k \in 1..(Len(ps) + 1) : a[k] = w[k].text
    BY <1>1, <2>1
  <2>4. /\ Each(ps) \in Seq(Seq(Nat)) /\ Len(Each(ps)) = Len(ps)
        /\ \A k \in 1..Len(ps) : Each(ps)[k] = ps[k].text
    BY <1>1
  <2> HIDE DEF Each
  <2>5. /\ b \in Seq(Seq(Nat)) /\ Len(b) = Len(ps) + 1 /\ b[Len(ps) + 1] = p.text
        /\ \A k \in 1..Len(ps) : b[k] = ps[k].text
    BY <2>2, <2>4
  <2> HIDE DEF a, b
  <2>6. ASSUME NEW k \in 1..(Len(ps) + 1) PROVE a[k] = b[k]
    <3>1. CASE k = Len(ps) + 1
      BY <2>1, <2>3, <2>5, <3>1
    <3>2. CASE k # Len(ps) + 1
      <4>1. k \in 1..Len(ps)
        BY <2>1, <3>2
      <4>2. QED
        BY <2>1, <2>3, <2>5, <4>1
    <3>3. QED
      BY <3>1, <3>2
  <2>7. a = b
    BY <2>3, <2>5, <2>6, SeqEqual
  <2>8. FlattenSeq(b) = FlattenSeq(Each(ps)) \o p.text
    BY <2>2, <2>4, FlattenAppend DEF b
  <2>9. TextOf(w) = FlattenSeq(a) /\ TextOf(ps) = FlattenSeq(Each(ps))
    BY DEF TextOf, a, Each
  <2>10. QED
    BY <2>7, <2>8, <2>9 DEF w
<1>4. QED
  BY <1>1, <1>2, <1>3

\* What it takes depends on the members only.
LEMMA WhereSame ==
  ASSUME NEW s, NEW A, NEW B, \A n \in DOMAIN s : s[n] \in A <=> s[n] \in B
  PROVE  Where(s, A) = Where(s, B)
<1>1. [n \in DOMAIN s |-> IF s[n] \in A THEN <<s[n]>> ELSE <<>>] = [n \in DOMAIN s |-> IF s[n] \in B THEN <<s[n]>> ELSE <<>>]
  OBVIOUS
<1>2. QED
  BY <1>1 DEF Where

\* What is new of a chunk
LEMMA NewsType ==
  ASSUME NEW rs, NEW c \in Seq(ChunkPiece)
  PROVE  News(rs, c) \in Seq(ChunkPiece)
<1>1. Where(c, Range(c) \ Range(rs[Len(rs)])) \in Seq(ChunkPiece)
  BY WhereType
<1>2. QED
  BY <1>1 DEF News

\* A piece that the chunk before does not have is new,
LEMMA NewsMore ==
  ASSUME NEW rs, NEW c \in Seq(ChunkPiece), NEW p \in ChunkPiece,
         rs # <<>> => p \notin Range(rs[Len(rs)])
  PROVE  News(rs, Append(c, p)) = Append(News(rs, c), p)
<1>1. CASE rs = <<>>
  BY <1>1 DEF News
<1>2. CASE rs # <<>>
  <2> DEFINE w == Append(c, p)
             R == Range(rs[Len(rs)])
             A == Range(w) \ R
  <2>1. w \in Seq(ChunkPiece) /\ DOMAIN w = 1..(Len(c) + 1) /\ Len(c) \in Nat /\ DOMAIN c = 1..Len(c)
        /\ w[Len(c) + 1] = p /\ \A k \in DOMAIN c : w[k] = c[k]
    OBVIOUS
  <2>2. p \in A
    BY <1>2, <2>1 DEF Range
  <2>3. \A n \in DOMAIN c : c[n] \in A <=> c[n] \in Range(c) \ R
    BY <2>1 DEF Range
  <2> HIDE DEF A, R
  <2>4. Where(Append(c, p), A) = Append(Where(c, A), p)
    BY <2>2, WhereAppend
  <2>5. Where(c, A) = Where(c, Range(c) \ R)
    BY <2>3, WhereSame
  <2>6. QED
    BY <1>2, <2>4, <2>5 DEF News, A, R, w
<1>3. QED
  BY <1>1, <1>2

\* and what it has is not.
LEMMA NewsNone ==
  ASSUME NEW rs, rs # <<>>, NEW c \in Seq(ChunkPiece), \A k \in DOMAIN c : c[k] \in Range(rs[Len(rs)])
  PROVE  News(rs, c) = <<>>
<1> DEFINE A == Range(c) \ Range(rs[Len(rs)])
<1>1. \A k \in DOMAIN c : c[k] \notin A
  OBVIOUS
<1> HIDE DEF A
<1>2. Where(c, A) = <<>>
  BY <1>1, WhereNone
<1>3. QED
  BY <1>2 DEF News, A

\* A chunk more holds what is new of it.
LEMMA HeldAppend ==
  ASSUME NEW rs \in Seq(Seq(ChunkPiece)), NEW c \in Seq(ChunkPiece)
  PROVE  /\ HeldOf(rs) \in Seq(Nat)
         /\ HeldOf(Append(rs, c)) = HeldOf(rs) \o Characters(TextOf(News(rs, c)))
<1> DEFINE Each(qs) == [n \in DOMAIN qs |-> TextOf(FreshOf(qs, n))]
           w == Append(rs, c)
           new == TextOf(News(rs, c))
           a == Each(w)
           b == Append(Each(rs), new)
<1>1. ASSUME NEW qs \in Seq(Seq(ChunkPiece))
      PROVE  /\ Each(qs) \in Seq(Seq(Nat)) /\ Len(Each(qs)) = Len(qs)
             /\ \A n \in 1..Len(qs) : Each(qs)[n] = TextOf(FreshOf(qs, n))
  <2>1. ASSUME NEW n \in DOMAIN qs PROVE TextOf(FreshOf(qs, n)) \in Seq(Nat)
    <3>1. qs[n] \in Seq(ChunkPiece)
      OBVIOUS
    <3>2. FreshOf(qs, n) \in Seq(ChunkPiece)
      BY <3>1, WhereType DEF FreshOf
    <3>3. QED
      BY <3>2, TextOfIs
  <2>2. DOMAIN qs = 1..Len(qs) /\ Len(qs) \in Nat
    OBVIOUS
  <2>3. QED
    BY <2>1, <2>2
<1>2. /\ w \in Seq(Seq(ChunkPiece)) /\ Len(w) = Len(rs) + 1 /\ Len(rs) \in Nat
      /\ w[Len(rs) + 1] = c /\ \A n \in 1..Len(rs) : w[n] = rs[n]
  OBVIOUS
<1>3. new \in Seq(Nat)
  <2>1. News(rs, c) \in Seq(ChunkPiece)
    BY NewsType
  <2>2. QED
    BY <2>1, TextOfIs
<1> HIDE DEF w
<1>4. FreshOf(w, Len(rs) + 1) = News(rs, c)
  <2>1. CASE Len(rs) = 0
    <3>1. rs = <<>> /\ Len(rs) + 1 = 1
      BY <2>1
    <3>2. QED
      BY <1>2, <3>1 DEF FreshOf, News
  <2>2. CASE Len(rs) # 0
    <3>1. rs # <<>> /\ Len(rs) + 1 # 1 /\ (Len(rs) + 1) - 1 = Len(rs) /\ Len(rs) \in 1..Len(rs)
      BY <1>2, <2>2
    <3>2. w[(Len(rs) + 1) - 1] = rs[Len(rs)]
      BY <1>2, <3>1
    <3>3. QED
      BY <1>2, <3>1, <3>2 DEF FreshOf, News
  <2>3. QED
    BY <2>1, <2>2
<1>5. ASSUME NEW n \in 1..Len(rs) PROVE FreshOf(w, n) = FreshOf(rs, n)
  <2>1. n # 1 => n - 1 \in 1..Len(rs)
    BY <1>2
  <2>2. QED
    BY <1>2, <2>1 DEF FreshOf
<1>6. a \in Seq(Seq(Nat)) /\ Len(a) = Len(rs) + 1 /\ \A n \in 1..(Len(rs) + 1) : a[n] = TextOf(FreshOf(w, n))
  BY <1>1, <1>2
<1>7. /\ Each(rs) \in Seq(Seq(Nat)) /\ Len(Each(rs)) = Len(rs)
      /\ \A n \in 1..Len(rs) : Each(rs)[n] = TextOf(FreshOf(rs, n))
  BY <1>1
<1>8. HeldOf(rs) = Characters(FlattenSeq(Each(rs))) /\ HeldOf(w) = Characters(FlattenSeq(a))
  BY DEF HeldOf
<1> HIDE DEF Each, new
<1>9. /\ b \in Seq(Seq(Nat)) /\ Len(b) = Len(rs) + 1 /\ b[Len(rs) + 1] = new
      /\ \A n \in 1..Len(rs) : b[n] = TextOf(FreshOf(rs, n))
  BY <1>3, <1>7
<1> HIDE DEF a, b
<1>10. ASSUME NEW n \in 1..(Len(rs) + 1) PROVE a[n] = b[n]
  <2>1. CASE n = Len(rs) + 1
    BY <1>4, <1>6, <1>9, <2>1 DEF new
  <2>2. CASE n # Len(rs) + 1
    <3>1. n \in 1..Len(rs)
      BY <1>2, <2>2
    <3>2. QED
      BY <1>5, <1>6, <1>9, <3>1
  <2>3. QED
    BY <2>1, <2>2
<1>11. a = b
  BY <1>6, <1>9, <1>10, SeqEqual
<1>12. FlattenSeq(b) = FlattenSeq(Each(rs)) \o new /\ FlattenSeq(Each(rs)) \in Seq(Nat)
  BY <1>3, <1>7, FlattenAppend, FlattenType DEF b
<1>13. Characters(FlattenSeq(Each(rs)) \o new) = Characters(FlattenSeq(Each(rs))) \o Characters(new)
  BY <1>3, <1>12, CharactersOf
<1>14. HeldOf(rs) \in Seq(Nat)
  BY <1>8, <1>12, CharactersOf
<1>15. QED
  BY <1>8, <1>11, <1>12, <1>13, <1>14 DEF w, new

\* Two sequences in a row
LEMMA InARow ==
  ASSUME NEW T, NEW u \in Seq(T), NEW v \in Seq(T)
  PROVE  /\ u \o v \in Seq(T) /\ Len(u \o v) = Len(u) + Len(v) /\ Len(u) \in Nat /\ Len(v) \in Nat
         /\ \A k \in 1..Len(u) : (u \o v)[k] = u[k]
         /\ \A k \in 1..Len(v) : (u \o v)[Len(u) + k] = v[k]
OBVIOUS

\* Pieces that are chunks of their own hold their texts.
LEMMA HeldSingles ==
  ASSUME NEW rs \in Seq(Seq(ChunkPiece)), NEW ps \in Seq(ChunkPiece),
         \A k \in DOMAIN ps : rs # <<>> => ps[k] \notin Range(rs[Len(rs)]),
         \A j, k \in DOMAIN ps : j < k => ps[j] # ps[k]
  PROVE  HeldOf(rs \o Singles(ps)) = HeldOf(rs) \o Characters(TextOf(ps)) /\ rs \o Singles(ps) \in Seq(Seq(ChunkPiece))
<1> DEFINE Good(qs) == /\ \A k \in DOMAIN qs : rs # <<>> => qs[k] \notin Range(rs[Len(rs)])
                       /\ \A j, k \in DOMAIN qs : j < k => qs[j] # qs[k]
           S == {qs \in Seq(ChunkPiece) : Good(qs) => HeldOf(rs \o Singles(qs)) = HeldOf(rs) \o Characters(TextOf(qs))}
<1>1. <<>> \in S
  <2>1. Singles(<<>>) = <<>> /\ TextOf(<<>>) = FlattenSeq(<<>>) /\ <<>> \in Seq(ChunkPiece)
    BY DEF Singles, TextOf
  <2>2. Characters(TextOf(<<>>)) = <<>> /\ rs \o <<>> = rs
    BY <2>1, FlattenEmpty, WhereEmpty DEF Characters
  <2>3. <<>> \in Seq(ChunkPiece)
    OBVIOUS
  <2>4. HeldOf(rs) \in Seq(Nat)
    BY <2>3, HeldAppend
  <2>5. HeldOf(rs) \o <<>> = HeldOf(rs)
    BY <2>4
  <2>6. QED
    BY <2>1, <2>2, <2>5
<1>2. ASSUME NEW qs \in Seq(ChunkPiece), NEW p \in ChunkPiece, qs \in S PROVE Append(qs, p) \in S
  <2> DEFINE w == Append(qs, p)
             us == rs \o Singles(qs)
  <2>1. /\ w \in Seq(ChunkPiece) /\ DOMAIN w = 1..(Len(qs) + 1) /\ Len(qs) \in Nat /\ DOMAIN qs = 1..Len(qs)
        /\ w[Len(qs) + 1] = p /\ \A k \in DOMAIN qs : w[k] = qs[k]
    OBVIOUS
  <2> HIDE DEF w
  <2>2. SUFFICES ASSUME Good(w) PROVE HeldOf(rs \o Singles(w)) = HeldOf(rs) \o Characters(TextOf(w))
    BY <2>1 DEF w
  <2>3. /\ Good(qs) /\ (rs # <<>> => p \notin Range(rs[Len(rs)])) /\ \A k \in DOMAIN qs : qs[k] # p
    <3>1. Len(qs) + 1 \in DOMAIN w /\ \A k \in DOMAIN qs : k \in DOMAIN w /\ k < Len(qs) + 1
      BY <2>1
    <3>2. QED
      BY <2>1, <2>2, <3>1
  <2>4. HeldOf(us) = HeldOf(rs) \o Characters(TextOf(qs))
    BY <1>2, <2>3
  <2>5. Singles(qs) \in Seq(Seq(ChunkPiece)) /\ Len(Singles(qs)) = Len(qs)
        /\ \A k \in 1..Len(qs) : Singles(qs)[k] = <<qs[k]>>
    <3>1. DOMAIN Singles(qs) = 1..Len(qs) /\ \A k \in 1..Len(qs) : Singles(qs)[k] = <<qs[k]>>
      BY <2>1 DEF Singles
    <3>2. Singles(qs) \in Seq(Seq(ChunkPiece))
      BY SinglesIs
    <3>3. QED
      BY <3>1, <3>2
  <2>6. Singles(w) = Append(Singles(qs), <<p>>)
    <3> DEFINE x == Singles(w)
               y == Append(Singles(qs), <<p>>)
    <3>1. DOMAIN x = 1..(Len(qs) + 1) /\ \A k \in 1..(Len(qs) + 1) : x[k] = <<w[k]>>
      BY <2>1 DEF Singles
    <3>2. x \in Seq(Seq(ChunkPiece)) /\ Len(x) = Len(qs) + 1
      <4>1. x \in Seq(Seq(ChunkPiece))
        BY <2>1, SinglesIs
      <4> HIDE DEF x
      <4>2. QED
        BY <2>1, <3>1, <4>1
    <3>3. /\ y \in Seq(Seq(ChunkPiece)) /\ Len(y) = Len(qs) + 1 /\ y[Len(qs) + 1] = <<p>>
          /\ \A k \in 1..Len(qs) : y[k] = <<qs[k]>>
      BY <2>5
    <3> HIDE DEF x, y
    <3>4. ASSUME NEW k \in 1..(Len(qs) + 1) PROVE x[k] = y[k]
      <4>1. CASE k = Len(qs) + 1
        BY <2>1, <3>1, <3>3, <4>1
      <4>2. CASE k # Len(qs) + 1
        <5>1. k \in 1..Len(qs)
          BY <2>1, <4>2
        <5>2. QED
          BY <2>1, <3>1, <3>3, <5>1
      <4>3. QED
        BY <4>1, <4>2
    <3>5. x = y
      BY <3>2, <3>3, <3>4, SeqEqual
    <3>6. QED
      BY <3>5 DEF x, y
  <2>7. us \in Seq(Seq(ChunkPiece)) /\ <<p>> \in Seq(ChunkPiece)
    BY <2>5
  <2>8. rs \o Singles(w) = Append(us, <<p>>)
    BY <2>5, <2>6, <2>7, AppendBehind
  <2>9. us # <<>> => p \notin Range(us[Len(us)])
    <3>1. CASE qs = <<>>
      <4>1. Singles(qs) = <<>>
        BY <2>5, <3>1
      <4>2. us = rs
        BY <4>1
      <4>3. QED
        BY <2>3, <4>2
    <3>2. CASE qs # <<>>
      <4> DEFINE ones == Singles(qs)
      <4>0. ones \in Seq(Seq(ChunkPiece)) /\ Len(ones) = Len(qs) /\ us = rs \o ones
            /\ \A k \in 1..Len(qs) : ones[k] = <<qs[k]>>
        BY <2>5
      <4> HIDE DEF ones, us
      <4>1. Len(us) = Len(rs) + Len(qs) /\ Len(qs) \in 1..Len(qs) /\ Len(rs) \in Nat
        <5>1. Len(us) = Len(rs) + Len(ones) /\ Len(rs) \in Nat
          BY <4>0, InARow
        <5>2. Len(qs) # 0
          BY <3>2
        <5>3. Len(qs) \in 1..Len(qs)
          BY <2>1, <5>2
        <5>4. QED
          BY <4>0, <5>1, <5>3
      <4>2. us[Len(us)] = <<qs[Len(qs)]>>
        <5>1. us[Len(rs) + Len(qs)] = ones[Len(qs)]
          BY <4>0, <4>1, InARow
        <5>2. QED
          BY <4>0, <4>1, <5>1
      <4>3. qs[Len(qs)] # p
        BY <2>1, <2>3, <4>1
      <4>4. Range(us[Len(us)]) = {qs[Len(qs)]}
        BY <4>2 DEF Range
      <4>5. QED
        BY <4>3, <4>4
    <3>3. QED
      BY <3>1, <3>2
  <2> HIDE DEF us
  <2>10. News(us, <<p>>) = <<p>>
    <3>1. <<>> \in Seq(ChunkPiece) /\ Append(<<>>, p) = <<p>>
      OBVIOUS
    <3>2. News(us, Append(<<>>, p)) = Append(News(us, <<>>), p)
      <4> DEFINE none == <<>>
      <4>1. none \in Seq(ChunkPiece)
        OBVIOUS
      <4> HIDE DEF none
      <4>2. News(us, Append(none, p)) = Append(News(us, none), p)
        BY <2>9, <4>1, NewsMore
      <4>3. QED
        BY <4>2 DEF none
    <3>3. News(us, <<>>) = <<>>
      BY WhereEmpty DEF News
    <3>4. QED
      BY <3>1, <3>2, <3>3
  <2>11. HeldOf(Append(us, <<p>>)) = HeldOf(us) \o Characters(TextOf(<<p>>))
    BY <2>7, <2>10, HeldAppend
  <2>12. TextOf(<<p>>) = p.text /\ p.text \in Seq(Nat)
    <3>1. p.text \in Seq(Nat)
      BY DEF ChunkPiece
    <3>2. TextOf(<<p>>) = FlattenSeq(<<p.text>>)
      <4>1. [k \in DOMAIN <<p>> |-> <<p>>[k].text] = <<p.text>>
        OBVIOUS
      <4>2. QED
        BY <4>1 DEF TextOf
    <3>3. QED
      BY <3>1, <3>2, FlattenOne
  <2>13. TextOf(w) = TextOf(qs) \o p.text /\ TextOf(qs) \in Seq(Nat)
    BY TextOfIs DEF w
  <2>14. Characters(TextOf(w)) = Characters(TextOf(qs)) \o Characters(p.text)
    BY <2>12, <2>13, CharactersOf
  <2>15. /\ HeldOf(rs) \in Seq(Nat) /\ Characters(TextOf(qs)) \in Seq(Nat) /\ Characters(p.text) \in Seq(Nat)
    <3>1. HeldOf(rs) \in Seq(Nat)
      BY <2>7, HeldAppend
    <3>2. QED
      BY <2>12, <2>13, <3>1, CharactersOf
  <2>16. (HeldOf(rs) \o Characters(TextOf(qs))) \o Characters(p.text) =
           HeldOf(rs) \o (Characters(TextOf(qs)) \o Characters(p.text))
    <3>1. \A x, y, z \in Seq(Nat) : (x \o y) \o z = x \o (y \o z)
      BY ConcatAssociative
    <3>2. QED
      BY <2>15, <3>1, Zenon
  <2>17. QED
    BY <2>4, <2>8, <2>11, <2>12, <2>14, <2>16
<1>3. Good(ps)
  OBVIOUS
<1> HIDE DEF S, Good
<1>4. Seq(ChunkPiece) \subseteq S
  BY <1>1, <1>2, SeqInduct
<1>5. Singles(ps) \in Seq(Seq(ChunkPiece))
  BY SinglesIs
<1>6. rs \o Singles(ps) \in Seq(Seq(ChunkPiece))
  BY <1>5
<1>7. QED
  BY <1>3, <1>4, <1>6 DEF S

-----------------------------------------------------------------------------
(* Chunking, step by step *)

\* The document
Doc == [format |-> call.format, text |-> call.text]

\* A document was begun, as the assumptions have it.
DocumentTaken == Loaded /\ DocumentOK(Doc) /\ call.overlap \in Nat

\* A chunk fits, or it is of a table whose header leaves no room for a character.
ChunkOK(c) ==
  /\ c # <<>>
  /\ \/ FitsBelow(Bodies(c), c[1].heading)
     \/ c[1].header # <<>> /\ ~FitsBelow(<<Join(<<c[1].header, <<1>> >>, NL)>>, c[1].heading)

ChunksOK(rs) == rs \in Seq(Seq(ChunkPiece)) /\ \A n \in DOMAIN rs : ChunkOK(rs[n])

\* These pieces are of blocks before these.
Earlier(ps, bs) ==
  \A k \in DOMAIN ps : \A n \in DOMAIN bs : \A a \in DOMAIN bs[n].lines : ps[k].block < bs[n].lines[a]

\* Pieces under the heading, which fit in one chunk
PiecesOK(ps, heading) ==
  /\ ps \in Seq(ChunkPiece) /\ \A k \in DOMAIN ps : ps[k].heading = heading
  /\ ps # <<>> => FitsBelow(Bodies(ps), heading)

\* Chunks and the pieces of one more
Flush(rs, ps) == IF ps = <<>> THEN rs ELSE Append(rs, ps)

\* The chunks hold what was read of the document, the blocks the rest.
Holding(rs, bs) ==
  /\ \E T : BlocksOK(bs, T)
  /\ rs # <<>> => Earlier(rs[Len(rs)], bs)
  /\ HeldOf(rs) \o Remains(bs) = Remains(Parsed(Doc))

Working(rs, ps, bs, path) ==
  /\ path \in Seq(DOMAIN call.text)
  /\ PiecesOK(ps, FitHeadingPath(path, call.size))
  /\ rs # <<>> => Earlier(rs[Len(rs)], bs)
  /\ Holding(Flush(rs, ps), bs)

ChunkInv ==
  /\ status = "waiting" => records = <<>> /\ pending = <<>> /\ stack = <<>>
  /\ status # "waiting" => DocumentTaken
  /\ ChunksOK(records)
  /\ status = "chunking" => Working(records, pending, blocks, stack)
  /\ status = "chunked" => HeldOf(records) = Remains(Parsed(Doc))
  /\ status = "EMPTY_DOCUMENT" => Parsed(Doc) = <<>> /\ records = <<>>

\* Of the same document, texts and headings are the same.
LEMMA SameTexts ==
  ASSUME call' = call
  PROVE  /\ \A path, size : FitHeadingPath(path, size)' = FitHeadingPath(path, size)
         /\ \A bodies, heading : FitsBelow(bodies, heading)' = FitsBelow(bodies, heading)
         /\ \A bs : Remains(bs)' = Remains(bs)
         /\ \A bs, T : BlocksOK(bs, T)' <=> BlocksOK(bs, T)
         /\ (DocumentTaken' <=> DocumentTaken) /\ Doc' = Doc
<1>1. ASSUME NEW l PROVE Line(l)' = Line(l)
  BY DEF Line
<1>2. ASSUME NEW ls PROVE Lines(ls)' = Lines(ls)
  BY <1>1 DEF Lines
<1>3. ASSUME NEW path PROVE Prefix(path)' = Prefix(path)
  BY <1>2 DEF Prefix
<1>4. ASSUME NEW path, NEW size PROVE FitHeadingPath(path, size)' = FitHeadingPath(path, size)
  BY <1>1, <1>3 DEF FitHeadingPath
<1>5. ASSUME NEW bodies, NEW heading PROVE FitsBelow(bodies, heading)' = FitsBelow(bodies, heading)
  BY DEF FitsBelow
<1>6. ASSUME NEW b PROVE DataText(b)' = DataText(b)
  BY <1>2 DEF DataText
<1>7. ASSUME NEW bs PROVE Remains(bs)' = Remains(bs)
  BY <1>6 DEF Remains
<1>8. ASSUME NEW bs, NEW T PROVE BlocksOK(bs, T)' <=> BlocksOK(bs, T)
  BY DEF BlocksOK
<1>9. (DocumentTaken' <=> DocumentTaken) /\ Doc' = Doc
  BY DEF DocumentTaken, Loaded, DocumentOK, Doc
<1>10. QED
  BY <1>4, <1>5, <1>7, <1>8, <1>9

\* What is so of chunks and blocks is so after a step, of the same document.
LEMMA SameChunks ==
  ASSUME call' = call, NEW rs, NEW ps, NEW bs, NEW path
  PROVE  /\ Working(rs, ps, bs, path)' <=> Working(rs, ps, bs, path)
         /\ ChunksOK(rs)' <=> ChunksOK(rs)
         /\ HeldOf(rs)' = HeldOf(rs) /\ Remains(Parsed(Doc))' = Remains(Parsed(Doc))
         /\ DocumentTaken' <=> DocumentTaken
<1>1. ChunksOK(rs)' <=> ChunksOK(rs)
  BY SameTexts DEF ChunksOK, ChunkOK
<1>5. Remains(Parsed(Doc))' = Remains(Parsed(Doc))
  <2>1. Parsed(Doc)' = Parsed(Doc)
    BY SameTexts
  <2>2. QED
    BY <2>1, SameTexts
<1>6. HeldOf(rs)' = HeldOf(rs)
  BY DEF HeldOf, FreshOf, TextOf
<1>2. Holding(Flush(rs, ps), bs)' <=> Holding(Flush(rs, ps), bs)
  <2>1. \A T : BlocksOK(bs, T)' <=> BlocksOK(bs, T)
    BY SameTexts
  <2>2. Remains(bs)' = Remains(bs)
    BY SameTexts
  <2>3. HeldOf(Flush(rs, ps))' = HeldOf(Flush(rs, ps))
    BY DEF HeldOf, FreshOf, TextOf, Flush
  <2>4. QED
    BY <1>5, <2>1, <2>2, <2>3 DEF Holding
<1>3. Working(rs, ps, bs, path)' <=> Working(rs, ps, bs, path)
  BY <1>2, SameTexts DEF Working, PiecesOK
<1>4. QED
  BY <1>1, <1>5, <1>6, <1>3, SameTexts

\* What has to be so of the next state
LEMMA ChunkInvNext ==
  ASSUME DocumentTaken, call' = call,
         NEW rs, rs = records', NEW ps, ps = pending', NEW bs, bs = blocks', NEW path, path = stack',
         status' \notin {"waiting", "EMPTY_DOCUMENT"}, ChunksOK(rs),
         status' = "chunking" => Working(rs, ps, bs, path),
         status' = "chunked" => HeldOf(rs) = Remains(Parsed(Doc))
  PROVE  ChunkInv'
<1>1. DocumentTaken' /\ ChunksOK(rs)' /\ (Working(rs, ps, bs, path) => Working(rs, ps, bs, path)')
      /\ (HeldOf(rs) = Remains(Parsed(Doc)) => HeldOf(rs)' = Remains(Parsed(Doc))')
  BY SameChunks
<1>2. QED
  BY <1>1 DEF ChunkInv

\* Pieces of a block, made of texts
MadeOf(ps, block, heading, header, texts) ==
  /\ ps \in Seq(ChunkPiece) /\ TextOf(ps) = FlattenSeq(texts) /\ DOMAIN ps = DOMAIN texts
  /\ \A n \in DOMAIN ps : /\ ps[n].block = block.lines[1] /\ ps[n].part = n
                          /\ ps[n].heading = heading /\ ps[n].header = header
                          /\ ps[n].text = texts[n]

\* Texts make such pieces.
LEMMA PiecesMade ==
  ASSUME NEW block, block.lines # <<>>, block.lines \in Seq(DOMAIN call.text), DOMAIN call.text \subseteq Nat,
         NEW heading \in Seq(Nat), NEW header \in Seq(Nat), NEW texts \in Seq(Seq(Nat))
  PROVE  MadeOf(MakePieces(block, heading, header, texts), block, heading, header, texts)
<1> DEFINE ps == MakePieces(block, heading, header, texts)
           each == [n \in DOMAIN ps |-> ps[n].text]
<1>1. block.lines[1] \in Nat
  <2>1. 1 \in DOMAIN block.lines
    OBVIOUS
  <2>2. QED
    BY <2>1
<1>2. DOMAIN texts = 1..Len(texts) /\ Len(texts) \in Nat /\ \A n \in DOMAIN texts : texts[n] \in Seq(Nat)
  OBVIOUS
<1>3. /\ DOMAIN ps = DOMAIN texts
      /\ \A n \in DOMAIN texts :
           ps[n] = [block |-> block.lines[1], part |-> n, heading |-> heading, header |-> header, text |-> texts[n]]
  BY DEF MakePieces
<1> HIDE DEF ps
<1>4. \A n \in DOMAIN texts : ps[n] \in ChunkPiece
  BY <1>1, <1>2, <1>3 DEF ChunkPiece
<1>5. ps \in Seq(ChunkPiece)
  <2>1. ps = [n \in 1..Len(texts) |-> ps[n]]
    BY <1>2, <1>3 DEF ps, MakePieces
  <2>2. QED
    BY <1>2, <1>4, <2>1
<1>6. each = texts
  <2>1. DOMAIN each = DOMAIN texts /\ \A n \in DOMAIN texts : each[n] = texts[n]
    BY <1>3
  <2>2. each = [n \in DOMAIN texts |-> texts[n]]
    BY <1>3
  <2>3. texts = [n \in DOMAIN texts |-> texts[n]]
    OBVIOUS
  <2>4. QED
    BY <2>2, <2>3
<1>7. TextOf(ps) = FlattenSeq(texts)
  BY <1>6 DEF TextOf
<1>8. \A n \in DOMAIN ps : /\ ps[n].block = block.lines[1] /\ ps[n].part = n
                           /\ ps[n].heading = heading /\ ps[n].header = header /\ ps[n].text = texts[n]
  BY <1>3
<1>9. QED
  BY <1>3, <1>5, <1>7, <1>8 DEF ps, MadeOf

\* A block's pieces are of it, fit below the heading, and have the characters of its data.
LEMMA BlockPiecesAre ==
  ASSUME Loaded, NEW block, BlockIn(block, 1, DOMAIN call.text), block.lines # <<>>,
         block.kind # "heading", NEW heading, HeadingOK(heading)
  PROVE  LET ps == BlockPieces(block, heading)
         IN  /\ ps \in Seq(ChunkPiece) /\ Characters(TextOf(ps)) = DataText(block)
             /\ \A n \in DOMAIN ps : /\ ps[n].block = block.lines[1] /\ ps[n].part = n
                                     /\ ps[n].heading = heading
                                     /\ TextFits(ps[n].header, heading, ps[n].text)
                                     /\ block.kind # "table" => ps[n].header = <<>>
<1> DEFINE ps == BlockPieces(block, heading)
<1>1. BlockOK(block) /\ DOMAIN call.text \subseteq Nat /\ heading \in Seq(Nat) /\ block.lines \in Seq(DOMAIN call.text)
  BY DEF BlockIn, BlockOK, Loaded, HeadingOK
<1>2. PICK header \in Seq(Nat) : \E texts \in Seq(Seq(Nat)) :
        /\ ps = MakePieces(block, heading, header, texts)
        /\ \A n \in DOMAIN texts : TextFits(header, heading, texts[n])
        /\ Characters(FlattenSeq(texts)) = Characters(FlattenSeq(Lines(Data(block))))
        /\ block.kind # "table" => header = <<>>
  <2>1. CASE block.kind = "table"
    BY <1>1, <2>1, TableTexts DEF IsHeader
  <2>2. CASE block.kind # "table"
    <3>1. <<>> \in Seq(Nat)
      OBVIOUS
    <3>2. QED
      BY <1>1, <2>2, <3>1, PlainTexts
  <2>3. QED
    BY <2>1, <2>2
<1>3. PICK texts \in Seq(Seq(Nat)) :
        /\ ps = MakePieces(block, heading, header, texts)
        /\ \A n \in DOMAIN texts : TextFits(header, heading, texts[n])
        /\ Characters(FlattenSeq(texts)) = Characters(FlattenSeq(Lines(Data(block))))
        /\ block.kind # "table" => header = <<>>
  BY <1>2
<1> HIDE DEF ps
<1>4. Characters(FlattenSeq(Lines(Data(block)))) = DataText(block)
  <2>1. Data(block) \in Seq(DOMAIN call.text)
    BY DataIs
  <2>2. QED
    BY <2>1, LinesText DEF DataText
<1>5. /\ ps \in Seq(ChunkPiece) /\ TextOf(ps) = FlattenSeq(texts) /\ DOMAIN ps = DOMAIN texts
      /\ \A n \in DOMAIN ps : /\ ps[n].block = block.lines[1] /\ ps[n].part = n
                              /\ ps[n].heading = heading /\ ps[n].header = header
                              /\ ps[n].text = texts[n]
  <2>1. MadeOf(ps, block, heading, header, texts)
    BY <1>1, <1>3, PiecesMade
  <2>2. QED
    BY <2>1 DEF MadeOf
<1>6. QED
  BY <1>3, <1>4, <1>5 DEF ps

\* A piece that fits is a chunk.
LEMMA PieceChunk ==
  ASSUME NEW p \in ChunkPiece, TextFits(p.header, p.heading, p.text)
  PROVE  /\ ChunkOK(<<p>>)
         /\ p.header = <<>> => FitsBelow(Bodies(<<p>>), p.heading)
<1>1. p.header \in Seq(Nat) /\ p.heading \in Seq(Nat) /\ p.text \in Seq(Nat) /\ <<1>> \in Seq(Nat)
  BY DEF ChunkPiece
<1>2. Bodies(<<p>>) = <<Join(<<p.header, p.text>>, NL)>>
  BY DEF Bodies, Body
<1>3. FitsBelow(Bodies(<<p>>), p.heading) <=> Within(p.text, Rendered(p.header, p.heading))
  <2>1. FitsBelow(Bodies(<<p>>), p.heading) <=> Tokens(Shown(p.header, p.heading, p.text)) <= call.size
    BY <1>1, <1>2, WithinIs DEF FitsBelow
  <2>2. QED
    BY <1>1, <2>1, WithinIs
<1>4. FitsBelow(<<Join(<<p.header, <<1>> >>, NL)>>, p.heading) <=> Within(<<1>>, Rendered(p.header, p.heading))
  <2>1. FitsBelow(<<Join(<<p.header, <<1>> >>, NL)>>, p.heading) <=> Tokens(Shown(p.header, p.heading, <<1>>)) <= call.size
    BY <1>1, WithinIs DEF FitsBelow
  <2>2. QED
    BY <1>1, <2>1, WithinIs
<1>5. <<p>> # <<>> /\ <<p>>[1] = p
  OBVIOUS
<1>6. QED
  BY <1>3, <1>4, <1>5 DEF ChunkOK, TextFits

\* Pieces under a heading that fit are a chunk.
LEMMA PendingChunk ==
  ASSUME NEW ps, NEW heading, PiecesOK(ps, heading), ps # <<>>
  PROVE  ChunkOK(ps)
<1>1. 1 \in DOMAIN ps
  BY DEF PiecesOK
<1>2. QED
  BY <1>1 DEF PiecesOK, ChunkOK

\* A chunk more
LEMMA ChunksMore ==
  ASSUME NEW rs, ChunksOK(rs), NEW c \in Seq(ChunkPiece), ChunkOK(c)
  PROVE  ChunksOK(Append(rs, c))
<1>1. rs \in Seq(Seq(ChunkPiece))
  BY DEF ChunksOK
<1>2. /\ Append(rs, c) \in Seq(Seq(ChunkPiece)) /\ DOMAIN Append(rs, c) = 1..(Len(rs) + 1) /\ Len(rs) \in Nat
      /\ DOMAIN rs = 1..Len(rs) /\ Append(rs, c)[Len(rs) + 1] = c /\ \A n \in 1..Len(rs) : Append(rs, c)[n] = rs[n]
  BY <1>1
<1>3. ASSUME NEW n \in 1..(Len(rs) + 1) PROVE n = Len(rs) + 1 \/ n \in 1..Len(rs)
  BY <1>2
<1>4. QED
  BY <1>2, <1>3 DEF ChunksOK

\* The pieces of the chunk that is begun are one.
LEMMA FlushOK ==
  ASSUME NEW rs, ChunksOK(rs), NEW ps, NEW heading, PiecesOK(ps, heading)
  PROVE  ChunksOK(Flush(rs, ps)) /\ Flush(rs, ps) \in Seq(Seq(ChunkPiece))
<1>1. CASE ps = <<>>
  BY <1>1 DEF Flush, ChunksOK
<1>2. CASE ps # <<>>
  <2>1. ChunkOK(ps) /\ ps \in Seq(ChunkPiece)
    BY <1>2, PendingChunk DEF PiecesOK
  <2>2. ChunksOK(Append(rs, ps))
    BY <2>1, ChunksMore
  <2>3. QED
    BY <1>2, <2>2 DEF Flush, ChunksOK
<1>3. QED
  BY <1>1, <1>2

\* The blocks behind the first
LEMMA BlocksBehind ==
  ASSUME Loaded, NEW bs, NEW T, BlocksOK(bs, T), bs # <<>>
  PROVE  /\ BlocksOK(Tail(bs), T) /\ Remains(bs) = DataText(Head(bs)) \o Remains(Tail(bs))
         /\ DataText(Head(bs)) \in Seq(Nat) /\ Remains(Tail(bs)) \in Seq(Nat)
         /\ BlockIn(Head(bs), 1, DOMAIN call.text) /\ Head(bs).lines # <<>>
         /\ \A ps : (\A k \in DOMAIN ps : ps[k].block = Head(bs).lines[1]) => Earlier(ps, Tail(bs))
         /\ \A ps : Earlier(ps, bs) => /\ Earlier(ps, Tail(bs))
                                       /\ \A k \in DOMAIN ps : ps[k].block < Head(bs).lines[1]
<1> DEFINE t == Tail(bs)
           h == Head(bs)
<1>1. bs \in Seq(T) /\ h = bs[1] /\ 1 \in DOMAIN bs
  BY DEF BlocksOK
<1>2. /\ t \in Seq(T) /\ DOMAIN t = 1..(Len(bs) - 1) /\ Len(bs) \in Nat \ {0} /\ DOMAIN bs = 1..Len(bs)
      /\ \A n \in DOMAIN t : t[n] = bs[n + 1]
  BY <1>1
<1> HIDE DEF t, h
<1>3. \A n \in DOMAIN t : n + 1 \in DOMAIN bs /\ 1 < n + 1
  BY <1>2
<1>4. BlocksOK(t, T)
  <2>1. ASSUME NEW i \in DOMAIN t, NEW j \in DOMAIN t, i < j PROVE <<t[i], t[j]>> \in Before(T)
    <3>1. i + 1 < j + 1
      BY <1>2, <2>1
    <3>2. QED
      BY <1>2, <1>3, <3>1 DEF BlocksOK, Ordered
  <2>2. ASSUME NEW n \in DOMAIN t PROVE BlockIn(t[n], 1, DOMAIN call.text) /\ t[n].lines # <<>>
    BY <1>2, <1>3 DEF BlocksOK
  <2>3. QED
    BY <1>2, <2>1, <2>2 DEF BlocksOK, Ordered
<1>5. BlockIn(h, 1, DOMAIN call.text) /\ h.lines # <<>>
  BY <1>1 DEF BlocksOK
<1>6. 1 \in DOMAIN h.lines
  BY <1>5 DEF BlockIn
<1>7. ASSUME NEW n \in DOMAIN t, NEW a \in DOMAIN t[n].lines PROVE h.lines[1] < t[n].lines[a]
  <2>1. Listed(bs[1].lines, h.lines[1]) /\ Listed(bs[n + 1].lines, t[n].lines[a])
    BY <1>1, <1>2, <1>6 DEF Listed
  <2>2. QED
    BY <1>1, <1>3, <2>1, BeforeDiffers
<1>8. Remains(bs) = DataText(h) \o Remains(t) /\ DataText(h) \in Seq(Nat) /\ Remains(t) \in Seq(Nat)
  <2> DEFINE Each(q) == [n \in DOMAIN q |-> DataText(q[n])]
  <2>1. ASSUME NEW q, BlocksOK(q, T)
        PROVE  /\ Each(q) \in Seq(Seq(Nat)) /\ Len(Each(q)) = Len(q) /\ Len(q) \in Nat
               /\ \A n \in 1..Len(q) : Each(q)[n] = DataText(q[n])
    <3>1. DOMAIN q = 1..Len(q) /\ Len(q) \in Nat
      BY <2>1 DEF BlocksOK
    <3>2. \A n \in DOMAIN q : DataText(q[n]) \in Seq(Nat)
      BY <2>1, DataTextIs DEF BlocksOK
    <3>3. QED
      BY <3>1, <3>2
  <2>2. Remains(bs) = FlattenSeq(Each(bs)) /\ Remains(t) = FlattenSeq(Each(t))
    BY DEF Remains
  <2>3. /\ Each(bs) \in Seq(Seq(Nat)) /\ Len(Each(bs)) = Len(bs)
        /\ \A n \in 1..Len(bs) : Each(bs)[n] = DataText(bs[n])
    BY <2>1
  <2>4. /\ Each(t) \in Seq(Seq(Nat)) /\ Len(Each(t)) = Len(bs) - 1
        /\ \A n \in 1..(Len(bs) - 1) : Each(t)[n] = DataText(t[n])
    <3>1. Len(t) = Len(bs) - 1
      BY <1>1 DEF t
    <3>2. QED
      BY <1>4, <2>1, <3>1
  <2> HIDE DEF Each
  <2>5. DataText(h) \in Seq(Nat)
    BY <1>5, DataTextIs
  <2> DEFINE x == <<DataText(h)>>
             y == x \o Each(t)
  <2>6. x \in Seq(Seq(Nat)) /\ Len(x) = 1 /\ x[1] = DataText(h)
    BY <2>5
  <2> HIDE DEF x
  <2>7. /\ y \in Seq(Seq(Nat)) /\ Len(y) = 1 + Len(Each(t)) /\ y[1] = DataText(h)
        /\ \A n \in 1..Len(Each(t)) : y[1 + n] = Each(t)[n]
    <3>1. 1 \in 1..Len(x)
      BY <2>6
    <3> DEFINE z == Each(t)
    <3>2. z \in Seq(Seq(Nat)) /\ z = Each(t)
      BY <2>4
    <3> HIDE DEF z
    <3>3. /\ x \o z \in Seq(Seq(Nat)) /\ Len(x \o z) = Len(x) + Len(z)
          /\ \A k \in 1..Len(x) : (x \o z)[k] = x[k]
          /\ \A k \in 1..Len(z) : (x \o z)[Len(x) + k] = z[k]
      <4>1. x \in Seq(Seq(Nat)) /\ z \in Seq(Seq(Nat))
        BY <2>6, <3>2
      <4> HIDE DEF y
      <4>2. QED
        BY <4>1, InARow
    <3>4. QED
      BY <2>6, <3>1, <3>2, <3>3
  <2> HIDE DEF y
  <2>8. ASSUME NEW n \in 1..Len(bs) PROVE Each(bs)[n] = y[n]
    <3>1. CASE n = 1
      BY <1>1, <2>3, <2>7, <3>1
    <3>2. CASE n # 1
      <4>1. n - 1 \in 1..(Len(bs) - 1) /\ 1 + (n - 1) = n /\ (n - 1) + 1 = n
        BY <1>2, <3>2
      <4>2. y[n] = Each(t)[n - 1] /\ t[n - 1] = bs[n]
        BY <1>2, <2>4, <2>7, <4>1
      <4>3. QED
        BY <2>3, <2>4, <4>1, <4>2
    <3>3. QED
      BY <3>1, <3>2
  <2>9. Each(bs) = y
    <3>1. Len(y) = Len(bs)
      BY <1>2, <2>4, <2>7
    <3>2. QED
      BY <2>3, <2>7, <2>8, <3>1, SeqEqual
  <2>10. FlattenSeq(y) = FlattenSeq(x) \o FlattenSeq(Each(t))
    BY <2>4, <2>6, FlattenConcat DEF y
  <2>11. FlattenSeq(x) = DataText(h) /\ FlattenSeq(Each(t)) \in Seq(Nat)
    BY <2>4, <2>5, FlattenOne, FlattenType DEF x
  <2>12. QED
    BY <2>2, <2>5, <2>9, <2>10, <2>11
<1>9. ASSUME NEW ps, \A k \in DOMAIN ps : ps[k].block = h.lines[1] PROVE Earlier(ps, t)
  BY <1>7, <1>9 DEF Earlier
<1>10. ASSUME NEW ps, Earlier(ps, bs) PROVE Earlier(ps, t) /\ \A k \in DOMAIN ps : ps[k].block < h.lines[1]
  BY <1>1, <1>2, <1>3, <1>6, <1>10 DEF Earlier
<1>11. QED
  BY <1>4, <1>5, <1>8, <1>9, <1>10 DEF t, h

\* A piece of the next block is not in a chunk of earlier ones.
LEMMA NotYet ==
  ASSUME Loaded, NEW bs, NEW T, BlocksOK(bs, T), bs # <<>>, NEW c, Earlier(c, bs),
         NEW p, p.block = Head(bs).lines[1]
  PROVE  p \notin Range(c) /\ p.block \in Nat
<1>1. BlockIn(Head(bs), 1, DOMAIN call.text) /\ Head(bs).lines # <<>>
  BY BlocksBehind
<1>2. 1 \in DOMAIN Head(bs).lines
  BY <1>1 DEF BlockIn
<1>3. Head(bs).lines[1] \in Nat
  BY <1>1, <1>2 DEF BlockIn
<1>4. \A k \in DOMAIN c : c[k].block < Head(bs).lines[1]
  BY BlocksBehind
<1>5. \A k \in DOMAIN c : c[k] # p
  BY <1>3, <1>4
<1>6. QED
  BY <1>3, <1>5 DEF Range

\* A block without data changes nothing.
LEMMA HoldingSkip ==
  ASSUME Loaded, NEW rs, NEW bs, Holding(rs, bs), bs # <<>>, DataText(Head(bs)) = <<>>
  PROVE  Holding(rs, Tail(bs))
<1>1. PICK T : BlocksOK(bs, T)
  BY DEF Holding
<1>2. /\ BlocksOK(Tail(bs), T) /\ Remains(bs) = <<>> \o Remains(Tail(bs)) /\ Remains(Tail(bs)) \in Seq(Nat)
      /\ \A ps : Earlier(ps, bs) => Earlier(ps, Tail(bs))
  BY <1>1, BlocksBehind
<1>3. <<>> \o Remains(Tail(bs)) = Remains(Tail(bs))
  BY <1>2
<1>4. QED
  BY <1>2, <1>3 DEF Holding

\* The pieces of a block, each a chunk of its own, hold its data.
LEMMA HoldingSingles ==
  ASSUME DocumentTaken, NEW rs, ChunksOK(rs), NEW bs, Holding(rs, bs), bs # <<>>,
         Head(bs).kind # "heading", NEW heading, HeadingOK(heading),
         BlockPieces(Head(bs), heading) # <<>>
  PROVE  LET new == rs \o Singles(BlockPieces(Head(bs), heading))
         IN  ChunksOK(new) /\ Holding(new, Tail(bs))
<1> DEFINE b == Head(bs)
           ps == BlockPieces(b, heading)
           ones == Singles(ps)
           new == rs \o ones
<1>1. Loaded
  BY DEF DocumentTaken
<1>2. PICK T : BlocksOK(bs, T)
  BY DEF Holding
<1>3. /\ BlocksOK(Tail(bs), T) /\ Remains(bs) = DataText(b) \o Remains(Tail(bs))
      /\ DataText(b) \in Seq(Nat) /\ Remains(Tail(bs)) \in Seq(Nat)
      /\ BlockIn(b, 1, DOMAIN call.text) /\ b.lines # <<>>
      /\ \A qs : (\A k \in DOMAIN qs : qs[k].block = b.lines[1]) => Earlier(qs, Tail(bs))
  BY <1>1, <1>2, BlocksBehind
<1>4. /\ ps \in Seq(ChunkPiece) /\ Characters(TextOf(ps)) = DataText(b)
      /\ \A n \in DOMAIN ps : /\ ps[n].block = b.lines[1] /\ ps[n].part = n
                              /\ ps[n].heading = heading
                              /\ TextFits(ps[n].header, heading, ps[n].text)
  BY <1>1, <1>3, BlockPiecesAre
<1>5. rs \in Seq(Seq(ChunkPiece)) /\ ps # <<>> /\ (rs # <<>> => Earlier(rs[Len(rs)], bs))
      /\ HeldOf(rs) \o Remains(bs) = Remains(Parsed(Doc))
  BY DEF ChunksOK, Holding
<1> HIDE DEF b, ps
<1>6. ASSUME NEW k \in DOMAIN ps, rs # <<>> PROVE ps[k] \notin Range(rs[Len(rs)])
  BY <1>1, <1>2, <1>4, <1>5, <1>6, NotYet DEF b
<1>7. \A j, k \in DOMAIN ps : j < k => ps[j] # ps[k]
  <2>1. DOMAIN ps \subseteq Nat
    BY <1>4
  <2>2. QED
    BY <1>4, <2>1
<1>8. HeldOf(new) = HeldOf(rs) \o DataText(b) /\ new \in Seq(Seq(ChunkPiece))
  BY <1>4, <1>5, <1>6, <1>7, HeldSingles
<1>9. /\ ones \in Seq(Seq(ChunkPiece)) /\ Len(ones) = Len(ps) /\ Len(ps) \in Nat /\ Len(ps) # 0
      /\ DOMAIN ps = 1..Len(ps) /\ \A k \in 1..Len(ps) : ones[k] = <<ps[k]>>
  <2>1. ones \in Seq(Seq(ChunkPiece))
    BY <1>4, SinglesIs
  <2>2. DOMAIN ps = 1..Len(ps) /\ Len(ps) \in Nat /\ Len(ps) # 0
    BY <1>4, <1>5
  <2>3. DOMAIN ones = DOMAIN ps /\ \A k \in DOMAIN ps : ones[k] = <<ps[k]>>
    BY DEF Singles
  <2> HIDE DEF ones
  <2>4. QED
    BY <2>1, <2>2, <2>3
<1> HIDE DEF ones
<1>10. /\ Len(new) = Len(rs) + Len(ps) /\ Len(rs) \in Nat /\ DOMAIN rs = 1..Len(rs)
       /\ DOMAIN new = 1..(Len(rs) + Len(ps))
       /\ \A k \in 1..Len(rs) : new[k] = rs[k]
       /\ \A k \in 1..Len(ps) : new[Len(rs) + k] = <<ps[k]>>
  <2>1. /\ Len(rs \o ones) = Len(rs) + Len(ones) /\ Len(rs) \in Nat
        /\ \A k \in 1..Len(rs) : (rs \o ones)[k] = rs[k]
        /\ \A k \in 1..Len(ones) : (rs \o ones)[Len(rs) + k] = ones[k]
    <3>1. rs \in Seq(Seq(ChunkPiece)) /\ ones \in Seq(Seq(ChunkPiece))
      BY <1>5, <1>9
    <3>2. QED
      BY <3>1, InARow
  <2>2. DOMAIN rs = 1..Len(rs)
    BY <1>5
  <2> HIDE DEF new
  <2>3. DOMAIN new = 1..Len(new)
    BY <1>8
  <2>4. QED
    BY <1>9, <2>1, <2>2, <2>3 DEF new
<1> HIDE DEF new
<1>11. ChunksOK(new)
  <2>1. ASSUME NEW k \in 1..Len(ps) PROVE ChunkOK(<<ps[k]>>)
    <3>1. ps[k] \in ChunkPiece /\ ps[k].heading = heading /\ TextFits(ps[k].header, heading, ps[k].text)
      BY <1>4, <1>9
    <3>2. TextFits(ps[k].header, ps[k].heading, ps[k].text)
      BY <3>1
    <3>3. QED
      BY <3>1, <3>2, PieceChunk
  <2>2. ASSUME NEW n \in DOMAIN new PROVE ChunkOK(new[n])
    <3>1. CASE n \in 1..Len(rs)
      BY <1>10, <3>1 DEF ChunksOK
    <3>2. CASE n \notin 1..Len(rs)
      <4>1. n - Len(rs) \in 1..Len(ps) /\ Len(rs) + (n - Len(rs)) = n
        BY <1>9, <1>10, <3>2
      <4>2. QED
        BY <1>10, <2>1, <4>1
    <3>3. QED
      BY <3>1, <3>2
  <2>3. QED
    BY <1>8, <2>2 DEF ChunksOK
<1>12. Earlier(new[Len(new)], Tail(bs))
  <2>1. Len(ps) \in 1..Len(ps)
    BY <1>9
  <2>2. new[Len(new)] = <<ps[Len(ps)]>>
    BY <1>10, <2>1
  <2>3. ps[Len(ps)].block = b.lines[1]
    BY <1>4, <1>9, <2>1
  <2>4. \A k \in DOMAIN new[Len(new)] : new[Len(new)][k].block = b.lines[1]
    BY <2>2, <2>3
  <2>5. QED
    BY <1>3, <2>4
<1>13. HeldOf(new) \o Remains(Tail(bs)) = Remains(Parsed(Doc))
  <2>1. HeldOf(rs) \in Seq(Nat)
    <3>1. <<>> \in Seq(ChunkPiece)
      OBVIOUS
    <3>2. QED
      BY <1>5, <3>1, HeldAppend
  <2>2. \A x, y, z \in Seq(Nat) : (x \o y) \o z = x \o (y \o z)
    BY ConcatAssociative
  <2>3. (HeldOf(rs) \o DataText(b)) \o Remains(Tail(bs)) = HeldOf(rs) \o (DataText(b) \o Remains(Tail(bs)))
    BY <1>3, <2>1, <2>2, Zenon
  <2>4. QED
    BY <1>3, <1>5, <1>8, <2>3
<1>14. QED
  BY <1>3, <1>11, <1>12, <1>13 DEF Holding, new, ones, ps, b

\* A piece more of the chunk that is begun holds the data of its block.
LEMMA HoldingMore ==
  ASSUME Loaded, NEW rs \in Seq(Seq(ChunkPiece)), NEW c \in Seq(ChunkPiece), NEW bs, NEW T,
         BlocksOK(bs, T), bs # <<>>, NEW p \in ChunkPiece, p.block = Head(bs).lines[1],
         Characters(p.text) = DataText(Head(bs)), rs # <<>> => Earlier(rs[Len(rs)], bs), Earlier(c, bs),
         (HeldOf(rs) \o Characters(TextOf(News(rs, c)))) \o Remains(bs) = Remains(Parsed(Doc))
  PROVE  Holding(Append(rs, Append(c, p)), Tail(bs)) /\ Earlier(Append(c, p), Tail(bs))
<1> DEFINE w == Append(c, p)
           h == DataText(Head(bs))
           r == Remains(Tail(bs))
           new == News(rs, c)
<1>1. /\ BlocksOK(Tail(bs), T) /\ Remains(bs) = h \o r /\ h \in Seq(Nat) /\ r \in Seq(Nat)
      /\ BlockIn(Head(bs), 1, DOMAIN call.text) /\ Head(bs).lines # <<>>
      /\ \A qs : Earlier(qs, bs) => Earlier(qs, Tail(bs))
      /\ \A qs : (\A k \in DOMAIN qs : qs[k].block = Head(bs).lines[1]) => Earlier(qs, Tail(bs))
  BY BlocksBehind
<1>2. /\ w \in Seq(ChunkPiece) /\ DOMAIN w = 1..(Len(c) + 1) /\ Len(c) \in Nat /\ DOMAIN c = 1..Len(c)
      /\ w[Len(c) + 1] = p /\ \A k \in DOMAIN c : w[k] = c[k]
  OBVIOUS
<1>3. rs # <<>> => p \notin Range(rs[Len(rs)])
  BY NotYet
<1>4. News(rs, w) = Append(new, p) /\ new \in Seq(ChunkPiece)
  BY <1>3, NewsMore, NewsType
<1> HIDE DEF h, r, new
<1>5. TextOf(Append(new, p)) = TextOf(new) \o p.text /\ TextOf(new) \in Seq(Nat) /\ p.text \in Seq(Nat)
  <2>1. p.text \in Seq(Nat)
    BY DEF ChunkPiece
  <2>2. QED
    BY <1>4, <2>1, TextOfIs
<1>6. Characters(TextOf(new) \o p.text) = Characters(TextOf(new)) \o h /\ Characters(TextOf(new)) \in Seq(Nat)
  BY <1>5, CharactersOf DEF h
<1>7. HeldOf(rs) \in Seq(Nat) /\ HeldOf(Append(rs, w)) = HeldOf(rs) \o Characters(TextOf(News(rs, w)))
  BY <1>2, HeldAppend
<1>8. HeldOf(Append(rs, w)) \o r = Remains(Parsed(Doc))
  <2>1. \A x, y, z \in Seq(Nat) : (x \o y) \o z = x \o (y \o z)
    BY ConcatAssociative
  <2>2. \A x, y \in Seq(Nat) : x \o y \in Seq(Nat)
    OBVIOUS
  <2> DEFINE x == HeldOf(rs)
             y == Characters(TextOf(new))
  <2>3. x \in Seq(Nat) /\ y \in Seq(Nat) /\ h \in Seq(Nat) /\ r \in Seq(Nat)
    BY <1>1, <1>6, <1>7
  <2>4. HeldOf(Append(rs, w)) = x \o (y \o h)
    BY <1>4, <1>5, <1>6, <1>7
  <2>5. (x \o y) \o (h \o r) = Remains(Parsed(Doc))
    BY <1>1 DEF new
  <2> HIDE DEF x, y, w
  <2>6. (x \o (y \o h)) \o r = (x \o y) \o (h \o r)
    <3>1. (x \o (y \o h)) = (x \o y) \o h
      BY <2>1, <2>3, Zenon
    <3>2. ((x \o y) \o h) \o r = (x \o y) \o (h \o r)
      <4> DEFINE xy == x \o y
      <4>1. xy \in Seq(Nat)
        BY <2>2, <2>3
      <4> HIDE DEF xy
      <4>2. (xy \o h) \o r = xy \o (h \o r)
        BY <2>1, <2>3, <4>1, Zenon
      <4>3. QED
        BY <4>2 DEF xy
    <3>3. QED
      BY <3>1, <3>2, Zenon
  <2>7. QED
    BY <2>4, <2>5, <2>6
<1>9. Earlier(w, Tail(bs))
  <2>1. Earlier(c, Tail(bs)) /\ Earlier(<<p>>, Tail(bs))
    <3>1. \A k \in DOMAIN <<p>> : <<p>>[k].block = Head(bs).lines[1]
      OBVIOUS
    <3>2. QED
      BY <1>1, <3>1
  <2>2. \A k \in DOMAIN w : k \in DOMAIN c \/ k = Len(c) + 1
    BY <1>2
  <2>3. 1 \in DOMAIN <<p>> /\ <<p>>[1] = p
    OBVIOUS
  <2>4. \A n \in DOMAIN Tail(bs) : \A a \in DOMAIN Tail(bs)[n].lines : p.block < Tail(bs)[n].lines[a]
    BY <2>1, <2>3 DEF Earlier
  <2> HIDE DEF w
  <2>5. QED
    BY <1>2, <2>1, <2>2, <2>4 DEF Earlier
<1>10. /\ Append(rs, w) # <<>> /\ Append(rs, w)[Len(Append(rs, w))] = w
  <2> HIDE DEF w
  <2> DEFINE v == Append(rs, w)
  <2>1. v \in Seq(Seq(ChunkPiece)) /\ Len(v) = Len(rs) + 1 /\ Len(rs) \in Nat /\ v[Len(rs) + 1] = w
    BY <1>2
  <2> HIDE DEF v
  <2>2. v # <<>> /\ v[Len(v)] = w
    BY <2>1
  <2>3. QED
    BY <2>2 DEF v
<1> HIDE DEF w
<1>11. QED
  BY <1>1, <1>8, <1>9, <1>10 DEF Holding, w, r

\* The end of what was begun: pieces of it
LEMMA RepeatedIs ==
  ASSUME NEW ps \in Seq(ChunkPiece), ps # <<>>, NEW overlap \in Nat
  PROVE  LET r == SubSeq(ps, Max({1, Len(ps) + 1 - overlap}), Len(ps))
         IN  r \in Seq(ChunkPiece) /\ \A k \in DOMAIN r : r[k] \in Range(ps)
<1> DEFINE m == Max({1, Len(ps) + 1 - overlap})
<1>1. Len(ps) \in Nat \ {0} /\ DOMAIN ps = 1..Len(ps)
  OBVIOUS
<1>2. m \in 1..(Len(ps) + 1)
  <2> DEFINE x == Len(ps) + 1 - overlap
  <2>1. x \in Int /\ x <= Len(ps) + 1
    BY <1>1
  <2> HIDE DEF x
  <2>2. \E y \in {1, x} : \A z \in {1, x} : y >= z
    BY <2>1
  <2>3. Max({1, x}) \in {1, x} /\ \A z \in {1, x} : Max({1, x}) >= z
    BY <2>2 DEF Max
  <2>4. QED
    BY <1>1, <2>1, <2>3 DEF x
<1> HIDE DEF m
<1>3. CASE m = Len(ps) + 1
  <2>1. SubSeq(ps, m, Len(ps)) = <<>>
    BY <1>1, <1>3
  <2> DEFINE r == SubSeq(ps, m, Len(ps))
  <2>2. <<>> \in Seq(ChunkPiece) /\ DOMAIN <<>> = {}
    OBVIOUS
  <2>3. r \in Seq(ChunkPiece) /\ DOMAIN r = {}
    BY <2>1, <2>2
  <2> HIDE DEF r
  <2>4. QED
    BY <2>3 DEF r, m
<1>4. CASE m # Len(ps) + 1
  <2> DEFINE r == SubSeq(ps, m, Len(ps))
  <2>1. m \in 1..Len(ps) /\ Len(ps) \in m..Len(ps)
    BY <1>1, <1>2, <1>4
  <2>2. /\ r \in Seq(ChunkPiece) /\ Len(r) = Len(ps) + 1 - m
        /\ \A k \in 1..(Len(ps) + 1 - m) : r[k] = ps[m - 1 + k]
    BY <2>1, ThreeParts
  <2> HIDE DEF r
  <2>3. ASSUME NEW k \in DOMAIN r PROVE r[k] \in Range(ps)
    <3>1. k \in 1..(Len(ps) + 1 - m) /\ m - 1 + k \in DOMAIN ps
      BY <1>1, <2>1, <2>2
    <3>2. r[k] = ps[m - 1 + k]
      BY <2>2, <3>1
    <3>3. QED
      BY <3>1, <3>2 DEF Range
  <2>4. QED
    BY <2>2, <2>3 DEF r, m
<1>5. QED
  BY <1>3, <1>4

\* Pieces and one more, of the same heading
LEMMA PiecesMore ==
  ASSUME NEW ps \in Seq(ChunkPiece), NEW p \in ChunkPiece, NEW heading, p.heading = heading,
         \A k \in DOMAIN ps : ps[k].heading = heading,
         FitsBelow(Bodies(Append(ps, p)), heading)
  PROVE  PiecesOK(Append(ps, p), heading)
<1>1. /\ Append(ps, p) \in Seq(ChunkPiece) /\ DOMAIN Append(ps, p) = 1..(Len(ps) + 1) /\ Len(ps) \in Nat
      /\ DOMAIN ps = 1..Len(ps) /\ Append(ps, p)[Len(ps) + 1] = p /\ \A k \in DOMAIN ps : Append(ps, p)[k] = ps[k]
  OBVIOUS
<1>2. \A k \in DOMAIN Append(ps, p) : k \in DOMAIN ps \/ k = Len(ps) + 1
  BY <1>1
<1>3. QED
  BY <1>1, <1>2 DEF PiecesOK

\* A piece by itself
LEMMA PieceAlone ==
  ASSUME NEW p \in ChunkPiece, NEW heading, p.heading = heading, FitsBelow(Bodies(<<p>>), heading)
  PROVE  PiecesOK(<<p>>, heading)
<1>1. <<p>> \in Seq(ChunkPiece) /\ \A k \in DOMAIN <<p>> : <<p>>[k] = p
  OBVIOUS
<1>2. QED
  BY <1>1 DEF PiecesOK

-----------------------------------------------------------------------------
(* The steps *)

\* What is so while a document is chunked
LEMMA AtWork ==
  ASSUME ChunkInv, status = "chunking"
  PROVE  /\ DocumentTaken /\ Loaded /\ ChunksOK(records) /\ records \in Seq(Seq(ChunkPiece))
         /\ Working(records, pending, blocks, stack) /\ HeadingOK(Heading)
         /\ Flushed = Flush(records, pending) /\ PiecesOK(pending, Heading) /\ pending \in Seq(ChunkPiece)
         /\ ChunksOK(Flushed) /\ Holding(Flushed, blocks)
<1>1. DocumentTaken /\ Loaded /\ ChunksOK(records) /\ Working(records, pending, blocks, stack)
  BY DEF ChunkInv, DocumentTaken
<1>2. HeadingOK(Heading)
  BY <1>1, HeadingFits DEF Working, HeadingOK, Heading
<1>3. Flushed = Flush(records, pending)
  BY DEF Flushed, Flush
<1>4. PiecesOK(pending, Heading)
  BY <1>1 DEF Working, Heading
<1>5. ChunksOK(Flushed)
  BY <1>1, <1>3, <1>4, FlushOK
<1>6. QED
  BY <1>1, <1>2, <1>3, <1>4, <1>5 DEF Working, ChunksOK, PiecesOK

\* Nothing is begun.
LEMMA NothingBegun ==
  /\ ChunksOK(<<>>)
  /\ \A heading : PiecesOK(<<>>, heading)
  /\ \A rs : Flush(rs, <<>>) = rs
  /\ \A bs : Earlier(<<>>, bs)
<1>1. <<>> \in Seq(Seq(ChunkPiece)) /\ <<>> \in Seq(ChunkPiece) /\ DOMAIN <<>> = {}
  OBVIOUS
<1>2. QED
  BY <1>1 DEF ChunksOK, PiecesOK, Flush, Earlier

\* A document of too many chunks is refused; otherwise they are as they are emitted.
LEMMA EmitsSound ==
  ASSUME ChunkInv, status = "chunking", call' = call, NEW chunks, Emits(chunks), ChunksOK(chunks),
         NEW path, path = stack', NEW bs, bs = blocks', NEW ps, ps = pending',
         Working(chunks, ps, bs, path)
  PROVE  ChunkInv'
<1>1. DocumentTaken
  BY AtWork
<1>2. CASE Len(chunks) > Maximum
  <2>1. records' = <<>> /\ status' = "CHUNK_LIMIT"
    BY <1>2 DEF Emits
  <2> DEFINE none == <<>>
  <2>2. none = records' /\ ChunksOK(none)
    BY <2>1, NothingBegun
  <2> HIDE DEF none
  <2>3. QED
    BY <1>1, <2>1, <2>2, ChunkInvNext
<1>3. CASE ~(Len(chunks) > Maximum)
  <2>1. chunks = records' /\ status' = "chunking"
    BY <1>3 DEF Emits
  <2>2. QED
    BY <1>1, <2>1, ChunkInvNext
<1>4. QED
  BY <1>2, <1>3

\* What blocks hold is text.
TextRemains == \A bs, T : Loaded /\ BlocksOK(bs, T) => Remains(bs) \in Seq(Nat)

LEMMA RemainsText == TextRemains
BY RemainsIs DEF TextRemains

\* The parser's blocks hold all of the document.
LEMMA BeginSound ==
  ASSUME ChunkInv, status = "waiting",
         NEW d \in Files, NEW size \in Budgets, NEW overlap \in Overlaps, Begin(d, size, overlap)
  PROVE  ChunkInv'
<1>1. DocumentOK(d) /\ \A k \in LineKinds[d.format] : Length[k] \in Nat
  BY FilesAssumption, LengthAssumption DEF DocumentOK
<1>2. size \in Nat \ {0} /\ overlap \in Nat
  BY LimitsAssumption
<1>3. /\ call' = [format |-> d.format, text |-> d.text, size |-> size, overlap |-> overlap]
      /\ blocks' = Parsed(d) /\ stack' = <<>> /\ pending' = <<>> /\ records' = <<>>
      /\ status' = IF Parsed(d) = <<>> THEN "EMPTY_DOCUMENT" ELSE "chunking"
  BY DEF Begin, ChunkInv
<1>4. call'.text = d.text /\ call'.format = d.format /\ call'.size = size /\ call'.overlap = overlap
  BY <1>3
<1> DEFINE doc == [format |-> d.format, text |-> d.text]
<1>5. DocumentOK(doc) /\ Parsed(doc) = Parsed(d)
  BY <1>1 DEF DocumentOK, Parsed
<1>6. Doc' = doc
  BY <1>4 DEF Doc
<1> HIDE DEF doc
<1>7. Parsed(Doc)' = Parsed(d)
  BY <1>5, <1>6
<1>8. DocumentTaken'
  <2>1. Len(d.text) \in Nat /\ DOMAIN d.text = 1..Len(d.text)
        /\ \A l \in DOMAIN d.text : d.text[l] \in LineKinds[d.format]
    BY <1>1 DEF DocumentOK
  <2>2. Loaded'
    BY <1>1, <1>2, <1>4, <2>1 DEF Loaded
  <2>3. DocumentOK(Doc)'
    BY <1>5, <1>6
  <2>4. QED
    BY <1>2, <1>4, <2>2, <2>3 DEF DocumentTaken
<1>9. ChunksOK(records)'
  <2>1. <<>> \in Seq(Seq(ChunkPiece)) /\ DOMAIN <<>> = {}
    OBVIOUS
  <2>2. QED
    BY <1>3, <2>1 DEF ChunksOK
<1>10. ASSUME Parsed(d) # <<>> PROVE Working(records, pending, blocks, stack)'
  <2>1. /\ stack' \in Seq(DOMAIN call'.text) /\ records' = <<>> /\ pending' = <<>> /\ blocks' = Parsed(d)
        /\ <<>> \in Seq(ChunkPiece) /\ DOMAIN <<>> = {}
    BY <1>3
  <2>2. PiecesOK(pending, FitHeadingPath(stack, call.size))'
    BY <2>1 DEF PiecesOK
  <2>3. Flush(records, pending)' = <<>>
    BY <2>1 DEF Flush
  <2>4. PICK T : /\ BlocksHold(Parsed(d), T, 1, DocumentContent(d), DOMAIN d.text)
                 /\ \A n \in DOMAIN Parsed(d) : Parsed(d)[n].lines # <<>>
    BY <1>1, ParsedHolds
  <2>5. BlocksOK(blocks, T)'
    BY <1>4, <2>1, <2>4 DEF BlocksOK, BlocksHold
  <2>6. HeldOf(<<>>) = <<>>
    BY FlattenEmpty, WhereEmpty DEF HeldOf, Characters
  <2>7. Remains(blocks)' \in Seq(Nat)
    <3>1. Loaded'
      BY <1>8 DEF DocumentTaken
    <3>2. TextRemains'
      BY RemainsText, PTL
    <3>3. QED
      BY <2>5, <3>1, <3>2 DEF TextRemains
  <2>8. Holding(Flush(records, pending), blocks)'
    BY <1>7, <2>1, <2>3, <2>5, <2>6, <2>7 DEF Holding
  <2>9. QED
    BY <2>1, <2>2, <2>8 DEF Working
<1>11. QED
  BY <1>3, <1>7, <1>8, <1>9, <1>10 DEF ChunkInv

\* The blocks behind the next
LEMMA NextIs ==
  ASSUME ChunkInv, NextBlock
  PROVE  /\ status = "chunking" /\ blocks # <<>> /\ blocks' = Tail(blocks) /\ call' = call
         /\ DocumentTaken /\ Loaded /\ ChunksOK(records) /\ records \in Seq(Seq(ChunkPiece))
         /\ HeadingOK(Heading) /\ Flushed = Flush(records, pending) /\ PiecesOK(pending, Heading)
         /\ ChunksOK(Flushed) /\ Holding(Flushed, blocks) /\ stack \in Seq(DOMAIN call.text)
         /\ \E T : BlocksOK(blocks, T)
         /\ BlockIn(Head(blocks), 1, DOMAIN call.text) /\ Head(blocks).lines # <<>>
         /\ records # <<>> => Earlier(records[Len(records)], blocks) /\ Earlier(records[Len(records)], Tail(blocks))
         /\ Earlier(pending, blocks) /\ pending \in Seq(ChunkPiece)
<1>1. status = "chunking" /\ blocks # <<>> /\ blocks' = Tail(blocks) /\ call' = call
  BY DEF NextBlock
<1>2. /\ DocumentTaken /\ Loaded /\ ChunksOK(records) /\ records \in Seq(Seq(ChunkPiece))
      /\ Working(records, pending, blocks, stack) /\ HeadingOK(Heading)
      /\ Flushed = Flush(records, pending) /\ PiecesOK(pending, Heading) /\ pending \in Seq(ChunkPiece)
      /\ ChunksOK(Flushed) /\ Holding(Flushed, blocks)
  BY <1>1, AtWork
<1>3. PICK T : BlocksOK(blocks, T)
  BY <1>2 DEF Holding
<1>4. /\ BlockIn(Head(blocks), 1, DOMAIN call.text) /\ Head(blocks).lines # <<>>
      /\ \A ps : Earlier(ps, blocks) => Earlier(ps, Tail(blocks))
  BY <1>1, <1>2, <1>3, BlocksBehind
<1>5. Earlier(pending, blocks)
  <2>1. CASE pending = <<>>
    BY <2>1, NothingBegun
  <2>2. CASE pending # <<>>
    <3>1. Flushed = Append(records, pending)
      BY <2>2 DEF Flushed
    <3> DEFINE v == Append(records, pending)
    <3>2. v \in Seq(Seq(ChunkPiece)) /\ Len(v) = Len(records) + 1 /\ Len(records) \in Nat
          /\ v[Len(records) + 1] = pending
      BY <1>2
    <3> HIDE DEF v
    <3>3. v # <<>> /\ v[Len(v)] = pending
      BY <3>2
    <3>4. v # <<>> => Earlier(v[Len(v)], blocks)
      BY <1>2, <3>1 DEF Holding, v
    <3>5. QED
      BY <3>3, <3>4
  <2>3. QED
    BY <2>1, <2>2
<1>6. QED
  BY <1>1, <1>2, <1>3, <1>4, <1>5 DEF Working

\* The beginning of a sequence
LEMMA BeginningIs ==
  ASSUME NEW T, NEW s \in Seq(T), NEW n \in Nat, n <= Len(s)
  PROVE  SubSeq(s, 1, n) \in Seq(T)
OBVIOUS

\* A sequence of one
LEMMA OneIs ==
  ASSUME NEW T, NEW s \in Seq(T), Len(s) = 1
  PROVE  1 \in DOMAIN s /\ s[1] \in T /\ s = <<s[1]>>
OBVIOUS

\* A heading ends a chunk, and the path is of lines again.
LEMMA SectionSound ==
  ASSUME ChunkInv, NEW level \in {1, 2}, StartSection(level)
  PROVE  ChunkInv'
<1>1. NextBlock /\ Head(blocks).kind = "heading" /\ Emits(Flushed) /\ pending' = <<>>
      /\ stack' = SubSeq(stack, 1, Min({level - 1, Len(stack)})) \o Head(blocks).lines
  BY DEF StartSection
<1>2. /\ status = "chunking" /\ blocks # <<>> /\ blocks' = Tail(blocks) /\ call' = call
      /\ Loaded /\ ChunksOK(Flushed) /\ Holding(Flushed, blocks) /\ stack \in Seq(DOMAIN call.text)
      /\ BlockIn(Head(blocks), 1, DOMAIN call.text)
  BY <1>1, NextIs
<1>3. stack' \in Seq(DOMAIN call.text)
  <2> DEFINE n == Min({level - 1, Len(stack)})
             lines == Head(blocks).lines
  <2>1. Len(stack) \in Nat /\ level - 1 \in Nat
    BY <1>2
  <2>2. {level - 1, Len(stack)} \in SUBSET Nat /\ {level - 1, Len(stack)} # {}
    BY <2>1
  <2>3. n \in Nat /\ n <= Len(stack)
    BY <2>1, <2>2, MinIs
  <2>4. lines \in Seq(DOMAIN call.text)
    BY <1>2 DEF BlockIn
  <2> HIDE DEF n, lines
  <2>5. SubSeq(stack, 1, n) \in Seq(DOMAIN call.text)
    BY <1>2, <2>3, BeginningIs
  <2>6. SubSeq(stack, 1, n) \o lines \in Seq(DOMAIN call.text)
    BY <2>4, <2>5, InARow
  <2>7. QED
    BY <1>1, <2>6 DEF n, lines
<1>4. DataText(Head(blocks)) = <<>>
  BY <1>1 DEF DataText
<1>5. Holding(Flushed, Tail(blocks))
  BY <1>2, <1>4, HoldingSkip
<1> DEFINE none == <<>>
<1>6. none = pending' /\ (\A heading : PiecesOK(none, heading)) /\ Flush(Flushed, none) = Flushed
  BY <1>1, NothingBegun
<1> HIDE DEF none
<1>7. \A path : path \in Seq(DOMAIN call.text) => Working(Flushed, none, Tail(blocks), path)
  BY <1>5, <1>6 DEF Working, Holding
<1>8. QED
  BY <1>1, <1>2, <1>3, <1>6, <1>7, EmitsSound

\* Pieces that are chunks of their own
LEMMA PiecesSound ==
  ASSUME ChunkInv, EmitPieces
  PROVE  ChunkInv'
<1> DEFINE ps == BlockPieces(Head(blocks), Heading)
           chunks == Flushed \o Singles(ps)
           none == <<>>
<1>1. /\ NextBlock /\ Head(blocks).kind # "heading" /\ ps # <<>> /\ Emits(chunks)
      /\ pending' = <<>> /\ stack' = stack
  BY DEF EmitPieces, Singles
<1>2. /\ status = "chunking" /\ blocks # <<>> /\ blocks' = Tail(blocks) /\ call' = call
      /\ DocumentTaken /\ ChunksOK(Flushed) /\ Holding(Flushed, blocks) /\ stack \in Seq(DOMAIN call.text)
      /\ HeadingOK(Heading)
  BY <1>1, NextIs
<1>3. ChunksOK(chunks) /\ Holding(chunks, Tail(blocks))
  BY <1>1, <1>2, HoldingSingles
<1> HIDE DEF chunks
<1>4. none = pending' /\ (\A heading : PiecesOK(none, heading)) /\ Flush(chunks, none) = chunks
  BY <1>1, NothingBegun
<1> HIDE DEF none
<1>5. Working(chunks, none, Tail(blocks), stack)
  BY <1>2, <1>3, <1>4 DEF Working, Holding
<1>6. QED
  BY <1>1, <1>2, <1>3, <1>4, <1>5, EmitsSound

\* A block without pieces has no data.
LEMMA SkipSound ==
  ASSUME ChunkInv, SkipBlock
  PROVE  ChunkInv'
<1>1. /\ NextBlock /\ Head(blocks).kind # "heading" /\ BlockPieces(Head(blocks), Heading) = <<>>
      /\ stack' = stack /\ pending' = pending /\ records' = records /\ status' = status
  BY DEF SkipBlock
<1>2. /\ status = "chunking" /\ blocks # <<>> /\ blocks' = Tail(blocks) /\ call' = call
      /\ DocumentTaken /\ Loaded /\ ChunksOK(records) /\ Flushed = Flush(records, pending)
      /\ Holding(Flushed, blocks) /\ stack \in Seq(DOMAIN call.text)
      /\ HeadingOK(Heading) /\ PiecesOK(pending, Heading)
      /\ BlockIn(Head(blocks), 1, DOMAIN call.text) /\ Head(blocks).lines # <<>>
      /\ (records # <<>> => Earlier(records[Len(records)], Tail(blocks)))
  BY <1>1, NextIs
<1>3. DataText(Head(blocks)) = Characters(TextOf(<<>>))
  BY <1>1, <1>2, BlockPiecesAre
<1>4. Characters(TextOf(<<>>)) = <<>>
  <2>1. [k \in DOMAIN <<>> |-> <<>>[k].text] = <<>>
    OBVIOUS
  <2>2. QED
    BY <2>1, FlattenEmpty, WhereEmpty DEF TextOf, Characters
<1>5. Holding(Flushed, Tail(blocks))
  BY <1>2, <1>3, <1>4, HoldingSkip
<1>6. Working(records, pending, Tail(blocks), stack)
  BY <1>2, <1>5 DEF Working, Heading
<1>7. QED
  BY <1>1, <1>2, <1>6, ChunkInvNext

\* A piece joins the chunk that is begun, or begins the next with what is repeated.
LEMMA PieceSound ==
  ASSUME ChunkInv, AddPiece
  PROVE  ChunkInv'
<1> DEFINE pieces == BlockPieces(Head(blocks), Heading)
           p == pieces[1]
<1>1. /\ NextBlock /\ Head(blocks).kind \notin {"heading", "table"} /\ Len(pieces) = 1 /\ stack' = stack
      /\ IF pending # <<>> /\ ~FitsBelow(Bodies(pending \o pieces), Heading)
           THEN Emits(Flushed) /\ pending' = AfterFlush(pieces[1])
           ELSE pending' = pending \o pieces /\ records' = records /\ status' = status
  BY DEF AddPiece
<1>2. /\ status = "chunking" /\ blocks # <<>> /\ blocks' = Tail(blocks) /\ call' = call
      /\ DocumentTaken /\ Loaded /\ ChunksOK(records) /\ records \in Seq(Seq(ChunkPiece))
      /\ HeadingOK(Heading) /\ Flushed = Flush(records, pending) /\ PiecesOK(pending, Heading)
      /\ ChunksOK(Flushed) /\ Holding(Flushed, blocks) /\ stack \in Seq(DOMAIN call.text)
      /\ (\E T : BlocksOK(blocks, T))
      /\ BlockIn(Head(blocks), 1, DOMAIN call.text) /\ Head(blocks).lines # <<>>
      /\ (records # <<>> => Earlier(records[Len(records)], blocks) /\ Earlier(records[Len(records)], Tail(blocks)))
      /\ Earlier(pending, blocks) /\ pending \in Seq(ChunkPiece)
  BY <1>1, NextIs
<1>3. PICK T : BlocksOK(blocks, T)
  BY <1>2
<1>4. /\ pieces \in Seq(ChunkPiece) /\ Characters(TextOf(pieces)) = DataText(Head(blocks))
      /\ \A n \in DOMAIN pieces : /\ pieces[n].block = Head(blocks).lines[1] /\ pieces[n].heading = Heading
                                  /\ TextFits(pieces[n].header, Heading, pieces[n].text)
                                  /\ pieces[n].header = <<>>
  BY <1>1, <1>2, BlockPiecesAre
<1> HIDE DEF pieces
<1>5. 1 \in DOMAIN pieces /\ p \in ChunkPiece /\ pieces = <<p>> /\ pending \o pieces = Append(pending, p)
  <2>1. 1 \in DOMAIN pieces /\ p \in ChunkPiece /\ pieces = <<p>>
    BY <1>1, <1>4, OneIs
  <2> HIDE DEF p
  <2>2. Append(pending, p) = pending \o <<p>>
    BY <1>2, <2>1, AppendIs
  <2>3. QED
    BY <2>1, <2>2
<1>6. /\ p.block = Head(blocks).lines[1] /\ p.heading = Heading /\ p.header = <<>>
      /\ TextFits(p.header, p.heading, p.text)
  BY <1>4, <1>5
<1>7. FitsBelow(Bodies(<<p>>), Heading)
  BY <1>5, <1>6, PieceChunk
<1>8. Characters(p.text) = DataText(Head(blocks))
  <2>1. p.text \in Seq(Nat)
    BY <1>5 DEF ChunkPiece
  <2>2. [k \in DOMAIN <<p>> |-> <<p>>[k].text] = <<p.text>>
    OBVIOUS
  <2>3. TextOf(<<p>>) = p.text
    BY <2>1, <2>2, FlattenOne DEF TextOf
  <2>4. QED
    BY <1>4, <1>5, <2>3
<1> HIDE DEF p
<1>9. Holding(Flushed, blocks) /\ HeldOf(Flushed) \o Remains(blocks) = Remains(Parsed(Doc))
  BY <1>2 DEF Holding
<1>10. \A rs \in Seq(Seq(ChunkPiece)) : HeldOf(rs) \in Seq(Nat) /\ HeldOf(rs) \o <<>> = HeldOf(rs)
  <2>1. <<>> \in Seq(ChunkPiece)
    OBVIOUS
  <2>2. \A rs \in Seq(Seq(ChunkPiece)) : HeldOf(rs) \in Seq(Nat)
    BY <2>1, HeldAppend
  <2>3. QED
    BY <2>2
<1>11. Characters(TextOf(<<>>)) = <<>>
  <2>1. [k \in DOMAIN <<>> |-> <<>>[k].text] = <<>>
    OBVIOUS
  <2>2. QED
    BY <2>1, FlattenEmpty, WhereEmpty DEF TextOf, Characters
<1>12. CASE pending # <<>> /\ ~FitsBelow(Bodies(pending \o pieces), Heading)
  <2> DEFINE repeated == SubSeq(pending, Max({1, Len(pending) + 1 - call.overlap}), Len(pending))
  <2>1. PICK c \in Seq(ChunkPiece) :
          /\ pending' = Append(c, p) /\ (\A k \in DOMAIN c : c[k] \in Range(pending))
          /\ FitsBelow(Bodies(Append(c, p)), Heading)
    <3>1. repeated \in Seq(ChunkPiece) /\ \A k \in DOMAIN repeated : repeated[k] \in Range(pending)
      BY <1>2, <1>12, RepeatedIs DEF DocumentTaken
    <3>2. pending' = IF FitsBelow(Bodies(repeated \o <<p>>), Heading) THEN repeated \o <<p>> ELSE <<p>>
      BY <1>1, <1>12 DEF AfterFlush, p
    <3> HIDE DEF repeated
    <3>3. CASE FitsBelow(Bodies(repeated \o <<p>>), Heading)
      <4>1. repeated \o <<p>> = Append(repeated, p)
        BY <1>5, <3>1, AppendIs
      <4>2. QED
        BY <3>1, <3>2, <3>3, <4>1
    <3>4. CASE ~FitsBelow(Bodies(repeated \o <<p>>), Heading)
      <4> DEFINE none == <<>>
      <4>1. none \in Seq(ChunkPiece) /\ DOMAIN none = {} /\ Append(none, p) = <<p>>
        OBVIOUS
      <4> HIDE DEF none
      <4>2. QED
        BY <1>7, <3>2, <3>4, <4>1
    <3>5. QED
      BY <3>3, <3>4
  <2> HIDE DEF repeated
  <2>2. Flushed = Append(records, pending) /\ Emits(Flushed)
    BY <1>1, <1>12 DEF Flushed
  <2> DEFINE rs == Append(records, pending)
  <2>3. /\ rs \in Seq(Seq(ChunkPiece)) /\ rs # <<>> /\ rs[Len(rs)] = pending
    <3>1. rs \in Seq(Seq(ChunkPiece)) /\ Len(rs) = Len(records) + 1 /\ Len(records) \in Nat
          /\ rs[Len(records) + 1] = pending
      BY <1>2
    <3> HIDE DEF rs
    <3>2. QED
      BY <3>1
  <2> HIDE DEF rs
  <2>4. rs = Flushed
    BY <2>2 DEF rs
  <2>5. News(rs, c) = <<>>
    BY <2>1, <2>3, NewsNone
  <2>6. (HeldOf(rs) \o Characters(TextOf(News(rs, c)))) \o Remains(blocks) = Remains(Parsed(Doc))
    BY <1>9, <1>10, <1>11, <2>3, <2>4, <2>5
  <2>7. Earlier(c, blocks) /\ \A k \in DOMAIN c : c[k].heading = Heading
    <3>1. ASSUME NEW k \in DOMAIN c PROVE \E j \in DOMAIN pending : c[k] = pending[j]
      BY <2>1 DEF Range
    <3>2. \A k \in DOMAIN c : c[k].heading = Heading
      BY <1>2, <3>1 DEF PiecesOK
    <3>3. Earlier(c, blocks)
      BY <1>2, <3>1 DEF Earlier
    <3>4. QED
      BY <3>2, <3>3
  <2>8. Holding(Append(rs, Append(c, p)), Tail(blocks))
    BY <1>2, <1>3, <1>5, <1>6, <1>8, <2>3, <2>6, <2>7, HoldingMore
  <2>9. PiecesOK(Append(c, p), Heading)
    BY <1>5, <1>6, <2>1, <2>7, PiecesMore
  <2>10. Earlier(pending, Tail(blocks))
    BY <1>2, <1>3, BlocksBehind
  <2> DEFINE w == Append(c, p)
  <2>11. w # <<>>
    <3>1. w \in Seq(ChunkPiece) /\ Len(w) = Len(c) + 1 /\ Len(c) \in Nat
      BY <1>5
    <3> HIDE DEF w
    <3>2. QED
      BY <3>1
  <2> HIDE DEF w
  <2>12. Working(rs, w, Tail(blocks), stack)
    BY <1>2, <2>3, <2>8, <2>9, <2>10, <2>11 DEF Working, Flush, Heading, w
  <2>13. w = pending'
    BY <2>1 DEF w
  <2>14. QED
    BY <1>1, <1>2, <2>2, <2>4, <2>12, <2>13, EmitsSound
<1>13. CASE ~(pending # <<>> /\ ~FitsBelow(Bodies(pending \o pieces), Heading))
  <2> DEFINE w == Append(pending, p)
  <2>1. pending' = w /\ records' = records /\ status' = status
    BY <1>1, <1>5, <1>13
  <2>2. PiecesOK(w, Heading)
    <3>1. CASE pending = <<>>
      <4>1. w = <<p>>
        BY <3>1
      <4>2. QED
        BY <1>5, <1>6, <1>7, <4>1, PieceAlone
    <3>2. CASE pending # <<>>
      <4>1. FitsBelow(Bodies(w), Heading)
        BY <1>5, <1>13, <3>2
      <4>2. QED
        BY <1>2, <1>5, <1>6, <4>1, PiecesMore DEF PiecesOK
    <3>3. QED
      BY <3>1, <3>2
  <2>3. (HeldOf(records) \o Characters(TextOf(News(records, pending)))) \o Remains(blocks) = Remains(Parsed(Doc))
    <3>1. CASE pending = <<>>
      <4>1. News(records, pending) = <<>>
        BY <3>1, WhereEmpty DEF News
      <4>2. Flushed = records
        BY <3>1 DEF Flushed
      <4>3. QED
        BY <1>2, <1>9, <1>10, <1>11, <4>1, <4>2
    <3>2. CASE pending # <<>>
      <4>1. Flushed = Append(records, pending)
        BY <3>2 DEF Flushed
      <4>2. HeldOf(Append(records, pending)) = HeldOf(records) \o Characters(TextOf(News(records, pending)))
        BY <1>2, HeldAppend
      <4>3. QED
        BY <1>9, <4>1, <4>2
    <3>3. QED
      BY <3>1, <3>2
  <2>4. Holding(Append(records, w), Tail(blocks))
    BY <1>2, <1>3, <1>5, <1>6, <1>8, <2>3, HoldingMore
  <2>5. w # <<>>
    <3>1. w \in Seq(ChunkPiece) /\ Len(w) = Len(pending) + 1 /\ Len(pending) \in Nat
      BY <1>2, <1>5
    <3> HIDE DEF w
    <3>2. QED
      BY <3>1
  <2> HIDE DEF w
  <2>6. Working(records, w, Tail(blocks), stack)
    BY <1>2, <2>2, <2>4, <2>5 DEF Working, Flush, Heading
  <2>7. QED
    BY <1>1, <1>2, <2>1, <2>6, ChunkInvNext
<1>14. QED
  BY <1>12, <1>13

\* The end: all was read.
LEMMA FinishSound ==
  ASSUME ChunkInv, Finish
  PROVE  ChunkInv'
<1>1. /\ status = "chunking" /\ blocks = <<>> /\ call' = call /\ pending' = <<>>
      /\ records' = IF Len(Flushed) > Maximum THEN <<>> ELSE Flushed
      /\ status' = IF Len(Flushed) > Maximum THEN "CHUNK_LIMIT" ELSE "chunked"
  BY DEF Finish
<1>2. DocumentTaken /\ ChunksOK(Flushed) /\ HeldOf(Flushed) \o Remains(blocks) = Remains(Parsed(Doc))
      /\ Flushed \in Seq(Seq(ChunkPiece))
  BY <1>1, AtWork DEF Holding, ChunksOK
<1>3. Remains(blocks) = <<>>
  <2>1. [n \in DOMAIN <<>> |-> DataText(<<>>[n])] = <<>>
    OBVIOUS
  <2>2. QED
    BY <1>1, <2>1, FlattenEmpty DEF Remains
<1>4. HeldOf(Flushed) = Remains(Parsed(Doc))
  <2>1. <<>> \in Seq(ChunkPiece)
    OBVIOUS
  <2>2. HeldOf(Flushed) \in Seq(Nat)
    BY <1>2, <2>1, HeldAppend
  <2>3. HeldOf(Flushed) \o <<>> = HeldOf(Flushed)
    BY <2>2
  <2>4. QED
    BY <1>2, <1>3, <2>3
<1>5. CASE Len(Flushed) > Maximum
  <2> DEFINE none == <<>>
  <2>1. none = records' /\ ChunksOK(none) /\ status' = "CHUNK_LIMIT"
    BY <1>1, <1>5, NothingBegun
  <2> HIDE DEF none
  <2>2. QED
    BY <1>1, <1>2, <2>1, ChunkInvNext
<1>6. CASE ~(Len(Flushed) > Maximum)
  <2>1. Flushed = records' /\ status' = "chunked"
    BY <1>1, <1>6
  <2>2. QED
    BY <1>1, <1>2, <1>4, <2>1, ChunkInvNext
<1>7. QED
  BY <1>5, <1>6

\* The initial states, and all steps
LEMMA ChunkInvInit == ChunkInit => ChunkInv
<1> SUFFICES ASSUME ChunkInit PROVE ChunkInv
  OBVIOUS
<1>1. status = "waiting" /\ records = <<>> /\ pending = <<>> /\ stack = <<>>
  BY DEF ChunkInit
<1>2. ChunksOK(records)
  BY <1>1, NothingBegun
<1>3. QED
  BY <1>1, <1>2 DEF ChunkInv

LEMMA ChunkInvStep == ChunkInv /\ [ChunkNext]_chunkVars => ChunkInv'
<1> SUFFICES ASSUME ChunkInv, [ChunkNext]_chunkVars PROVE ChunkInv'
  OBVIOUS
<1>1. CASE \E d \in Files, size \in Budgets, overlap \in Overlaps :
             status = "waiting" /\ Begin(d, size, overlap)
  BY <1>1, BeginSound
<1>2. CASE \E level \in {1, 2} : StartSection(level)
  BY <1>2, SectionSound
<1>3. CASE EmitPieces
  BY <1>3, PiecesSound
<1>4. CASE AddPiece
  BY <1>4, PieceSound
<1>5. CASE SkipBlock
  BY <1>5, SkipSound
<1>6. CASE Finish
  BY <1>6, FinishSound
<1>7. CASE UNCHANGED chunkVars
  <2>1. call' = call /\ records' = records /\ status' = status /\ blocks' = blocks /\ stack' = stack /\ pending' = pending
    BY <1>7 DEF chunkVars
  <2>2. \A rs, ps, bs, path :
          /\ Working(rs, ps, bs, path)' <=> Working(rs, ps, bs, path)
          /\ ChunksOK(rs)' <=> ChunksOK(rs)
          /\ HeldOf(rs)' = HeldOf(rs) /\ Remains(Parsed(Doc))' = Remains(Parsed(Doc))
          /\ DocumentTaken' <=> DocumentTaken
    BY <2>1, SameChunks
  <2>3. Parsed(Doc)' = Parsed(Doc)
    BY <2>1, SameTexts
  <2>4. QED
    BY <2>1, <2>2, <2>3 DEF ChunkInv
<1>8. QED
  BY <1>1, <1>2, <1>3, <1>4, <1>5, <1>6, <1>7 DEF ChunkNext

\* What the chunks hold, in the program's words
LEMMA HeldIs == Held = HeldOf(records)
<1>1. \A n : Fresh(n) = FreshOf(records, n)
  BY DEF Fresh, FreshOf
<1>2. QED
  BY <1>1 DEF Held, HeldOf, TextOf

LEMMA ContentIs ==
  ASSUME DocumentTaken, NEW l \in DOMAIN call.text
  PROVE  IsContent(l) <=> l \in DocumentContent(Doc)
<1>1. Doc.format = call.format /\ Doc.text = call.text
  BY DEF Doc
<1>2. call.format \in {"text", "docx", "xlsx", "pdf"}
  BY <1>1 DEF DocumentTaken, DocumentOK, LineKinds
<1>3. CASE call.format = "text"
  BY <1>1, <1>3 DEF IsContent, DocumentContent, TextContent
<1>4. CASE call.format = "docx"
  BY <1>1, <1>4 DEF IsContent, DocumentContent, DocxContent
<1>5. CASE call.format = "xlsx"
  BY <1>1, <1>5 DEF IsContent, DocumentContent, SheetContent
<1>6. CASE call.format = "pdf"
  BY <1>1, <1>6 DEF IsContent, DocumentContent
<1>7. QED
  BY <1>2, <1>3, <1>4, <1>5, <1>6

\* The invariant means that chunking is sound.
LEMMA ChunkInvSound == ChunkInv => ChunkingSound
<1> SUFFICES ASSUME ChunkInv PROVE ChunkingSound
  OBVIOUS
<1>1. ChunksFit
  BY DEF ChunksFit, ChunkInv, ChunksOK, ChunkOK
<1>2. ASSUME status = "EMPTY_DOCUMENT" \/ status = "chunked"
      PROVE  /\ DocumentTaken /\ Loaded
             /\ \E T : /\ BlocksOK(Parsed(Doc), T)
                       /\ \A l \in DOMAIN call.text : IsContent(l) => IsData(Parsed(Doc), l)
  <2>1. DocumentTaken /\ Loaded /\ DocumentOK(Doc) /\ Doc.text = call.text
    BY <1>2 DEF ChunkInv, DocumentTaken, Doc
  <2>2. PICK T : /\ BlocksHold(Parsed(Doc), T, 1, DocumentContent(Doc), DOMAIN Doc.text)
                 /\ \A n \in DOMAIN Parsed(Doc) : Parsed(Doc)[n].lines # <<>>
    BY <2>1, ParsedHolds
  <2>3. BlocksOK(Parsed(Doc), T)
    BY <2>1, <2>2 DEF BlocksOK, BlocksHold
  <2>4. ASSUME NEW l \in DOMAIN call.text, IsContent(l) PROVE IsData(Parsed(Doc), l)
    <3>1. l \in DocumentContent(Doc) /\ 1 <= l
      BY <2>1, <2>4, ContentIs DEF Loaded
    <3>2. QED
      BY <2>2, <3>1 DEF BlocksHold
  <2>5. QED
    BY <2>1, <2>3, <2>4
<1>3. ASSUME status = "EMPTY_DOCUMENT", NEW l \in DOMAIN call.text PROVE ~IsContent(l)
  <2>1. IsContent(l) => IsData(Parsed(Doc), l)
    BY <1>2, <1>3
  <2>2. Parsed(Doc) = <<>>
    BY <1>3 DEF ChunkInv
  <2>3. ~ IsData(<<>>, l)
    BY DEF IsData
  <2>4. QED
    BY <2>1, <2>2, <2>3
<1>4. ASSUME status = "chunked"
      PROVE  /\ \A i, j \in DOMAIN Held : i < j => Held[i] <= Held[j]
             /\ \A l \in DOMAIN call.text : IsContent(l) =>
                  Cardinality({i \in DOMAIN Held : Held[i] = l}) = Length[call.text[l]]
  <2>1. PICK T : /\ BlocksOK(Parsed(Doc), T)
                 /\ \A l \in DOMAIN call.text : IsContent(l) => IsData(Parsed(Doc), l)
    BY <1>2, <1>4
  <2>2. Held = Remains(Parsed(Doc)) /\ Loaded
    BY <1>2, <1>4, HeldIs DEF ChunkInv
  <2>3. /\ Held \in Seq(Nat) /\ Ordered(Held, AtMost)
        /\ \A l \in DOMAIN call.text : IsData(Parsed(Doc), l) => Where(Held, {l}) = Line(l)
    BY <2>1, <2>2, RemainsIs
  <2> HIDE DEF Held
  <2>4. \A i, j \in DOMAIN Held : i < j => Held[i] <= Held[j]
    BY <2>3 DEF Ordered, AtMost
  <2>5. ASSUME NEW l \in DOMAIN call.text, IsContent(l)
        PROVE  Cardinality({i \in DOMAIN Held : Held[i] = l}) = Length[call.text[l]]
    <3>1. Where(Held, {l}) = Line(l)
      BY <2>1, <2>3, <2>5
    <3>2. Cardinality({i \in DOMAIN Held : Held[i] = l}) = Len(Where(Held, {l}))
      BY <2>3, CountIs
    <3>3. Len(Line(l)) = Length[call.text[l]]
      BY <2>2, LineType
    <3>4. QED
      BY <3>1, <3>2, <3>3
  <2>6. QED
    BY <2>4, <2>5
<1>5. NothingLost
  BY <1>3, <1>4 DEF NothingLost
<1>6. QED
  BY <1>1, <1>5 DEF ChunkingSound

\* No chunk exceeds its budget, and a chunked document is in the chunks, each line
\* of content whole, once, and in its place.
THEOREM ChunkingIsSound == ChunkSpec => []ChunkingSound
<1>1. ChunkSpec => []ChunkInv
  <2>1. ChunkInit => ChunkInv
    BY ChunkInvInit
  <2>2. ChunkInv /\ [ChunkNext]_chunkVars => ChunkInv'
    BY ChunkInvStep
  <2>3. QED
    BY <2>1, <2>2, PTL DEF ChunkSpec
<1>2. ChunkInv => ChunkingSound
  BY ChunkInvSound
<1>3. QED
  BY <1>1, <1>2, PTL

\* The documents, budgets and statuses of Chunker, and the limit on its chunks
THEOREM ChunkerTypes == ChunkSpec => []ChunkTypeOK
<1> DEFINE Inv == ChunkInv /\ ChunkTypeOK
<1>1. ChunkInit => Inv
  <2> SUFFICES ASSUME ChunkInit PROVE Inv
    OBVIOUS
  <2>1. status = "waiting" /\ records = <<>>
    BY DEF ChunkInit
  <2>2. Len(records) <= Maximum
    BY <2>1, LimitsAssumption
  <2>3. QED
    BY <2>1, <2>2, ChunkInvInit DEF ChunkTypeOK
<1>2. Inv /\ [ChunkNext]_chunkVars => Inv'
  <2> SUFFICES ASSUME Inv, [ChunkNext]_chunkVars PROVE ChunkTypeOK'
    BY ChunkInvStep
  <2>1. \A rs \in Seq(Seq(ChunkPiece)) : Len(rs) \in Nat
    OBVIOUS
  <2>2. ASSUME NEW rs \in Seq(Seq(ChunkPiece)), Emits(rs), call' = call, status = "chunking"
        PROVE  ChunkTypeOK'
    <3>1. Len(records') <= Maximum
      BY <2>1, <2>2, LimitsAssumption DEF Emits
    <3>2. status' \in {"chunking", "CHUNK_LIMIT"}
      BY <2>2 DEF Emits
    <3>3. QED
      BY <2>2, <3>1, <3>2 DEF ChunkTypeOK
  <2>3. CASE \E d \in Files, size \in Budgets, overlap \in Overlaps :
               status = "waiting" /\ Begin(d, size, overlap)
    <3>1. PICK d \in Files, size \in Budgets, overlap \in Overlaps : Begin(d, size, overlap)
      BY <2>3
    <3>2. /\ call' = [format |-> d.format, text |-> d.text, size |-> size, overlap |-> overlap]
          /\ status' \in {"EMPTY_DOCUMENT", "chunking"} /\ records' = records
      BY <3>1 DEF Begin
    <3>3. [format |-> call'.format, text |-> call'.text] \in Files
      <4>1. d = [format |-> d.format, text |-> d.text]
        BY FilesAssumption
      <4>2. QED
        BY <3>2, <4>1
    <3>4. QED
      BY <3>2, <3>3 DEF ChunkTypeOK
  <2>4. CASE \E level \in {1, 2} : StartSection(level)
    <3>1. NextBlock /\ Emits(Flushed)
      BY <2>4 DEF StartSection
    <3>2. Flushed \in Seq(Seq(ChunkPiece)) /\ call' = call /\ status = "chunking"
      BY <3>1, NextIs DEF ChunksOK
    <3>3. QED
      BY <2>2, <3>1, <3>2
  <2>5. CASE EmitPieces
    <3> DEFINE ps == BlockPieces(Head(blocks), Heading)
               chunks == Flushed \o Singles(ps)
    <3>1. NextBlock /\ Emits(chunks) /\ Head(blocks).kind # "heading" /\ ps # <<>>
      BY <2>5 DEF EmitPieces, Singles
    <3>2. ChunksOK(chunks)
      BY <3>1, NextIs, HoldingSingles
    <3>3. chunks \in Seq(Seq(ChunkPiece)) /\ call' = call /\ status = "chunking"
      BY <3>1, <3>2, NextIs DEF ChunksOK
    <3> HIDE DEF chunks
    <3>4. QED
      BY <2>2, <3>1, <3>3
  <2>6. CASE AddPiece
    <3> DEFINE ps == BlockPieces(Head(blocks), Heading)
    <3>1. /\ NextBlock
          /\ IF pending # <<>> /\ ~FitsBelow(Bodies(pending \o ps), Heading)
               THEN Emits(Flushed) /\ pending' = AfterFlush(ps[1])
               ELSE pending' = pending \o ps /\ records' = records /\ status' = status
      BY <2>6 DEF AddPiece
    <3> HIDE DEF ps
    <3>2. NextBlock
      BY <3>1
    <3>3. Flushed \in Seq(Seq(ChunkPiece)) /\ call' = call /\ status = "chunking"
      BY <3>2, NextIs DEF ChunksOK
    <3>4. CASE pending # <<>> /\ ~FitsBelow(Bodies(pending \o ps), Heading)
      <4>1. Emits(Flushed)
        BY <3>1, <3>4
      <4>2. QED
        BY <2>2, <3>3, <4>1
    <3>5. CASE ~(pending # <<>> /\ ~FitsBelow(Bodies(pending \o ps), Heading))
      <4>1. records' = records /\ status' = status
        BY <3>1, <3>5
      <4>2. QED
        BY <3>3, <4>1 DEF ChunkTypeOK
    <3>6. QED
      BY <3>4, <3>5
  <2>7. CASE SkipBlock
    BY <2>7 DEF SkipBlock, NextBlock, ChunkTypeOK
  <2>8. CASE Finish
    <3>1. Flushed \in Seq(Seq(ChunkPiece)) /\ call' = call /\ status = "chunking"
      BY <2>8, AtWork DEF Finish, ChunksOK
    <3>2. Len(records') <= Maximum /\ status' \in {"CHUNK_LIMIT", "chunked"}
      BY <2>1, <2>8, <3>1, LimitsAssumption DEF Finish
    <3>3. QED
      BY <3>1, <3>2 DEF ChunkTypeOK
  <2>9. CASE UNCHANGED chunkVars
    BY <2>9 DEF chunkVars, ChunkTypeOK
  <2>10. QED
    BY <2>3, <2>4, <2>5, <2>6, <2>7, <2>8, <2>9 DEF ChunkNext
<1>3. QED
  BY <1>1, <1>2, PTL DEF ChunkSpec
=============================================================================
