---------------------------- MODULE Chunker_text ----------------------------
(***************************************************************************)
(* Proofs about Chunker, for all documents and limits: what becomes of the *)
(* text of a document.  All of it is in the chunks, in its order, under    *)
(* the right headings; no chunk is without text; and a document is refused *)
(* only for its headings.  The module begins with facts about sequences    *)
(* that are put together and about the folds of the community modules,     *)
(* proved by induction over positions.                                     *)
(***************************************************************************)
EXTENDS Chunker_proofs

-----------------------------------------------------------------------------
(* Induction over the numbers up to n.                                     *)

LEMMA Reached ==
    ASSUME NEW n \in Nat, NEW T, 0 \in T, \A k \in 0 .. n - 1 : k \in T => k + 1 \in T
    PROVE  \A k \in 0 .. n : k \in T
<1> DEFINE U == {k \in 0 .. n : k \notin T}
<1> SUFFICES ASSUME U # {} PROVE FALSE
  OBVIOUS
<1>1. U \in SUBSET Nat
  OBVIOUS
<1>2. PICK x \in U : \A y \in U : x <= y
  <2> HIDE DEF U
  <2> QED
    BY <1>1, Least
<1>3. x \in 0 .. n /\ x # 0 /\ x \notin T
  BY <1>2
<1>4. x - 1 \in 0 .. n - 1 /\ x - 1 \notin U /\ (x - 1) + 1 = x
  BY <1>2, <1>3
<1> QED
  BY <1>3, <1>4

-----------------------------------------------------------------------------
(* Sequences put together.                                                 *)

\* The first n of s.
First(s, n) == [k \in 1 .. n |-> s[k]]

\* f[n] is the first n of s put together.
Flattening(s, n, f) == f = [i \in 1 .. n |-> IF i = 1 THEN s[i] ELSE f[i - 1] \o s[i]]

LEMMA FlatteningExists ==
    ASSUME NEW s, NEW m \in Nat
    PROVE  \E f : Flattening(s, m, f)
<1> DEFINE T == {n \in 0 .. m : \E f : Flattening(s, n, f)}
<1>1. 0 \in T
  <2> DEFINE z == [i \in 1 .. 0 |-> s[i]]
  <2>1. Flattening(s, 0, z)
    BY DEF Flattening
  <2> QED
    BY <2>1
<1>2. ASSUME NEW n \in 0 .. m - 1, n \in T PROVE n + 1 \in T
  <2>1. PICK f : Flattening(s, n, f)
    BY <1>2
  <2> DEFINE h == [i \in 1 .. n + 1 |-> IF i = 1 THEN s[i] ELSE f[i - 1] \o s[i]]
  <2>2. ASSUME NEW i \in 1 .. n PROVE h[i] = f[i]
    <3>1. i \in 1 .. n + 1
      OBVIOUS
    <3>2. f[i] = IF i = 1 THEN s[i] ELSE f[i - 1] \o s[i]
      BY <2>1 DEF Flattening
    <3> QED
      BY <3>1, <3>2
  <2>3. ASSUME NEW i \in 1 .. n + 1
        PROVE  h[i] = IF i = 1 THEN s[i] ELSE h[i - 1] \o s[i]
    <3>1. i # 1 => i - 1 \in 1 .. n
      OBVIOUS
    <3>2. i # 1 => h[i - 1] = f[i - 1]
      BY <2>2, <3>1
    <3> QED
      BY <3>2
  <2>4. h = [i \in 1 .. n + 1 |-> h[i]]
    OBVIOUS
  <2> HIDE DEF h
  <2>5. Flattening(s, n + 1, h)
    BY <2>3, <2>4 DEF Flattening
  <2>6. n + 1 \in 0 .. m
    OBVIOUS
  <2> QED
    BY <2>5, <2>6
<1> HIDE DEF T
<1>3. m \in T
  <2>1. \A k \in 0 .. m : k \in T
    BY <1>1, <1>2, Reached
  <2> QED
    BY <2>1
<1> QED
  BY <1>3 DEF T

LEMMA FlattenIs ==
    ASSUME NEW s, Len(s) \in Nat \ {0}
    PROVE  \E f : Flattening(s, Len(s), f) /\ FlattenSeq(s) = f[Len(s)]
<1> DEFINE g == CHOOSE f : Flattening(s, Len(s), f)
<1>1. Flattening(s, Len(s), g)
  BY FlatteningExists
<1>2. FlattenSeq(s) = g[Len(s)]
  BY DEF FlattenSeq, Flattening
<1> QED
  BY <1>1, <1>2

LEMMA NoneFlat == FlattenSeq(<<>>) = <<>>
<1>1. Len(<<>>) = 0
  BY EmptyIsSeq
<1> QED
  BY <1>1 DEF FlattenSeq

\* The first n of s are put together one by one.
LEMMA FlattenStep ==
    ASSUME NEW U, NEW s \in Seq(Seq(U)), NEW x \in Seq(U)
    PROVE  /\ FlattenSeq(s) \in Seq(U)
           /\ FlattenSeq(Append(s, x)) = FlattenSeq(s) \o x
<1> DEFINE n == Len(s)
           t == Append(s, x)
           V == Seq(U)
<1>1. n \in Nat /\ t \in Seq(V) /\ Len(t) = n + 1 /\ t[n + 1] = x /\ \A k \in 1 .. n : t[k] = s[k]
  OBVIOUS
<1>2. \A k \in 1 .. n : s[k] \in V
  OBVIOUS
<1> HIDE DEF t, n
<1>3. PICK g : Flattening(t, n + 1, g) /\ FlattenSeq(t) = g[n + 1]
  <2>1. Len(t) \in Nat \ {0}
    BY <1>1
  <2> QED
    BY <1>1, <2>1, FlattenIs
<1>4. g[n + 1] = IF n = 0 THEN x ELSE g[n] \o x
  <2>1. n + 1 \in 1 .. n + 1 /\ (n + 1 = 1 <=> n = 0) /\ (n + 1) - 1 = n
    BY <1>1
  <2> HIDE DEF n
  <2> QED
    BY <1>1, <1>3, <2>1 DEF Flattening
<1>5. CASE n = 0
  <2>1. s = <<>> /\ <<>> \o x = x /\ s \in Seq(U)
    BY <1>5 DEF n
  <2> QED
    BY <1>3, <1>4, <1>5, <2>1, NoneFlat DEF t
<1>6. CASE n # 0
  <2>1. PICK f : Flattening(s, n, f) /\ FlattenSeq(s) = f[n]
    BY <1>1, <1>6, FlattenIs DEF n
  <2> DEFINE T == {k \in 0 .. n : k # 0 => g[k] = f[k] /\ f[k] \in V}
  <2>2. ASSUME NEW k \in 0 .. n - 1, k \in T PROVE k + 1 \in T
    <3>1. k + 1 \in 0 .. n /\ k + 1 \in 1 .. n /\ k + 1 \in 1 .. n + 1 /\ (k + 1) - 1 = k /\ (k + 1 = 1 <=> k = 0)
      BY <1>1
    <3>2. f[k + 1] = IF k = 0 THEN s[k + 1] ELSE f[k] \o s[k + 1]
      <4> HIDE DEF n
      <4> QED
        BY <2>1, <3>1 DEF Flattening
    <3>3. g[k + 1] = IF k = 0 THEN s[k + 1] ELSE g[k] \o s[k + 1]
      <4>1. g[k + 1] = IF k = 0 THEN t[k + 1] ELSE g[k] \o t[k + 1]
        <5> HIDE DEF n
        <5> QED
          BY <1>3, <3>1 DEF Flattening
      <4> QED
        BY <1>1, <3>1, <4>1
    <3>4. s[k + 1] \in V
      BY <1>2, <3>1
    <3>5. CASE k = 0
      BY <3>1, <3>2, <3>3, <3>4, <3>5
    <3>6. CASE k # 0
      <4>1. g[k] = f[k] /\ f[k] \in V
        BY <2>2, <3>6
      <4>2. f[k] \o s[k + 1] \in V
        BY <3>4, <4>1
      <4>3. g[k + 1] = f[k + 1] /\ f[k + 1] = f[k] \o s[k + 1]
        BY <3>2, <3>3, <3>6, <4>1
      <4> HIDE DEF V
      <4>4. f[k + 1] \in V
        BY <4>2, <4>3
      <4> QED
        BY <3>1, <4>3, <4>4
    <3> QED
      BY <3>5, <3>6
  <2>3. 0 \in T
    BY <1>1
  <2>4. n \in T
    <3> HIDE DEF T, n
    <3>1. \A k \in 0 .. n : k \in T
      BY <1>1, <2>2, <2>3, Reached
    <3> QED
      BY <1>1, <3>1
  <2>5. g[n] = f[n] /\ f[n] \in V
    BY <1>6, <2>4
  <2> QED
    BY <1>3, <1>4, <1>6, <2>1, <2>5 DEF t
<1> QED
  BY <1>5, <1>6

\* What holds of <<>>, and of s with one more if it does of s, holds of all.
LEMMA SequencesGrow ==
    ASSUME NEW V, NEW P, <<>> \in P,
           \A s \in Seq(V) : \A x \in V : s \in P => Append(s, x) \in P
    PROVE  \A s \in Seq(V) : s \in P
<1> SUFFICES ASSUME NEW s \in Seq(V) PROVE s \in P
  OBVIOUS
<1> DEFINE m == Len(s)
           T == {n \in 0 .. m : First(s, n) \in P}
<1>1. m \in Nat /\ \A k \in 1 .. m : s[k] \in V
  OBVIOUS
<1>2. 0 \in T
  <2>1. First(s, 0) = <<>>
    BY DEF First
  <2> QED
    BY <1>1, <2>1
<1>3. ASSUME NEW n \in 0 .. m - 1, n \in T PROVE n + 1 \in T
  <2>1. n \in Nat /\ n + 1 \in 0 .. m /\ n + 1 \in 1 .. m /\ First(s, n) \in P
    BY <1>1, <1>3
  <2>2. First(s, n) \in Seq(V) /\ s[n + 1] \in V
    <3>1. \A k \in 1 .. n : s[k] \in V
      BY <1>1, <2>1
    <3> QED
      BY <1>1, <2>1, <3>1 DEF First
  <2>3. First(s, n + 1) = Append(First(s, n), s[n + 1])
    <3> DEFINE a == Append(First(s, n), s[n + 1])
    <3>1. Len(First(s, n)) = n /\ \A k \in 1 .. n : First(s, n)[k] = s[k]
      BY <2>1 DEF First
    <3>2. a \in Seq(V) /\ Len(a) = n + 1 /\ \A k \in 1 .. n + 1 : a[k] = s[k]
      BY <2>1, <2>2, <3>1
    <3>3. a = [k \in 1 .. n + 1 |-> a[k]]
      BY <3>2
    <3> HIDE DEF a
    <3>4. a = First(s, n + 1)
      BY <3>2, <3>3 DEF First
    <3> QED
      BY <3>4 DEF a
  <2> HIDE DEF m
  <2> QED
    BY <2>1, <2>2, <2>3
<1>4. m \in T
  <2> HIDE DEF T, m
  <2>1. \A k \in 0 .. m : k \in T
    BY <1>1, <1>2, <1>3, Reached
  <2> QED
    BY <1>1, <2>1
<1>5. First(s, m) = s
  BY <1>1 DEF First
<1> QED
  BY <1>4, <1>5

LEMMA FlattenType == ASSUME NEW U, NEW s \in Seq(Seq(U)) PROVE FlattenSeq(s) \in Seq(U)
<1>1. <<>> \in Seq(U)
  OBVIOUS
<1> QED
  BY <1>1, FlattenStep

\* One list behind the other.
LEMMA FlattenBoth ==
    ASSUME NEW U, NEW s \in Seq(Seq(U)), NEW t \in Seq(Seq(U))
    PROVE  FlattenSeq(s \o t) = FlattenSeq(s) \o FlattenSeq(t)
<1> DEFINE V == Seq(U)
           P == {r \in Seq(V) : FlattenSeq(s \o r) = FlattenSeq(s) \o FlattenSeq(r)}
<1>1. s \in Seq(V) /\ t \in Seq(V)
  OBVIOUS
<1>2. \A r \in Seq(V) : FlattenSeq(r) \in V
  BY FlattenType
<1>3. \A r \in Seq(V) : \A x \in V : FlattenSeq(Append(r, x)) = FlattenSeq(r) \o x
  BY FlattenStep
<1>4. \A x, y, z \in V : x \o (y \o z) = (x \o y) \o z
  OBVIOUS
<1>5. \A x \in V : x \o <<>> = x
  OBVIOUS
<1> HIDE DEF V
<1>6. <<>> \in P
  <2>1. <<>> \in Seq(V) /\ s \o <<>> = s
    BY <1>1
  <2>2. FlattenSeq(s \o <<>>) = FlattenSeq(s) \o FlattenSeq(<<>>)
    BY <1>1, <1>2, <1>5, <2>1, NoneFlat
  <2> QED
    BY <2>1, <2>2
<1>7. ASSUME NEW r \in Seq(V), NEW x \in V, r \in P PROVE Append(r, x) \in P
  <2>1. /\ Append(r, x) \in Seq(V) /\ s \o r \in Seq(V)
        /\ s \o Append(r, x) = Append(s \o r, x)
    BY <1>1
  <2>2. FlattenSeq(s \o Append(r, x)) = FlattenSeq(s \o r) \o x
    BY <1>3, <2>1
  <2>3. FlattenSeq(Append(r, x)) = FlattenSeq(r) \o x
    BY <1>3
  <2>4. FlattenSeq(s \o r) = FlattenSeq(s) \o FlattenSeq(r)
    BY <1>7
  <2>5. FlattenSeq(s) \in V /\ FlattenSeq(r) \in V
    BY <1>1, <1>2
  <2>6. FlattenSeq(s \o Append(r, x)) = FlattenSeq(s) \o FlattenSeq(Append(r, x))
    BY <1>4, <2>2, <2>3, <2>4, <2>5
  <2> QED
    BY <2>1, <2>6
<1> HIDE DEF P
<1>8. t \in P
  BY <1>1, <1>6, <1>7, SequencesGrow
<1> QED
  BY <1>8 DEF P

LEMMA FlattenHead ==
    ASSUME NEW U, NEW s \in Seq(Seq(U)), s # <<>>
    PROVE  /\ Head(s) \in Seq(U) /\ FlattenSeq(Tail(s)) \in Seq(U)
           /\ FlattenSeq(s) = Head(s) \o FlattenSeq(Tail(s))
<1> DEFINE V == Seq(U)
<1>1. s \in Seq(V)
  OBVIOUS
<1>2. \A x \in V : <<>> \o x = x
  OBVIOUS
<1> HIDE DEF V
<1>3. Head(s) \in V /\ Tail(s) \in Seq(V) /\ <<Head(s)>> \in Seq(V) /\ <<Head(s)>> \o Tail(s) = s
  BY <1>1
<1>4. <<>> \in Seq(V) /\ Append(<<>>, Head(s)) = <<Head(s)>>
  BY <1>3
<1>5. FlattenSeq(<<Head(s)>>) = Head(s)
  <2>1. FlattenSeq(Append(<<>>, Head(s))) = FlattenSeq(<<>>) \o Head(s)
    BY <1>3, <1>4, FlattenStep DEF V
  <2> QED
    BY <1>2, <1>3, <1>4, <2>1, NoneFlat
<1>6. FlattenSeq(<<Head(s)>> \o Tail(s)) = FlattenSeq(<<Head(s)>>) \o FlattenSeq(Tail(s))
  BY <1>3, FlattenBoth DEF V
<1>7. FlattenSeq(Tail(s)) \in V
  BY <1>3, FlattenType DEF V
<1> QED
  BY <1>3, <1>5, <1>6, <1>7 DEF V

LEMMA FlattenOne == ASSUME NEW U, NEW s \in Seq(Seq(U)), Len(s) = 1 PROVE FlattenSeq(s) = s[1]
<1> DEFINE V == Seq(U)
<1>1. s \in Seq(V) /\ \A x \in V : <<>> \o x = x
  OBVIOUS
<1> HIDE DEF V
<1>2. s[1] \in V /\ <<>> \in Seq(V) /\ s = Append(<<>>, s[1])
  BY <1>1
<1>3. FlattenSeq(Append(<<>>, s[1])) = FlattenSeq(<<>>) \o s[1]
  BY <1>2, FlattenStep DEF V
<1> QED
  BY <1>1, <1>2, <1>3, NoneFlat

\* Nothing put together is nothing.
LEMMA FlattenEmpty ==
    ASSUME NEW U, NEW s \in Seq(Seq(U))
    PROVE  FlattenSeq(s) = <<>> <=> \A k \in 1 .. Len(s) : s[k] = <<>>
<1> DEFINE V == Seq(U)
           P == {r \in Seq(V) : FlattenSeq(r) = <<>> <=> \A k \in 1 .. Len(r) : r[k] = <<>>}
<1>1. s \in Seq(V)
  OBVIOUS
<1>2. \A r \in Seq(V) : \A x \in V : FlattenSeq(r) \in V /\ FlattenSeq(Append(r, x)) = FlattenSeq(r) \o x
  BY FlattenStep
<1>3. \A x, y \in V : x \o y = <<>> <=> x = <<>> /\ y = <<>>
  OBVIOUS
<1> HIDE DEF V
<1>4. <<>> \in P
  BY NoneFlat
<1>5. ASSUME NEW r \in Seq(V), NEW x \in V, r \in P PROVE Append(r, x) \in P
  <2>1. /\ Append(r, x) \in Seq(V) /\ Len(r) \in Nat /\ Len(Append(r, x)) = Len(r) + 1
        /\ Append(r, x)[Len(r) + 1] = x
        /\ \A k \in 1 .. Len(r) : Append(r, x)[k] = r[k]
    OBVIOUS
  <2>2. FlattenSeq(Append(r, x)) = <<>> <=> FlattenSeq(r) = <<>> /\ x = <<>>
    BY <1>2, <1>3
  <2>3. FlattenSeq(r) = <<>> <=> \A k \in 1 .. Len(r) : r[k] = <<>>
    BY <1>5
  <2>4. (\A k \in 1 .. Len(r) + 1 : Append(r, x)[k] = <<>>)
            <=> (\A k \in 1 .. Len(r) : r[k] = <<>>) /\ x = <<>>
    <3>1. \A k \in 1 .. Len(r) + 1 : k \in 1 .. Len(r) \/ k = Len(r) + 1
      BY <2>1
    <3>2. Len(r) + 1 \in 1 .. Len(r) + 1 /\ \A k \in 1 .. Len(r) : k \in 1 .. Len(r) + 1
      BY <2>1
    <3> QED
      BY <2>1, <3>1, <3>2
  <2> QED
    BY <2>1, <2>2, <2>3, <2>4
<1> HIDE DEF P
<1>6. s \in P
  BY <1>1, <1>4, <1>5, SequencesGrow
<1> QED
  BY <1>6 DEF P

\* Nothing is lost with the end of a list that holds nothing.
LEMMA FlattenCut ==
    ASSUME NEW U, NEW s \in Seq(Seq(U)), NEW m \in 0 .. Len(s),
           \A k \in m + 1 .. Len(s) : s[k] = <<>>
    PROVE  FlattenSeq(SubSeq(s, 1, m)) = FlattenSeq(s)
<1> DEFINE V == Seq(U)
           a == SubSeq(s, 1, m)
           b == SubSeq(s, m + 1, Len(s))
<1>1. s \in Seq(V) /\ \A x \in V : x \o <<>> = x
  OBVIOUS
<1> HIDE DEF V
<1>2. Len(s) \in Nat /\ a \in Seq(V) /\ b \in Seq(V)
  BY <1>1
<1>3. a \o b = s
  <2>1. /\ Len(a) = m /\ Len(b) = Len(s) - m /\ m \in Nat
        /\ \A k \in 1 .. m : a[k] = s[k]
        /\ \A k \in 1 .. Len(s) - m : b[k] = s[k + m]
    BY <1>1
  <2>2. IsSeq(a) /\ IsSeq(b) /\ IsSeq(s)
    BY <1>1, <1>2 DEF IsSeq
  <2> HIDE DEF a, b
  <2>3. /\ IsSeq(a \o b) /\ Len(a \o b) = Len(s)
        /\ \A k \in 1 .. Len(s) : (a \o b)[k] = IF k <= m THEN a[k] ELSE b[k - m]
    <3>1. /\ IsSeq(a \o b) /\ Len(a \o b) = Len(a) + Len(b)
          /\ \A k \in 1 .. Len(a) + Len(b) :
                (a \o b)[k] = IF k <= Len(a) THEN a[k] ELSE b[k - Len(a)]
      BY <2>2, Both
    <3>2. Len(a) = m /\ Len(a) + Len(b) = Len(s)
      BY <1>2, <2>1
    <3> QED
      BY <3>1, <3>2
  <2>4. ASSUME NEW k \in 1 .. Len(s) PROVE (a \o b)[k] = s[k]
    <3>1. CASE k <= m
      BY <1>2, <2>1, <2>3, <3>1
    <3>2. CASE ~(k <= m)
      <4>1. k - m \in 1 .. Len(s) - m /\ (k - m) + m = k
        BY <1>2, <2>1, <3>2
      <4> QED
        BY <2>1, <2>3, <3>2, <4>1
    <3> QED
      BY <3>1, <3>2
  <2> QED
    BY <2>2, <2>3, <2>4, Same
<1>4. Len(b) = Len(s) - m /\ \A k \in 1 .. Len(s) - m : b[k] = s[k + m]
  BY <1>1
<1>5. \A k \in 1 .. Len(b) : b[k] = <<>>
  <2>1. \A k \in 1 .. Len(s) - m : k + m \in m + 1 .. Len(s)
    BY <1>2
  <2> HIDE DEF b
  <2> QED
    BY <1>4, <2>1
<1> HIDE DEF a, b
<1>6. FlattenSeq(b) = <<>>
  BY <1>2, <1>5, FlattenEmpty DEF V
<1>7. FlattenSeq(a \o b) = FlattenSeq(a) \o FlattenSeq(b)
  BY <1>2, FlattenBoth DEF V
<1>8. FlattenSeq(a) \in V
  BY <1>2, FlattenType DEF V
<1> QED
  BY <1>1, <1>3, <1>6, <1>7, <1>8 DEF a

-----------------------------------------------------------------------------
(* The members of a set of numbers, in their order.                        *)

LEMMA AmongStep ==
    ASSUME NEW S
    PROVE  /\ Among(0, S) = <<>>
           /\ \A n \in Nat : /\ Among(n, S) \in Seq(Nat)
                             /\ Among(n + 1, S) = IF n + 1 \in S THEN Append(Among(n, S), n + 1)
                                                                 ELSE Among(n, S)
<1> DEFINE V == Seq(Nat)
           p(n) == [k \in 1 .. n |-> IF k \in S THEN <<k>> ELSE <<>>]
           x(n) == IF n + 1 \in S THEN <<n + 1>> ELSE <<>>
<1>1. \A n : Among(n, S) = FlattenSeq(p(n))
  BY DEF Among
<1>2. Among(0, S) = <<>>
  <2>1. p(0) = <<>>
    OBVIOUS
  <2> QED
    BY <1>1, <2>1, NoneFlat
<1>3. ASSUME NEW n \in Nat
      PROVE  /\ Among(n, S) \in V
             /\ Among(n + 1, S) = IF n + 1 \in S THEN Append(Among(n, S), n + 1)
                                                 ELSE Among(n, S)
  <2>1. \A k \in Nat : (IF k \in S THEN <<k>> ELSE <<>>) \in V
    OBVIOUS
  <2> HIDE DEF V
  <2>2. p(n) \in Seq(V) /\ x(n) \in V
    <3>0. \A k \in 1 .. n : k \in Nat
      OBVIOUS
    <3>1. \A k \in 1 .. n : (IF k \in S THEN <<k>> ELSE <<>>) \in V
      BY <2>1, <3>0, Zenon
    <3>2. p(n) \in Seq(V)
      BY <3>1
    <3>3. n + 1 \in Nat
      OBVIOUS
    <3> QED
      BY <2>1, <3>2, <3>3
  <2>3. p(n + 1) = Append(p(n), x(n))
    <3> DEFINE a == Append(p(n), x(n))
    <3>1. Len(p(n)) = n /\ \A k \in 1 .. n : p(n)[k] = p(n + 1)[k]
      OBVIOUS
    <3>2. p(n + 1)[n + 1] = x(n)
      OBVIOUS
    <3> HIDE DEF p, x
    <3>3. a \in Seq(V) /\ Len(a) = n + 1 /\ \A k \in 1 .. n + 1 : a[k] = p(n + 1)[k]
      BY <2>2, <3>1, <3>2
    <3> HIDE DEF a
    <3>4. a = [k \in 1 .. n + 1 |-> a[k]]
      BY <3>3
    <3>5. p(n + 1) = [k \in 1 .. n + 1 |-> p(n + 1)[k]]
      BY DEF p
    <3>6. a = p(n + 1)
      BY <3>3, <3>4, <3>5
    <3> QED
      BY <3>6 DEF a
  <2> HIDE DEF p
  <2>4. FlattenSeq(p(n)) \in V /\ FlattenSeq(Append(p(n), x(n))) = FlattenSeq(p(n)) \o x(n)
    <3> HIDE DEF x
    <3> QED
      BY <2>2, FlattenStep DEF V
  <2>5. Among(n, S) \in V /\ Among(n + 1, S) = Among(n, S) \o x(n)
    <3> HIDE DEF x
    <3> QED
      BY <1>1, <2>3, <2>4
  <2>6. Among(n, S) \o x(n) = IF n + 1 \in S THEN Append(Among(n, S), n + 1) ELSE Among(n, S)
    BY <2>5 DEF V
  <2> QED
    BY <2>5, <2>6
<1> QED
  BY <1>2, <1>3

Rising(q) == \A i, j \in 1 .. Len(q) : i < j => q[i] < q[j]

\* q lists the members of S up to n.
Lists(q, n, S) ==
    /\ q \in Seq(Nat) /\ Rising(q)
    /\ \A i \in 1 .. Len(q) : q[i] \in 1 .. n /\ q[i] \in S
    /\ \A x \in 1 .. n : x \in S => \E i \in 1 .. Len(q) : q[i] = x

LEMMA AmongLists == ASSUME NEW n \in Nat, NEW S PROVE Lists(Among(n, S), n, S)
<1> DEFINE T == {k \in 0 .. n : Lists(Among(k, S), k, S)}
<1>1. 0 \in T
  <2>1. <<>> \in Seq(Nat) /\ Len(<<>>) = 0 /\ 1 .. 0 = {}
    OBVIOUS
  <2>2. Lists(<<>>, 0, S)
    BY <2>1, Zenon DEF Lists, Rising
  <2> QED
    BY <2>2, AmongStep
<1>2. ASSUME NEW k \in 0 .. n - 1, k \in T PROVE k + 1 \in T
  <2>1. PICK q : q = Among(k, S)
    OBVIOUS
  <2>2. PICK r : r = Among(k + 1, S)
    OBVIOUS
  <2>3. k \in Nat /\ Lists(q, k, S) /\ r = (IF k + 1 \in S THEN Append(q, k + 1) ELSE q)
    <3>1. k \in Nat
      OBVIOUS
    <3>2. Among(k + 1, S) = IF k + 1 \in S THEN Append(Among(k, S), k + 1) ELSE Among(k, S)
      BY <3>1, AmongStep
    <3> QED
      BY <1>2, <2>1, <2>2, <3>1, <3>2
  <2>4. q \in Seq(Nat) /\ Len(q) \in Nat
    BY <2>3 DEF Lists
  <2>5. CASE k + 1 \notin S
    <3>1. \A x \in 1 .. k + 1 : x \in S => x \in 1 .. k
      BY <2>3, <2>5
    <3>2. \A i \in 1 .. Len(q) : q[i] \in 1 .. k + 1
      BY <2>3 DEF Lists
    <3>3. Lists(r, k + 1, S)
      BY <2>3, <2>5, <3>1, <3>2 DEF Lists
    <3> QED
      BY <2>2, <3>3
  <2>6. CASE k + 1 \in S
    <3>1. /\ r \in Seq(Nat) /\ Len(r) = Len(q) + 1 /\ r[Len(q) + 1] = k + 1
          /\ \A i \in 1 .. Len(q) : r[i] = q[i]
      BY <2>3, <2>4, <2>6
    <3>2. \A i \in 1 .. Len(r) : i \in 1 .. Len(q) \/ i = Len(q) + 1
      BY <2>4, <3>1
    <3>3. \A i \in 1 .. Len(q) : q[i] \in 1 .. k /\ q[i] \in S
      BY <2>3 DEF Lists
    <3>4. Rising(r)
      <4> SUFFICES ASSUME NEW i \in 1 .. Len(r), NEW j \in 1 .. Len(r), i < j PROVE r[i] < r[j]
        BY DEF Rising
      <4>1. i \in 1 .. Len(q)
        BY <2>4, <3>1
      <4>2. CASE j \in 1 .. Len(q)
        BY <2>3, <3>1, <4>1, <4>2 DEF Lists, Rising
      <4>3. CASE j = Len(q) + 1
        <5>1. r[i] \in 1 .. k /\ r[j] = k + 1
          BY <3>1, <3>3, <4>1, <4>3
        <5> QED
          BY <2>3, <5>1
      <4> QED
        BY <3>2, <4>2, <4>3
    <3>5. \A i \in 1 .. Len(r) : r[i] \in 1 .. k + 1 /\ r[i] \in S
      <4>1. \A y \in 1 .. k : y \in 1 .. k + 1
        BY <2>3
      <4>2. k + 1 \in 1 .. k + 1
        BY <2>3
      <4> QED
        BY <2>6, <3>1, <3>2, <3>3, <4>1, <4>2
    <3>6. ASSUME NEW x \in 1 .. k + 1, x \in S PROVE \E i \in 1 .. Len(r) : r[i] = x
      <4>1. CASE x = k + 1
        <5>1. Len(q) + 1 \in 1 .. Len(r)
          BY <2>4, <3>1
        <5> QED
          BY <3>1, <4>1, <5>1
      <4>2. CASE x # k + 1
        <5>1. x \in 1 .. k
          BY <2>3, <4>2
        <5>2. PICK i \in 1 .. Len(q) : q[i] = x
          BY <2>3, <3>6, <5>1 DEF Lists
        <5>3. i \in 1 .. Len(r) /\ r[i] = x
          BY <2>4, <3>1, <5>2
        <5> QED
          BY <5>3
      <4> QED
        BY <4>1, <4>2
    <3>7. Lists(r, k + 1, S)
      BY <3>1, <3>4, <3>5, <3>6 DEF Lists
    <3> QED
      BY <2>2, <3>7
  <2> QED
    BY <2>5, <2>6
<1>3. n \in T
  <2> HIDE DEF T
  <2>1. \A k \in 0 .. n : k \in T
    BY <1>1, <1>2, Reached
  <2> QED
    BY <2>1
<1> QED
  BY <1>3

\* There is one such list.
LEMMA OneList ==
    ASSUME NEW n \in Nat, NEW S, NEW q, NEW r, Lists(q, n, S), Lists(r, n, S)
    PROVE  q = r
<1>1. /\ q \in Seq(Nat) /\ Len(q) \in Nat /\ Rising(q)
      /\ r \in Seq(Nat) /\ Len(r) \in Nat /\ Rising(r)
  BY DEF Lists
<1>2. ASSUME NEW a, NEW b, Lists(a, n, S), Lists(b, n, S), NEW k \in 1 .. Len(a),
             \A i \in 1 .. k - 1 : i \in 1 .. Len(b) /\ a[i] = b[i]
      PROVE  k \in 1 .. Len(b) /\ a[k] >= b[k]
  <2>1. /\ Len(a) \in Nat /\ Len(b) \in Nat /\ k \in Nat
        /\ \A i \in 1 .. Len(a) : a[i] \in Nat
        /\ \A i \in 1 .. Len(b) : b[i] \in Nat
    BY <1>2 DEF Lists
  <2>2. a[k] \in 1 .. n /\ a[k] \in S
    BY <1>2 DEF Lists
  <2>3. PICK j \in 1 .. Len(b) : b[j] = a[k]
    BY <1>2, <2>2 DEF Lists
  <2>4. ~(j < k)
    <3> SUFFICES ASSUME j < k PROVE FALSE
      OBVIOUS
    <3>1. j \in 1 .. k - 1 /\ j \in 1 .. Len(a)
      BY <2>1
    <3>2. a[j] = a[k]
      BY <1>2, <2>3, <3>1
    <3>3. a[j] < a[k]
      BY <1>2, <3>1 DEF Lists, Rising
    <3> QED
      BY <2>1, <3>1, <3>2, <3>3
  <2>5. k \in 1 .. Len(b)
    BY <2>1, <2>4
  <2>6. CASE j = k
    BY <2>1, <2>3, <2>5, <2>6
  <2>7. CASE k < j
    <3>1. b[k] < b[j]
      BY <1>2, <2>5, <2>7 DEF Lists, Rising
    <3> QED
      BY <2>1, <2>3, <2>5, <3>1
  <2> QED
    BY <2>1, <2>4, <2>5, <2>6, <2>7
<1>3. ASSUME NEW a, NEW b, Lists(a, n, S), Lists(b, n, S), NEW k \in 1 .. Len(a),
             \A i \in 1 .. k - 1 : i \in 1 .. Len(b) /\ a[i] = b[i]
      PROVE  k \in 1 .. Len(b) /\ a[k] = b[k]
  <2>1. k \in 1 .. Len(b) /\ a[k] >= b[k]
    BY <1>2, <1>3
  <2>2. Len(a) \in Nat /\ Len(b) \in Nat /\ a[k] \in Nat /\ b[k] \in Nat
    <3>1. a \in Seq(Nat) /\ b \in Seq(Nat)
      BY <1>3 DEF Lists
    <3> QED
      BY <2>1, <3>1
  <2>3. \A i \in 1 .. k - 1 : i \in 1 .. Len(a) /\ b[i] = a[i]
    BY <1>3, <2>2
  <2>4. b[k] >= a[k]
    BY <1>2, <1>3, <2>1, <2>3
  <2> QED
    BY <2>1, <2>2, <2>4
<1>4. ASSUME NEW a, NEW b, Lists(a, n, S), Lists(b, n, S)
      PROVE  \A i \in 1 .. Len(a) : i \in 1 .. Len(b) /\ a[i] = b[i]
  <2>1. Len(a) \in Nat
    BY <1>4 DEF Lists
  <2> DEFINE T == {k \in 0 .. Len(a) : \A i \in 1 .. k : i \in 1 .. Len(b) /\ a[i] = b[i]}
  <2>2. 0 \in T
    BY <2>1
  <2>3. ASSUME NEW k \in 0 .. Len(a) - 1, k \in T PROVE k + 1 \in T
    <3>1. k \in Nat /\ k + 1 \in 1 .. Len(a) /\ k + 1 \in 0 .. Len(a) /\ (k + 1) - 1 = k
      BY <2>1
    <3>2. k + 1 \in 1 .. Len(b) /\ a[k + 1] = b[k + 1]
      BY <1>3, <1>4, <2>3, <3>1
    <3>3. \A i \in 1 .. k + 1 : i \in 1 .. k \/ i = k + 1
      BY <3>1
    <3> QED
      BY <2>3, <3>1, <3>2, <3>3
  <2> HIDE DEF T
  <2>4. Len(a) \in T
    <3>1. \A k \in 0 .. Len(a) : k \in T
      BY <2>1, <2>2, <2>3, Reached
    <3> QED
      BY <2>1, <3>1
  <2> QED
    BY <2>4 DEF T
<1>5. Len(q) = Len(r)
  <2>1. Len(q) # 0 => Len(q) \in 1 .. Len(r)
    BY <1>1, <1>4
  <2>2. Len(r) # 0 => Len(r) \in 1 .. Len(q)
    BY <1>1, <1>4
  <2> QED
    BY <1>1, <2>1, <2>2
<1>6. \A i \in 1 .. Len(q) : q[i] = r[i]
  BY <1>4
<1> QED
  BY <1>1, <1>5, <1>6, Same DEF IsSeq

LEMMA AmongIs ==
    ASSUME NEW n \in Nat, NEW S, NEW q, Lists(q, n, S)
    PROVE  q = Among(n, S)
BY AmongLists, OneList

-----------------------------------------------------------------------------
(* The document: Fenced, Title, Enclosing, Contents and Text for document  *)
(* d, and which fence is open before a line.                               *)

LinesOf(d) == 1 .. Len(d)

KindOf(d, l) == d[l].is

ClosesIn(d, l, f) ==
    /\ d[l].is = "fence" /\ d[l].bare
    /\ d[l].mark = d[f].mark /\ d[l].length >= d[f].length

\* Fence o is open before line l.
Opens(d, F, o, l) == /\ KindOf(d, o) = "fence" /\ ~F[o]
                     /\ \A c \in o + 1 .. l - 1 : ~ClosesIn(d, c, o)

FencedBy(d, F) == F = [l \in DOMAIN d |-> \E o \in 1 .. l - 1 : Opens(d, F, o, l)]
FencedIn(d) == CHOOSE F : FencedBy(d, F)

FencedAt(d, l) == \E o \in 1 .. l - 1 : Opens(d, FencedIn(d), o, l)
TitleIn(d, l) == KindOf(d, l) = "heading" /\ ~FencedIn(d)[l]

Above(d, l) == {h \in 1 .. l - 1 :
    TitleIn(d, h) /\ \A g \in h + 1 .. l - 1 : TitleIn(d, g) => d[g].level > d[h].level}
EnclosingIn(d, l) == Among(l - 1, Above(d, l))

EndedBefore(d, l) ==
    l = 1 \/ KindOf(d, l - 1) = "blank" \/ TitleIn(d, l - 1) \/ FencedIn(d)[l - 1]
EndsAt(d, l) ==
    l = Len(d) + 1 \/ KindOf(d, l) = "blank" \/ TitleIn(d, l) \/ KindOf(d, l) = "fence"

ContentsIn(d, l) ==
    /\ ~TitleIn(d, l)
    /\ FencedIn(d)[l] \/ KindOf(d, l) # "toc" \/ ~(EndedBefore(d, l) /\ EndsAt(d, l + 1))
ContentsOf(d) == {l \in LinesOf(d) : ContentsIn(d, l)}

UnitsIn(d, l) == [i \in 1 .. d[l].size |-> <<l, i>>]
EachIn(d, ls) == [k \in DOMAIN ls |-> UnitsIn(d, ls[k])]
TextIn(d, ls) == FlattenSeq(EachIn(d, ls))

LEMMA DocumentFacts ==
    ASSUME NEW d \in Documents
    PROVE  /\ Len(d) \in Nat /\ DOMAIN d = LinesOf(d)
           /\ \A l \in LinesOf(d) :
                 /\ KindOf(d, l) \in {"heading", "fence", "blank", "toc", "text"}
                 /\ d[l].size \in Nat /\ (d[l].size = 0 <=> KindOf(d, l) = "blank")
                 /\ KindOf(d, l) = "heading" => d[l].level \in Nat
                 /\ KindOf(d, l) = "text" => d[l].kind \in {"code", "prose", "list"}
BY DocumentAssumption DEF LinesOf, KindOf

LEMMA FencedRight ==
    ASSUME NEW d \in Documents
    PROVE  FencedBy(d, FencedIn(d))
<1> DEFINE n == Len(d)
           B(k, F) == F = [l \in 1 .. k |-> \E o \in 1 .. l - 1 : Opens(d, F, o, l)]
           T == {k \in 0 .. n : \E F : B(k, F)}
<1>1. n \in Nat /\ DOMAIN d = 1 .. n
  BY DocumentFacts DEF LinesOf
<1>2. 0 \in T
  <2> DEFINE z == [l \in 1 .. 0 |-> TRUE]
  <2>1. B(0, z)
    OBVIOUS
  <2> HIDE DEF z, B, n
  <2> QED
    BY <1>1, <2>1
<1>3. ASSUME NEW k \in 0 .. n - 1, k \in T PROVE k + 1 \in T
  <2>1. PICK F : B(k, F)
    BY <1>3
  <2> DEFINE G == [l \in 1 .. k + 1 |-> \E o \in 1 .. l - 1 : Opens(d, F, o, l)]
  <2>2. k \in Nat /\ k + 1 \in 0 .. n
    BY <1>1
  <2>3. \A l \in 1 .. k : G[l] = F[l]
    <3>0. \A l \in 1 .. k : l \in 1 .. k + 1
      BY <2>2
    <3>1. \A l \in 1 .. k : G[l] = \E o \in 1 .. l - 1 : Opens(d, F, o, l)
      BY <3>0, Zenon
    <3>2. \A l \in 1 .. k : F[l] = \E o \in 1 .. l - 1 : Opens(d, F, o, l)
      BY <2>1, Zenon
    <3> HIDE DEF G
    <3> QED
      BY <3>1, <3>2, Zenon
  <2>4. \A l \in 1 .. k + 1 : \A o \in 1 .. l - 1 : Opens(d, F, o, l) <=> Opens(d, G, o, l)
    <3>1. \A l \in 1 .. k + 1 : \A o \in 1 .. l - 1 : o \in 1 .. k
      BY <2>2
    <3> HIDE DEF G
    <3>2. \A l \in 1 .. k + 1 : \A o \in 1 .. l - 1 : G[o] = F[o]
      BY <2>3, <3>1, Zenon
    <3> QED
      BY <3>2, Zenon DEF Opens
  <2>5. B(k + 1, G)
    <3>1. \A l \in 1 .. k + 1 : (\E o \in 1 .. l - 1 : Opens(d, F, o, l))
                                  = (\E o \in 1 .. l - 1 : Opens(d, G, o, l))
      BY <2>4, Zenon
    <3> QED
      BY <3>1
  <2> HIDE DEF n, B
  <2> QED
    BY <2>2, <2>5
<1>4. n \in T
  <2> HIDE DEF T, n
  <2>1. \A k \in 0 .. n : k \in T
    BY <1>1, <1>2, <1>3, Reached
  <2> QED
    BY <1>1, <2>1
<1>5. \E F : FencedBy(d, F)
  <2>1. PICK F : B(n, F)
    BY <1>4
  <2>2. FencedBy(d, F)
    BY <1>1, <2>1 DEF FencedBy
  <2> QED
    BY <2>2
<1> QED
  BY <1>5 DEF FencedIn

LEMMA FencedIs ==
    ASSUME NEW d \in Documents, NEW l \in LinesOf(d)
    PROVE  FencedIn(d)[l] <=> FencedAt(d, l)
<1> DEFINE F == FencedIn(d)
<1>1. F = [k \in LinesOf(d) |-> \E o \in 1 .. k - 1 : Opens(d, F, o, k)]
  BY FencedRight, DocumentFacts DEF FencedBy
<1> HIDE DEF F
<1>2. F[l] = \E o \in 1 .. l - 1 : Opens(d, F, o, l)
  BY <1>1, Zenon
<1> QED
  BY <1>2 DEF FencedAt, F

\* in_fence is f before line l.
Open(d, f, l) ==
    IF f = 0 THEN ~FencedAt(d, l)
    ELSE f \in 1 .. l - 1 /\ Opens(d, FencedIn(d), f, l)

FenceNext(d, l, f) ==
    IF f # 0 THEN IF ClosesIn(d, l, f) THEN 0 ELSE f
    ELSE IF KindOf(d, l) = "fence" THEN l ELSE 0

\* Two fences are never open at once: the second would be in the first.
LEMMA OneFence ==
    ASSUME NEW d \in Documents, NEW l \in 1 .. Len(d) + 1,
           NEW o \in 1 .. l - 1, NEW p \in 1 .. l - 1,
           Opens(d, FencedIn(d), o, l), Opens(d, FencedIn(d), p, l)
    PROVE  o = p
<1>1. ASSUME NEW x \in 1 .. l - 1, NEW y \in 1 .. l - 1,
             Opens(d, FencedIn(d), x, l), Opens(d, FencedIn(d), y, l), x < y
      PROVE  FALSE
  <2>1. Len(d) \in Nat
    BY DocumentFacts
  <2>2. x \in 1 .. y - 1 /\ y \in LinesOf(d) /\ \A c \in x + 1 .. y - 1 : c \in x + 1 .. l - 1
    BY <1>1, <2>1 DEF LinesOf
  <2>3. Opens(d, FencedIn(d), x, y)
    BY <1>1, <2>2, Zenon DEF Opens
  <2>4. FencedIn(d)[y]
    BY <2>2, <2>3, FencedIs DEF FencedAt
  <2> QED
    BY <1>1, <2>4, Zenon DEF Opens
<1>2. o < p \/ p < o \/ o = p
  <2>1. Len(d) \in Nat
    BY DocumentFacts
  <2> QED
    BY <2>1
<1> QED
  BY <1>1, <1>2

LEMMA OpenFacts ==
    ASSUME NEW d \in Documents, NEW l \in LinesOf(d), NEW f, Open(d, f, l)
    PROVE  /\ FencedIn(d)[l] <=> f # 0
           /\ Open(d, FenceNext(d, l, f), l + 1)
<1> DEFINE F == FencedIn(d)
<1>0. Len(d) \in Nat /\ l \in 1 .. Len(d) + 1 /\ l + 1 \in 1 .. Len(d) + 1 /\ l \in Nat
  <2>1. Len(d) \in Nat
    BY DocumentFacts
  <2> QED
    BY <2>1 DEF LinesOf
<1>1. f # 0 => FencedAt(d, l)
  BY Zenon DEF Open, FencedAt
<1>2. f = 0 => ~FencedAt(d, l)
  BY Zenon DEF Open
<1>3. FencedIn(d)[l] <=> f # 0
  BY <1>1, <1>2, FencedIs, Zenon
<1>4. ASSUME NEW o \in 1 .. l
      PROVE  Opens(d, F, o, l + 1) <=> \/ o = l /\ KindOf(d, l) = "fence" /\ f = 0
                                       \/ o # l /\ Opens(d, F, o, l) /\ ~ClosesIn(d, l, o)
  <2>1. CASE o = l
    <3>1. o + 1 .. (l + 1) - 1 = {}
      BY <1>0, <2>1
    <3>2. Opens(d, F, o, l + 1) <=> KindOf(d, l) = "fence" /\ ~F[l]
      BY <2>1, <3>1, Zenon DEF Opens
    <3> QED
      BY <1>3, <2>1, <3>2, Zenon
  <2>2. CASE o # l
    <3>1. \A c : c \in o + 1 .. (l + 1) - 1 <=> c \in o + 1 .. l - 1 \/ c = l
      BY <1>0, <2>2
    <3>2. Opens(d, F, o, l + 1) <=> Opens(d, F, o, l) /\ ~ClosesIn(d, l, o)
      BY <3>1, Zenon DEF Opens
    <3> QED
      BY <2>2, <3>2, Zenon
  <2> QED
    BY <2>1, <2>2
<1>5. (l + 1) - 1 = l /\ l \in 1 .. l /\ l # 0 /\ \A o : o \in 1 .. l <=> o \in 1 .. l - 1 \/ o = l
  BY <1>0
<1>6. CASE f = 0
  <2>1. \A o \in 1 .. l - 1 : ~Opens(d, F, o, l)
    BY <1>2, <1>6, Zenon DEF FencedAt
  <2>2. CASE KindOf(d, l) = "fence"
    <3>1. FenceNext(d, l, f) = l
      BY <1>6, <2>2 DEF FenceNext
    <3>2. Opens(d, F, l, l + 1)
      BY <1>4, <1>5, <1>6, <2>2, Zenon
    <3>3. Open(d, l, l + 1)
      BY <1>5, <3>2, Zenon DEF Open
    <3> QED
      BY <1>3, <3>1, <3>3, Zenon
  <2>3. CASE KindOf(d, l) # "fence"
    <3>1. FenceNext(d, l, f) = 0
      BY <1>6, <2>3 DEF FenceNext
    <3>2. \A o \in 1 .. l : ~Opens(d, F, o, l + 1)
      BY <1>4, <1>5, <2>1, <2>3, Zenon
    <3>3. Open(d, 0, l + 1)
      BY <1>5, <3>2, Zenon DEF Open, FencedAt
    <3> QED
      BY <1>3, <3>1, <3>3, Zenon
  <2> QED
    BY <2>2, <2>3
<1>7. CASE f # 0
  <2>1. f \in 1 .. l - 1 /\ Opens(d, F, f, l) /\ f \in 1 .. l /\ f # l
    <3>1. f \in 1 .. l - 1 /\ Opens(d, F, f, l)
      BY <1>7, Zenon DEF Open
    <3>2. l \notin 1 .. l - 1
      BY <1>0
    <3> QED
      BY <1>5, <3>1, <3>2
  <2>2. CASE ClosesIn(d, l, f)
    <3>1. FenceNext(d, l, f) = 0
      BY <1>7, <2>2 DEF FenceNext
    <3>2. ASSUME NEW o \in 1 .. l, Opens(d, F, o, l + 1) PROVE FALSE
      <4>1. o # l /\ Opens(d, F, o, l) /\ ~ClosesIn(d, l, o)
        BY <1>4, <1>7, <3>2, Zenon
      <4>2. o \in 1 .. l - 1
        BY <1>5, <4>1, Zenon
      <4>3. o = f
        BY <1>0, <2>1, <4>1, <4>2, OneFence
      <4> QED
        BY <2>2, <4>1, <4>3, Zenon
    <3>3. Open(d, 0, l + 1)
      BY <1>5, <3>2, Zenon DEF Open, FencedAt
    <3> QED
      BY <1>3, <3>1, <3>3, Zenon
  <2>3. CASE ~ClosesIn(d, l, f)
    <3>1. FenceNext(d, l, f) = f
      BY <1>7, <2>3 DEF FenceNext
    <3>2. Opens(d, F, f, l + 1)
      BY <1>4, <2>1, <2>3, Zenon
    <3>3. Open(d, f, l + 1)
      BY <1>5, <1>7, <2>1, <3>2, Zenon DEF Open
    <3> QED
      BY <1>3, <3>1, <3>3, Zenon
  <2> QED
    BY <2>2, <2>3
<1> QED
  BY <1>6, <1>7

-----------------------------------------------------------------------------
(* The headings over a line.                                               *)

KeptIn(d, p, level) ==
    SubSeq(p, 1, Max({0} \cup {i \in DOMAIN p : d[p[i]].level < level}))

LEMMA SameHeadings ==
    ASSUME NEW d \in Documents, NEW l \in LinesOf(d), ~TitleIn(d, l)
    PROVE  EnclosingIn(d, l + 1) = EnclosingIn(d, l)
<1>1. l \in Nat /\ l - 1 \in Nat /\ (l - 1) + 1 = l /\ (l + 1) - 1 = l
  <2>1. Len(d) \in Nat
    BY DocumentFacts
  <2> QED
    BY <2>1 DEF LinesOf
<1>2. Above(d, l + 1) = Above(d, l)
  <2>1. \A h : h \in 1 .. l <=> h \in 1 .. l - 1 \/ h = l
    BY <1>1
  <2>2. \A h \in 1 .. l - 1 : \A g : g \in h + 1 .. l <=> g \in h + 1 .. l - 1 \/ g = l
    BY <1>1
  <2>3. \A h : h \in Above(d, l + 1) <=>
            h \in 1 .. l /\ TitleIn(d, h)
            /\ \A g \in h + 1 .. l : TitleIn(d, g) => d[g].level > d[h].level
    BY <1>1 DEF Above
  <2>4. \A h : h \in Above(d, l) <=>
            h \in 1 .. l - 1 /\ TitleIn(d, h)
            /\ \A g \in h + 1 .. l - 1 : TitleIn(d, g) => d[g].level > d[h].level
    BY DEF Above
  <2>5. \A h : h \in Above(d, l + 1) <=> h \in Above(d, l)
    BY <2>1, <2>2, <2>3, <2>4, Zenon
  <2> QED
    BY <2>5
<1>3. l \notin Above(d, l)
  BY <1>1 DEF Above
<1>4. Among((l - 1) + 1, Above(d, l)) = Among(l - 1, Above(d, l))
  BY <1>1, <1>3, AmongStep
<1> QED
  BY <1>1, <1>2, <1>4 DEF EnclosingIn

LEMMA NextHeading ==
    ASSUME NEW d \in Documents, NEW l \in LinesOf(d), TitleIn(d, l)
    PROVE  EnclosingIn(d, l + 1) = Append(KeptIn(d, EnclosingIn(d, l), d[l].level), l)
<1> DEFINE p == EnclosingIn(d, l)
           A == Above(d, l)
           B == Above(d, l + 1)
           v(h) == d[h].level
           Z == {0} \cup {i \in DOMAIN p : v(p[i]) < v(l)}
           m == Max(Z)
           q == SubSeq(p, 1, m)
<1>1. /\ l \in Nat /\ l - 1 \in Nat /\ (l - 1) + 1 = l /\ (l + 1) - 1 = l
      /\ \A h \in 1 .. l : h \in LinesOf(d)
  <2>1. Len(d) \in Nat
    BY DocumentFacts
  <2> QED
    BY <2>1 DEF LinesOf
<1>2. \A h \in LinesOf(d) : TitleIn(d, h) => v(h) \in Nat
  BY DocumentFacts DEF TitleIn
<1>3. Lists(p, l - 1, A)
  BY <1>1, AmongLists DEF EnclosingIn
<1>4. /\ \A h : h \in B <=> \/ h = l
                            \/ h \in A /\ v(l) > v(h)
      /\ \A h \in A : h \in 1 .. l - 1 /\ TitleIn(d, h) /\ v(h) \in Nat
      /\ \A g, h \in A : h < g => v(g) > v(h)
  <2>1. \A h : h \in 1 .. l <=> h \in 1 .. l - 1 \/ h = l
    BY <1>1
  <2>2. \A h \in 1 .. l - 1 : \A g : g \in h + 1 .. l <=> g \in h + 1 .. l - 1 \/ g = l
    BY <1>1
  <2>3. \A h : h \in B <=>
            h \in 1 .. l /\ TitleIn(d, h)
            /\ \A g \in h + 1 .. l : TitleIn(d, g) => v(g) > v(h)
    BY <1>1 DEF Above
  <2>4. \A h : h \in A <=>
            h \in 1 .. l - 1 /\ TitleIn(d, h)
            /\ \A g \in h + 1 .. l - 1 : TitleIn(d, g) => v(g) > v(h)
    BY DEF Above
  <2>5. l + 1 .. l = {} /\ l \notin 1 .. l - 1
    BY <1>1
  <2>6. \A h : h \in B <=> h = l \/ (h \in A /\ v(l) > v(h))
    <3> HIDE DEF A, B, v
    <3> QED
      BY <2>1, <2>2, <2>3, <2>4, <2>5, Zenon
  <2>7. \A h \in A : h \in 1 .. l - 1 /\ TitleIn(d, h) /\ v(h) \in Nat
    <3> HIDE DEF A, B, v
    <3> QED
      BY <1>1, <1>2, <2>1, <2>4, Zenon
  <2>8. \A g, h \in A : h < g => v(g) > v(h)
    <3>1. \A g, h \in 1 .. l - 1 : h < g => g \in h + 1 .. l - 1
      BY <1>1
    <3> HIDE DEF A, B, v
    <3> QED
      BY <2>4, <3>1, Zenon
  <2> QED
    BY <2>6, <2>7, <2>8
<1> HIDE DEF p, A, B, v
<1>5. /\ p \in Seq(Nat) /\ Len(p) \in Nat /\ DOMAIN p = 1 .. Len(p)
      /\ \A i \in 1 .. Len(p) : p[i] \in A
      /\ \A i, j \in 1 .. Len(p) : i < j => p[i] < p[j]
      /\ \A x \in A : \E i \in 1 .. Len(p) : p[i] = x
  BY <1>3, <1>4 DEF Lists, Rising
<1>6. Z \in SUBSET (0 .. Len(p)) /\ Z # {}
  BY <1>5
<1>7. m \in Z /\ \A y \in Z : m >= y
  <2> HIDE DEF Z
  <2> QED
    BY <1>5, <1>6, Greatest
<1> HIDE DEF m
<1>8. m \in 0 .. Len(p) /\ (m # 0 => v(p[m]) < v(l))
  BY <1>6, <1>7
<1>9. /\ q \in Seq(Nat) /\ Len(q) = m /\ \A i \in 1 .. m : i \in 1 .. Len(p) /\ q[i] = p[i]
  BY <1>5, <1>8
<1> HIDE DEF q
<1>10. Lists(q, l - 1, B)
  <2>1. Rising(q)
    BY <1>5, <1>9 DEF Rising
  <2>2. ASSUME NEW i \in 1 .. Len(q) PROVE q[i] \in 1 .. l - 1 /\ q[i] \in B
    <3>1. i \in 1 .. m /\ i \in 1 .. Len(p) /\ q[i] = p[i] /\ p[i] \in A /\ m \in 1 .. Len(p)
      BY <1>5, <1>8, <1>9
    <3>2. p[m] \in A
      BY <1>5, <3>1
    <3>3. v(p[i]) \in Nat /\ v(p[m]) \in Nat /\ v(l) \in Nat /\ v(p[m]) < v(l)
      <4>1. v(l) \in Nat
        BY <1>2
      <4> QED
        BY <1>4, <1>8, <3>1, <3>2, <4>1
    <3>4. CASE i = m
      BY <1>4, <3>1, <3>3, <3>4
    <3>5. CASE i # m
      <4>1. i < m
        BY <3>1, <3>5
      <4>2. v(p[m]) > v(p[i])
        BY <1>4, <1>5, <3>1, <3>2, <4>1
      <4>3. v(l) > v(p[i])
        BY <3>3, <4>2
      <4> QED
        BY <1>4, <3>1, <4>3
    <3> QED
      BY <3>4, <3>5
  <2>3. ASSUME NEW x \in 1 .. l - 1, x \in B PROVE \E i \in 1 .. Len(q) : q[i] = x
    <3>1. x # l
      BY <1>1
    <3>2. x \in A /\ v(l) > v(x)
      BY <1>4, <2>3, <3>1
    <3>3. PICK i \in 1 .. Len(p) : p[i] = x
      BY <1>5, <3>2
    <3>4. v(p[i]) < v(l)
      BY <3>2, <3>3
    <3>5. i \in Z
      BY <1>5, <3>3, <3>4
    <3>6. m >= i
      BY <1>7, <3>5
    <3>7. i \in 1 .. Len(q)
      BY <1>8, <1>9, <3>3, <3>6
    <3> QED
      BY <1>9, <3>3, <3>7
  <2> QED
    BY <1>9, <2>1, <2>2, <2>3 DEF Lists
<1>11. q = Among(l - 1, B)
  BY <1>1, <1>10, AmongIs
<1>12. Among((l - 1) + 1, B) = Append(Among(l - 1, B), l)
  <2>1. l \in B
    BY <1>4
  <2> QED
    BY <1>1, <2>1, AmongStep
<1>13. EnclosingIn(d, l + 1) = Append(q, l)
  BY <1>1, <1>11, <1>12 DEF EnclosingIn, B
<1>14. q = KeptIn(d, p, d[l].level)
  BY DEF KeptIn, q, m, v
<1> QED
  BY <1>13, <1>14 DEF p

-----------------------------------------------------------------------------
(* Texts.                                                                  *)

Mapped(f, s) == [k \in DOMAIN s |-> f[s[k]]]
Maps(f, V, W) == f \in [V -> W]

LEMMA MappedType ==
    ASSUME NEW V, NEW W, NEW f, Maps(f, V, W), NEW s \in Seq(V)
    PROVE  /\ Mapped(f, s) \in Seq(W) /\ Len(Mapped(f, s)) = Len(s)
           /\ \A k \in 1 .. Len(s) : Mapped(f, s)[k] = f[s[k]]
<1>1. Len(s) \in Nat /\ DOMAIN s = 1 .. Len(s) /\ \A k \in 1 .. Len(s) : s[k] \in V
  OBVIOUS
<1>2. \A k \in 1 .. Len(s) : f[s[k]] \in W
  BY <1>1 DEF Maps
<1> QED
  BY <1>1, <1>2 DEF Mapped

LEMMA MappedBoth ==
    ASSUME NEW V, NEW W, NEW f, Maps(f, V, W), NEW s \in Seq(V), NEW t \in Seq(V)
    PROVE  Mapped(f, s \o t) = Mapped(f, s) \o Mapped(f, t)
<1> DEFINE a == Mapped(f, s)
           b == Mapped(f, t)
           c == Mapped(f, s \o t)
           m == Len(s)
           n == Len(t)
<1>1. /\ s \o t \in Seq(V) /\ m \in Nat /\ n \in Nat /\ Len(s \o t) = m + n
      /\ \A k \in 1 .. m + n : (s \o t)[k] = IF k <= m THEN s[k] ELSE t[k - m]
  OBVIOUS
<1>2. /\ IsSeq(a) /\ Len(a) = m /\ \A k \in 1 .. m : a[k] = f[s[k]]
      /\ IsSeq(b) /\ Len(b) = n /\ \A k \in 1 .. n : b[k] = f[t[k]]
      /\ IsSeq(c) /\ Len(c) = Len(s \o t) /\ \A k \in 1 .. Len(s \o t) : c[k] = f[(s \o t)[k]]
  <2> HIDE DEF m, n
  <2>1. s \o t \in Seq(V)
    BY <1>1
  <2>2. \A r \in Seq(V) : /\ Mapped(f, r) \in Seq(W) /\ Len(Mapped(f, r)) = Len(r)
                          /\ \A k \in 1 .. Len(r) : Mapped(f, r)[k] = f[r[k]]
    BY MappedType
  <2> QED
    BY <2>1, <2>2, Zenon DEF IsSeq, m, n
<1> HIDE DEF a, b, c, m, n
<1>3. /\ IsSeq(a \o b) /\ Len(a \o b) = m + n
      /\ \A k \in 1 .. m + n : (a \o b)[k] = IF k <= m THEN a[k] ELSE b[k - m]
  <2>1. IsSeq(a) /\ IsSeq(b) /\ Len(a) = m /\ Len(b) = n
    BY <1>2
  <2> QED
    BY <2>1, Both
<1>4. ASSUME NEW k \in 1 .. m + n PROVE c[k] = (a \o b)[k]
  <2>0. c[k] = f[(s \o t)[k]]
    BY <1>1, <1>2
  <2>1. CASE k <= m
    <3>1. k \in 1 .. m /\ (s \o t)[k] = s[k]
      BY <1>1, <2>1
    <3>2. (a \o b)[k] = a[k] /\ a[k] = f[s[k]]
      BY <1>2, <1>3, <2>1, <3>1
    <3> QED
      BY <2>0, <3>1, <3>2
  <2>2. CASE ~(k <= m)
    <3>1. k - m \in 1 .. n /\ (s \o t)[k] = t[k - m]
      BY <1>1, <2>2
    <3>2. (a \o b)[k] = b[k - m] /\ b[k - m] = f[t[k - m]]
      BY <1>2, <1>3, <2>2, <3>1
    <3> QED
      BY <2>0, <3>1, <3>2
  <2> QED
    BY <2>1, <2>2
<1>5. c = a \o b
  <2>1. IsSeq(c) /\ IsSeq(a \o b) /\ Len(c) = Len(a \o b)
    BY <1>1, <1>2, <1>3
  <2>2. \A k \in 1 .. Len(c) : c[k] = (a \o b)[k]
    BY <1>1, <1>2, <1>4
  <2> QED
    BY <2>1, <2>2, Same
<1> QED
  BY <1>5 DEF a, b, c

\* The texts of a list put together: of an empty list, of one, of a longer
\* list, of its first and the others.
LEMMA MappedText ==
    ASSUME NEW U, NEW V, NEW f, Maps(f, V, Seq(U))
    PROVE  LET g(r) == FlattenSeq(Mapped(f, r))
           IN  /\ g(<<>>) = <<>>
               /\ \A s \in Seq(V) : g(s) \in Seq(U)
               /\ \A x \in V : g(<<x>>) = f[x]
               /\ \A s \in Seq(V) : \A x \in V : g(Append(s, x)) = g(s) \o f[x]
               /\ \A s \in Seq(V) : s # <<>> => g(s) = f[Head(s)] \o g(Tail(s))
<1> DEFINE W == Seq(U)
           g(r) == FlattenSeq(Mapped(f, r))
<1>0. Maps(f, V, W) /\ (\A x \in V : f[x] \in W) /\ \A x \in W : <<>> \o x = x
  BY DEF Maps
<1> HIDE DEF W
<1>1. \A r \in Seq(V) : Mapped(f, r) \in Seq(W) /\ Len(Mapped(f, r)) = Len(r) /\ g(r) \in W
  <2> TAKE r \in Seq(V)
  <2>1. Mapped(f, r) \in Seq(W) /\ Len(Mapped(f, r)) = Len(r)
    <3>1. Maps(f, V, W)
      BY <1>0
    <3> QED
      BY <3>1, MappedType
  <2> QED
    BY <2>1, FlattenType DEF W
<1>2. \A r, t \in Seq(V) : g(r \o t) = g(r) \o g(t)
  <2> TAKE r, t \in Seq(V)
  <2>1. Mapped(f, r \o t) = Mapped(f, r) \o Mapped(f, t)
    BY <1>0, MappedBoth
  <2> QED
    BY <1>1, <2>1, FlattenBoth DEF W
<1>3. Mapped(f, <<>>) = <<>>
  <2>1. <<>> \in Seq(V) /\ Len(<<>>) = 0
    OBVIOUS
  <2>2. Mapped(f, <<>>) \in Seq(W) /\ Len(Mapped(f, <<>>)) = 0
    <3>1. PICK e : e = <<>>
      OBVIOUS
    <3>2. e \in Seq(V) /\ Len(e) = 0
      BY <2>1, <3>1
    <3>3. Mapped(f, e) \in Seq(W) /\ Len(Mapped(f, e)) = Len(e)
      BY <1>1, <3>2
    <3> QED
      BY <3>1, <3>2, <3>3
  <2> QED
    BY <2>2
<1>4. g(<<>>) = <<>>
  BY <1>3, NoneFlat
<1>5. ASSUME NEW x \in V PROVE g(<<x>>) = f[x]
  <2>1. <<x>> \in Seq(V) /\ Len(<<x>>) = 1 /\ <<x>>[1] = x
    OBVIOUS
  <2>2. PICK y : y = Mapped(f, <<x>>)
    OBVIOUS
  <2>3. y \in Seq(W) /\ Len(y) = 1 /\ y[1] = f[x]
    <3>1. PICK o : o = <<x>>
      OBVIOUS
    <3>2. o \in Seq(V) /\ Len(o) = 1 /\ o[1] = x /\ y = Mapped(f, o)
      BY <2>1, <2>2, <3>1
    <3>3. /\ Mapped(f, o) \in Seq(W) /\ Len(Mapped(f, o)) = Len(o)
          /\ \A k \in 1 .. Len(o) : Mapped(f, o)[k] = f[o[k]]
      BY <1>0, <3>2, MappedType
    <3> QED
      BY <3>2, <3>3
  <2>4. FlattenSeq(y) = y[1]
    BY <2>3, FlattenOne DEF W
  <2> QED
    BY <2>2, <2>3, <2>4
<1>6. ASSUME NEW s \in Seq(V), NEW x \in V PROVE g(Append(s, x)) = g(s) \o f[x]
  <2>1. <<x>> \in Seq(V) /\ Append(s, x) = s \o <<x>>
    OBVIOUS
  <2>2. g(s \o <<x>>) = g(s) \o g(<<x>>)
    BY <1>2, <2>1
  <2> QED
    BY <1>5, <2>1, <2>2
<1>7. ASSUME NEW s \in Seq(V), s # <<>> PROVE g(s) = f[Head(s)] \o g(Tail(s))
  <2>1. Head(s) \in V /\ <<Head(s)>> \in Seq(V) /\ Tail(s) \in Seq(V) /\ s = <<Head(s)>> \o Tail(s)
    BY <1>7
  <2>2. g(<<Head(s)>> \o Tail(s)) = g(<<Head(s)>>) \o g(Tail(s))
    BY <1>2, <2>1
  <2> QED
    BY <1>5, <2>1, <2>2
<1>8. \A s \in Seq(V) : g(s) \in Seq(U)
  BY <1>1 DEF W
<1> HIDE DEF g
<1>9. /\ g(<<>>) = <<>>
      /\ \A s \in Seq(V) : g(s) \in Seq(U)
      /\ \A x \in V : g(<<x>>) = f[x]
      /\ \A s \in Seq(V) : \A x \in V : g(Append(s, x)) = g(s) \o f[x]
      /\ \A s \in Seq(V) : s # <<>> => g(s) = f[Head(s)] \o g(Tail(s))
  BY <1>4, <1>5, <1>6, <1>7, <1>8
<1> QED
  BY <1>9, Zenon DEF g

\* The words of the lines L.
Words(L) == L \X (Nat \ {0})

LEMMA Wider ==
    ASSUME NEW U, NEW V, U \subseteq V
    PROVE  Seq(U) \subseteq Seq(V) /\ Words(U) \subseteq Words(V) /\ Seq(Words(U)) \subseteq Seq(Words(V))
<1>1. ASSUME NEW X, NEW Y, X \subseteq Y PROVE Seq(X) \subseteq Seq(Y)
  <2> SUFFICES ASSUME NEW s \in Seq(X) PROVE s \in Seq(Y)
    OBVIOUS
  <2>1. Len(s) \in Nat /\ s = [k \in 1 .. Len(s) |-> s[k]] /\ \A k \in 1 .. Len(s) : s[k] \in X
    OBVIOUS
  <2>2. s \in [1 .. Len(s) -> Y]
    BY <1>1, <2>1
  <2> QED
    BY <2>1, <2>2
<1>2. Words(U) \subseteq Words(V)
  BY DEF Words
<1>3. Seq(U) \subseteq Seq(V)
  BY <1>1
<1>4. Seq(Words(U)) \subseteq Seq(Words(V))
  BY <1>1, <1>2
<1> QED
  BY <1>2, <1>3, <1>4

LEMMA UnitsFacts ==
    ASSUME NEW d \in Documents, NEW L \in SUBSET LinesOf(d), NEW l \in L
    PROVE  /\ UnitsIn(d, l) \in Seq(Words(L))
           /\ UnitsIn(d, l) = <<>> <=> KindOf(d, l) = "blank"
<1>1. d[l].size \in Nat /\ (d[l].size = 0 <=> KindOf(d, l) = "blank")
  BY DocumentFacts
<1> DEFINE n == d[l].size
           W == Words(L)
<1>2. \A i \in 1 .. n : <<l, i>> \in W
  BY <1>1 DEF Words
<1> HIDE DEF W
<1>3. UnitsIn(d, l) \in Seq(W) /\ Len(UnitsIn(d, l)) = n
  BY <1>1, <1>2 DEF UnitsIn
<1>4. UnitsIn(d, l) = <<>> <=> n = 0
  BY <1>1, <1>3
<1> QED
  BY <1>1, <1>3, <1>4 DEF W

\* The text of lines.
LEMMA TextFacts ==
    ASSUME NEW d \in Documents, NEW L \in SUBSET LinesOf(d), NEW ls \in Seq(L)
    PROVE  /\ EachIn(d, ls) \in Seq(Seq(Words(L))) /\ Len(EachIn(d, ls)) = Len(ls)
           /\ \A k \in 1 .. Len(ls) : EachIn(d, ls)[k] = UnitsIn(d, ls[k])
           /\ TextIn(d, ls) \in Seq(Words(L)) /\ TextIn(d, <<>>) = <<>>
           /\ \A l \in L : /\ TextIn(d, <<l>>) = UnitsIn(d, l)
                           /\ TextIn(d, Append(ls, l)) = TextIn(d, ls) \o UnitsIn(d, l)
<1> DEFINE f == [l \in L |-> UnitsIn(d, l)]
           T == Seq(Words(L))
<1>1. Maps(f, L, T)
  BY UnitsFacts DEF Maps
<1>2. \A r \in Seq(L) : EachIn(d, r) = Mapped(f, r)
  <2> TAKE r \in Seq(L)
  <2>1. DOMAIN r = 1 .. Len(r) /\ \A k \in 1 .. Len(r) : r[k] \in L
    OBVIOUS
  <2> QED
    BY <2>1 DEF EachIn, Mapped
<1>3. \A l \in L : f[l] = UnitsIn(d, l)
  OBVIOUS
<1> HIDE DEF f
<1>4. /\ Mapped(f, ls) \in Seq(T) /\ Len(Mapped(f, ls)) = Len(ls)
      /\ \A k \in 1 .. Len(ls) : Mapped(f, ls)[k] = f[ls[k]]
  <2> HIDE DEF T
  <2> QED
    BY <1>1, MappedType
<1>5. /\ FlattenSeq(Mapped(f, ls)) \in T /\ FlattenSeq(Mapped(f, <<>>)) = <<>>
      /\ \A l \in L : /\ FlattenSeq(Mapped(f, Append(ls, l))) = FlattenSeq(Mapped(f, ls)) \o f[l]
                      /\ FlattenSeq(Mapped(f, <<l>>)) = f[l]
  BY <1>1, MappedText
<1>6. /\ <<>> \in Seq(L) /\ \A k \in 1 .. Len(ls) : ls[k] \in L
      /\ \A l \in L : <<l>> \in Seq(L) /\ Append(ls, l) \in Seq(L)
  OBVIOUS
<1> HIDE DEF T
<1>7. EachIn(d, ls) = Mapped(f, ls)
  BY <1>2
<1>8. /\ EachIn(d, ls) \in Seq(T) /\ Len(EachIn(d, ls)) = Len(ls)
      /\ \A k \in 1 .. Len(ls) : EachIn(d, ls)[k] = UnitsIn(d, ls[k])
  BY <1>3, <1>4, <1>6, <1>7
<1>9. TextIn(d, ls) \in T /\ TextIn(d, <<>>) = <<>>
  BY <1>2, <1>5, <1>6, <1>7 DEF TextIn
<1>10. \A l \in L : /\ TextIn(d, <<l>>) = UnitsIn(d, l)
                    /\ TextIn(d, Append(ls, l)) = TextIn(d, ls) \o UnitsIn(d, l)
  BY <1>2, <1>3, <1>5, <1>6, <1>7 DEF TextIn
<1> QED
  BY <1>8, <1>9, <1>10 DEF T

\* Lines that are not all blank have text.
LEMMA SomeText ==
    ASSUME NEW d \in Documents, NEW ls \in Seq(LinesOf(d)), NEW k \in 1 .. Len(ls),
           KindOf(d, ls[k]) # "blank"
    PROVE  TextIn(d, ls) # <<>> /\ EachIn(d, ls)[k] # <<>>
<1>1. ls[k] \in LinesOf(d)
  OBVIOUS
<1>2. EachIn(d, ls)[k] # <<>>
  <2>1. LinesOf(d) \in SUBSET LinesOf(d)
    OBVIOUS
  <2>2. EachIn(d, ls)[k] = UnitsIn(d, ls[k])
    BY <2>1, TextFacts
  <2>3. UnitsIn(d, ls[k]) # <<>>
    BY <1>1, <2>1, UnitsFacts
  <2> QED
    BY <2>2, <2>3
<1>3. EachIn(d, ls) \in Seq(Seq(Words(LinesOf(d)))) /\ k \in 1 .. Len(EachIn(d, ls))
  BY TextFacts
<1>4. ~(\A i \in 1 .. Len(EachIn(d, ls)) : EachIn(d, ls)[i] = <<>>)
  BY <1>2, <1>3
<1> QED
  BY <1>2, <1>3, <1>4, FlattenEmpty DEF TextIn

\* Blank lines at the end have none.
LEMMA BlankEnd ==
    ASSUME NEW d \in Documents, NEW ls \in Seq(LinesOf(d)), NEW m \in 0 .. Len(ls),
           \A k \in m + 1 .. Len(ls) : KindOf(d, ls[k]) = "blank"
    PROVE  TextIn(d, SubSeq(ls, 1, m)) = TextIn(d, ls)
<1> DEFINE L == LinesOf(d)
           T == Seq(Words(L))
           e == EachIn(d, ls)
           c == EachIn(d, SubSeq(ls, 1, m))
<1>1. /\ Len(ls) \in Nat /\ SubSeq(ls, 1, m) \in Seq(L) /\ Len(SubSeq(ls, 1, m)) = m
      /\ \A k \in 1 .. m : SubSeq(ls, 1, m)[k] = ls[k]
      /\ \A k \in 1 .. Len(ls) : ls[k] \in L
  OBVIOUS
<1>2. e \in Seq(T) /\ Len(e) = Len(ls) /\ \A k \in 1 .. Len(ls) : e[k] = UnitsIn(d, ls[k])
  BY TextFacts
<1>3. c \in Seq(T) /\ Len(c) = m /\ \A k \in 1 .. m : c[k] = UnitsIn(d, ls[k])
  <2>1. PICK q : q = SubSeq(ls, 1, m)
    OBVIOUS
  <2>2. q \in Seq(L) /\ Len(q) = m /\ \A k \in 1 .. m : q[k] = ls[k]
    BY <1>1, <2>1
  <2>3. L \in SUBSET LinesOf(d)
    OBVIOUS
  <2>4. /\ EachIn(d, q) \in Seq(T) /\ Len(EachIn(d, q)) = Len(q)
        /\ \A k \in 1 .. Len(q) : EachIn(d, q)[k] = UnitsIn(d, q[k])
    <3> HIDE DEF L
    <3> QED
      BY <2>2, <2>3, TextFacts
  <2> QED
    BY <2>1, <2>2, <2>4
<1> HIDE DEF e, c, T
<1>4. \A k \in m + 1 .. Len(e) : e[k] = <<>>
  <2>1. \A k \in m + 1 .. Len(ls) : k \in 1 .. Len(ls) /\ ls[k] \in L
    BY <1>1
  <2> QED
    BY <1>2, <2>1, UnitsFacts
<1>5. FlattenSeq(SubSeq(e, 1, m)) = FlattenSeq(e)
  BY <1>2, <1>4, FlattenCut DEF T
<1>6. SubSeq(e, 1, m) = c
  <2>1. /\ SubSeq(e, 1, m) \in Seq(T) /\ Len(SubSeq(e, 1, m)) = m
        /\ \A k \in 1 .. m : SubSeq(e, 1, m)[k] = e[k]
    BY <1>1, <1>2
  <2>2. IsSeq(SubSeq(e, 1, m)) /\ IsSeq(c)
    BY <1>3, <2>1 DEF IsSeq
  <2>3. \A k \in 1 .. m : k \in 1 .. Len(ls)
    BY <1>1
  <2> QED
    BY <1>2, <1>3, <2>1, <2>2, <2>3, Same
<1> QED
  BY <1>5, <1>6 DEF TextIn, e, c

\* The lines that the text under the headings p may have.
Under(d, p) == {l \in ContentsOf(d) : EnclosingIn(d, l) = p}

\* Blocks of such lines, that end with one that is not blank.
BlocksOf(d, L) == [lines : {ls \in Seq(L) : ls # <<>> /\ KindOf(d, ls[Len(ls)]) # "blank"},
                   kind  : {"code", "prose", "list"}]

SectionsOf(d) == UNION {[path : {p}, blocks : Seq(BlocksOf(d, Under(d, p))) \ {<<>>}] :
                            p \in Seq(LinesOf(d))}

BlocksText(d, bs) == FlattenSeq([k \in DOMAIN bs |-> TextIn(d, bs[k].lines)])
SectionsText(d, ss) == FlattenSeq([k \in DOMAIN ss |-> BlocksText(d, ss[k].blocks)])

LEMMA UnderLines == \A d, p : Under(d, p) \in SUBSET LinesOf(d) /\ ContentsOf(d) \in SUBSET LinesOf(d)
  BY DEF Under, ContentsOf

LEMMA BlockFacts ==
    ASSUME NEW d \in Documents, NEW L \in SUBSET LinesOf(d), NEW b \in BlocksOf(d, L)
    PROVE  /\ b.lines \in Seq(L) /\ b.lines # <<>> /\ b.kind \in {"code", "prose", "list"}
           /\ Len(b.lines) \in Nat \ {0} /\ KindOf(d, b.lines[Len(b.lines)]) # "blank"
           /\ b.lines[1] \in L
           /\ TextIn(d, b.lines) \in Seq(Words(L)) /\ TextIn(d, b.lines) # <<>>
<1>1. /\ b.lines \in Seq(L) /\ b.lines # <<>> /\ b.kind \in {"code", "prose", "list"}
      /\ KindOf(d, b.lines[Len(b.lines)]) # "blank"
  BY DEF BlocksOf
<1> DEFINE ls == b.lines
<1> HIDE DEF ls
<1>2. ls \in Seq(L) /\ ls # <<>> /\ KindOf(d, ls[Len(ls)]) # "blank"
  BY <1>1 DEF ls
<1>3. Len(ls) \in Nat \ {0} /\ Len(ls) \in 1 .. Len(ls) /\ ls[1] \in L
  BY <1>2
<1>4. ls \in Seq(LinesOf(d))
  BY <1>2, Wider
<1>5. TextIn(d, ls) # <<>>
  BY <1>2, <1>3, <1>4, SomeText
<1>6. TextIn(d, ls) \in Seq(Words(L))
  BY <1>2, TextFacts
<1> QED
  BY <1>1, <1>3, <1>5, <1>6 DEF ls

LEMMA BlocksFacts ==
    ASSUME NEW d \in Documents, NEW L \in SUBSET LinesOf(d), NEW bs \in Seq(BlocksOf(d, L))
    PROVE  /\ BlocksText(d, bs) \in Seq(Words(L)) /\ BlocksText(d, <<>>) = <<>>
           /\ \A b \in BlocksOf(d, L) :
                 BlocksText(d, Append(bs, b)) = BlocksText(d, bs) \o TextIn(d, b.lines)
           /\ bs # <<>> => BlocksText(d, bs) = TextIn(d, Head(bs).lines) \o BlocksText(d, Tail(bs))
<1> DEFINE V == BlocksOf(d, L)
           T == Seq(Words(L))
           f == [b \in V |-> TextIn(d, b.lines)]
<1>1. Maps(f, V, T) /\ \A b \in V : f[b] = TextIn(d, b.lines)
  BY BlockFacts DEF Maps
<1> HIDE DEF V
<1>2. \A r \in Seq(V) : BlocksText(d, r) = FlattenSeq(Mapped(f, r))
  <2> TAKE r \in Seq(V)
  <2>1. DOMAIN r = 1 .. Len(r) /\ \A k \in 1 .. Len(r) : r[k] \in V
    OBVIOUS
  <2> QED
    BY <2>1 DEF BlocksText, Mapped
<1>3. bs \in Seq(V)
  BY DEF V
<1> HIDE DEF f
<1>4. /\ FlattenSeq(Mapped(f, bs)) \in T /\ FlattenSeq(Mapped(f, <<>>)) = <<>>
      /\ \A b \in V : FlattenSeq(Mapped(f, Append(bs, b))) = FlattenSeq(Mapped(f, bs)) \o f[b]
      /\ bs # <<>> => FlattenSeq(Mapped(f, bs)) = f[Head(bs)] \o FlattenSeq(Mapped(f, Tail(bs)))
  <2> DEFINE g(r) == FlattenSeq(Mapped(f, r))
  <2>1. Maps(f, V, T)
    BY <1>1
  <2>2. /\ g(bs) \in T /\ g(<<>>) = <<>>
        /\ \A b \in V : g(Append(bs, b)) = g(bs) \o f[b]
    BY <1>3, <2>1, MappedText
  <2>3. bs # <<>> => g(bs) = f[Head(bs)] \o g(Tail(bs))
    BY <1>3, <2>1, MappedText
  <2> QED
    BY <2>2, <2>3
<1>5. /\ <<>> \in Seq(V) /\ \A b \in V : Append(bs, b) \in Seq(V)
      /\ bs # <<>> => Head(bs) \in V /\ Tail(bs) \in Seq(V)
  BY <1>3
<1> HIDE DEF T
<1>6. BlocksText(d, bs) \in T /\ BlocksText(d, <<>>) = <<>>
  BY <1>2, <1>3, <1>4, <1>5
<1>7. \A b \in V : BlocksText(d, Append(bs, b)) = BlocksText(d, bs) \o TextIn(d, b.lines)
  BY <1>1, <1>2, <1>3, <1>4, <1>5
<1>8. bs # <<>> => BlocksText(d, bs) = TextIn(d, Head(bs).lines) \o BlocksText(d, Tail(bs))
  BY <1>1, <1>2, <1>3, <1>4, <1>5
<1> QED
  BY <1>6, <1>7, <1>8 DEF V, T

LEMMA SectionFacts ==
    ASSUME NEW d \in Documents, NEW s \in SectionsOf(d)
    PROVE  /\ s.path \in Seq(LinesOf(d)) /\ s = [path |-> s.path, blocks |-> s.blocks]
           /\ s.blocks \in Seq(BlocksOf(d, Under(d, s.path))) /\ s.blocks # <<>>
           /\ BlocksText(d, s.blocks) \in Seq(Words(Under(d, s.path)))
           /\ BlocksText(d, s.blocks) \in Seq(Words(LinesOf(d)))
<1>1. PICK p \in Seq(LinesOf(d)) : s \in [path : {p}, blocks : Seq(BlocksOf(d, Under(d, p))) \ {<<>>}]
  BY DEF SectionsOf
<1>2. s.path = p /\ s.blocks \in Seq(BlocksOf(d, Under(d, p))) /\ s.blocks # <<>>
      /\ s = [path |-> s.path, blocks |-> s.blocks]
  BY <1>1
<1>3. BlocksText(d, s.blocks) \in Seq(Words(Under(d, p)))
  BY <1>2, UnderLines, BlocksFacts
<1>4. BlocksText(d, s.blocks) \in Seq(Words(LinesOf(d)))
  BY <1>3, UnderLines, Wider
<1> QED
  BY <1>1, <1>2, <1>3, <1>4

LEMMA SectionsFacts ==
    ASSUME NEW d \in Documents, NEW ss \in Seq(SectionsOf(d))
    PROVE  /\ SectionsText(d, ss) \in Seq(Words(LinesOf(d))) /\ SectionsText(d, <<>>) = <<>>
           /\ \A s \in SectionsOf(d) :
                 SectionsText(d, Append(ss, s)) = SectionsText(d, ss) \o BlocksText(d, s.blocks)
           /\ ss # <<>> =>
                 SectionsText(d, ss) = BlocksText(d, Head(ss).blocks) \o SectionsText(d, Tail(ss))
<1> DEFINE V == SectionsOf(d)
           T == Seq(Words(LinesOf(d)))
           f == [s \in V |-> BlocksText(d, s.blocks)]
<1>1. Maps(f, V, T) /\ \A s \in V : f[s] = BlocksText(d, s.blocks)
  BY SectionFacts DEF Maps
<1> HIDE DEF V
<1>2. \A r \in Seq(V) : SectionsText(d, r) = FlattenSeq(Mapped(f, r))
  <2> TAKE r \in Seq(V)
  <2>1. DOMAIN r = 1 .. Len(r) /\ \A k \in 1 .. Len(r) : r[k] \in V
    OBVIOUS
  <2> QED
    BY <2>1 DEF SectionsText, Mapped
<1>3. ss \in Seq(V)
  BY DEF V
<1> HIDE DEF f
<1>4. /\ FlattenSeq(Mapped(f, ss)) \in T /\ FlattenSeq(Mapped(f, <<>>)) = <<>>
      /\ \A s \in V : FlattenSeq(Mapped(f, Append(ss, s))) = FlattenSeq(Mapped(f, ss)) \o f[s]
      /\ ss # <<>> => FlattenSeq(Mapped(f, ss)) = f[Head(ss)] \o FlattenSeq(Mapped(f, Tail(ss)))
  <2> DEFINE g(r) == FlattenSeq(Mapped(f, r))
  <2>1. Maps(f, V, T)
    BY <1>1
  <2>2. /\ g(ss) \in T /\ g(<<>>) = <<>>
        /\ \A s \in V : g(Append(ss, s)) = g(ss) \o f[s]
    BY <1>3, <2>1, MappedText
  <2>3. ss # <<>> => g(ss) = f[Head(ss)] \o g(Tail(ss))
    BY <1>3, <2>1, MappedText
  <2> QED
    BY <2>2, <2>3
<1>5. /\ <<>> \in Seq(V) /\ \A s \in V : Append(ss, s) \in Seq(V)
      /\ ss # <<>> => Head(ss) \in V /\ Tail(ss) \in Seq(V)
  BY <1>3
<1> HIDE DEF T
<1>6. SectionsText(d, ss) \in T /\ SectionsText(d, <<>>) = <<>>
  BY <1>2, <1>3, <1>4, <1>5
<1>7. \A s \in V : SectionsText(d, Append(ss, s)) = SectionsText(d, ss) \o BlocksText(d, s.blocks)
  BY <1>1, <1>2, <1>3, <1>4, <1>5
<1>8. ss # <<>> =>
          SectionsText(d, ss) = BlocksText(d, Head(ss).blocks) \o SectionsText(d, Tail(ss))
  BY <1>1, <1>2, <1>3, <1>4, <1>5
<1> QED
  BY <1>6, <1>7, <1>8 DEF V, T

-----------------------------------------------------------------------------
(* The lines that _build_blocks collects.                                  *)

\* ls are the lines up to n.
Run(ls, n) == /\ ls \in Seq(Nat) /\ Len(ls) <= n
              /\ \A k \in 1 .. Len(ls) : ls[k] = n - Len(ls) + k

\* What of ls is text: a table-of-contents marker may turn out to be alone.
Pending(d, ls) == IF Len(ls) = 1 /\ ls[1] \notin ContentsOf(d) THEN <<>> ELSE ls

\* ls has been collected before line n, while f was open.
Building(d, f, ls, n) ==
    /\ Run(ls, n - 1) /\ Open(d, f, n)
    /\ \A k \in 1 .. Len(ls) : ls[k] \in LinesOf(d) /\ ~TitleIn(d, ls[k])
    /\ f = 0 => /\ EndedBefore(d, n - Len(ls))
                /\ \A k \in 1 .. Len(ls) : /\ KindOf(d, ls[k]) \notin {"blank", "fence"}
                                           /\ ~FencedIn(d)[ls[k]]
    /\ f # 0 => ls # <<>> /\ KindOf(d, ls[1]) = "fence"
    /\ Len(ls) # 1 => \A k \in 1 .. Len(ls) : ls[k] \in ContentsOf(d)

StrippedIn(d, ls) == SubSeq(ls, 1, Max({k \in DOMAIN ls : KindOf(d, ls[k]) # "blank"}))
KindIn(d, l) ==
    IF KindOf(d, l) = "fence" THEN "code" ELSE IF KindOf(d, l) = "text" THEN d[l].kind ELSE "prose"

FlushedIn(d, bs, ls) ==
    IF ls = <<>> \/ (Len(ls) = 1 /\ KindOf(d, ls[1]) = "toc") THEN bs
    ELSE Append(bs, [lines |-> StrippedIn(d, ls), kind |-> KindIn(d, ls[1])])

LEMMA RunOn ==
    ASSUME NEW n \in Nat \ {0}, NEW ls, Run(ls, n - 1)
    PROVE  /\ Run(Append(ls, n), n)
           /\ Append(ls, n) # <<>> /\ Len(ls) \in Nat /\ Len(Append(ls, n)) = Len(ls) + 1
           /\ Append(ls, n)[Len(ls) + 1] = n
           /\ \A k \in 1 .. Len(ls) : Append(ls, n)[k] = ls[k]
           /\ \A k \in 1 .. Len(ls) + 1 : k \in 1 .. Len(ls) \/ k = Len(ls) + 1
<1>1. ls \in Seq(Nat) /\ Len(ls) \in Nat /\ Len(ls) <= n - 1
  BY DEF Run
<1>2. /\ Append(ls, n) \in Seq(Nat) /\ Len(Append(ls, n)) = Len(ls) + 1
      /\ Append(ls, n) # <<>>
      /\ Append(ls, n)[Len(ls) + 1] = n
      /\ \A k \in 1 .. Len(ls) : Append(ls, n)[k] = ls[k]
  BY <1>1
<1>3. \A k \in 1 .. Len(ls) + 1 : k \in 1 .. Len(ls) \/ k = Len(ls) + 1
  BY <1>1
<1>4. \A k \in 1 .. Len(ls) : ls[k] = (n - 1) - Len(ls) + k
  BY DEF Run
<1>5. ASSUME NEW k \in 1 .. Len(ls) + 1 PROVE Append(ls, n)[k] = n - (Len(ls) + 1) + k
  <2>1. CASE k \in 1 .. Len(ls)
    <3>1. Append(ls, n)[k] = (n - 1) - Len(ls) + k
      BY <1>2, <1>4, <2>1
    <3> QED
      BY <1>1, <3>1
  <2>2. CASE k = Len(ls) + 1
    BY <1>1, <1>2, <2>2
  <2> QED
    BY <1>3, <2>1, <2>2
<1>6. Run(Append(ls, n), n)
  BY <1>1, <1>2, <1>5 DEF Run
<1> QED
  BY <1>1, <1>2, <1>3, <1>6

\* A line that is not alone in its paragraph is text.
LEMMA TextLine ==
    ASSUME NEW d \in Documents, NEW l \in LinesOf(d), ~TitleIn(d, l),
           \/ FencedIn(d)[l]
           \/ KindOf(d, l) # "toc"
           \/ ~EndedBefore(d, l)
           \/ ~EndsAt(d, l + 1)
    PROVE  l \in ContentsOf(d)
BY Zenon DEF ContentsOf, ContentsIn

LEMMA NotText ==
    ASSUME NEW d \in Documents, NEW l \in LinesOf(d), l \notin ContentsOf(d), ~TitleIn(d, l)
    PROVE  ~FencedIn(d)[l] /\ KindOf(d, l) = "toc" /\ EndedBefore(d, l) /\ EndsAt(d, l + 1)
BY Zenon DEF ContentsOf, ContentsIn

LEMMA PendingRight ==
    ASSUME NEW d \in Documents, NEW ls \in Seq(LinesOf(d)),
           Len(ls) # 1 => \A k \in 1 .. Len(ls) : ls[k] \in ContentsOf(d)
    PROVE  /\ Pending(d, ls) \in Seq(ContentsOf(d))
           /\ (\A k \in 1 .. Len(ls) : ls[k] \in ContentsOf(d)) => Pending(d, ls) = ls
<1> DEFINE C == ContentsOf(d)
<1>1. Len(ls) \in Nat /\ 1 \in 1 .. 1
  OBVIOUS
<1>2. (\A k \in 1 .. Len(ls) : ls[k] \in C) => Pending(d, ls) = ls
  BY <1>1 DEF Pending
<1> HIDE DEF C
<1>3. CASE \A k \in 1 .. Len(ls) : ls[k] \in C
  <2>1. ls \in Seq(C)
    BY <1>3
  <2> QED
    BY <1>2, <1>3, <2>1 DEF C
<1>4. CASE ~(\A k \in 1 .. Len(ls) : ls[k] \in C)
  <2>1. Len(ls) = 1
    BY <1>4 DEF C
  <2>2. ls[1] \notin C
    BY <1>4, <2>1
  <2>3. Pending(d, ls) = <<>>
    BY <2>1, <2>2 DEF Pending, C
  <2> QED
    BY <1>4, <2>3 DEF C
<1> QED
  BY <1>3, <1>4

\* The text of the lines up to n.
Covered(d, n) == TextIn(d, Among(n, ContentsOf(d)))

\* The text that line n has.
Share(d, n) == IF n \in ContentsOf(d) THEN UnitsIn(d, n) ELSE <<>>

LEMMA CoveredFacts ==
    ASSUME NEW d \in Documents
    PROVE  /\ Covered(d, 0) = <<>>
           /\ \A n \in LinesOf(d) : Covered(d, n) = Covered(d, n - 1) \o Share(d, n)
           /\ \A n \in 0 .. Len(d) : Covered(d, n) \in Seq(Words(LinesOf(d)))
<1> DEFINE C == ContentsOf(d)
           L == LinesOf(d)
<1>1. Len(d) \in Nat /\ C \in SUBSET L /\ L \in SUBSET L
  BY DocumentFacts, UnderLines
<1>2. ASSUME NEW n \in 0 .. Len(d) PROVE Among(n, C) \in Seq(L)
  <2>1. n \in Nat
    BY <1>1
  <2>2. Lists(Among(n, C), n, C)
    BY <2>1, AmongLists
  <2>3. Among(n, C) \in Seq(Nat) /\ \A k \in 1 .. Len(Among(n, C)) : Among(n, C)[k] \in C
    BY <2>2 DEF Lists
  <2>4. \A k \in 1 .. Len(Among(n, C)) : Among(n, C)[k] \in L
    BY <1>1, <2>3
  <2> HIDE DEF C, L
  <2> QED
    BY <2>3, <2>4
<1>3. Covered(d, 0) = <<>>
  <2>1. Among(0, C) = <<>>
    BY AmongStep
  <2>2. <<>> \in Seq(L)
    OBVIOUS
  <2> QED
    BY <1>1, <2>1, <2>2, TextFacts DEF Covered
<1>4. ASSUME NEW n \in L PROVE Covered(d, n) = Covered(d, n - 1) \o Share(d, n)
  <2>1. n - 1 \in 0 .. Len(d) /\ n - 1 \in Nat /\ (n - 1) + 1 = n
    BY <1>1 DEF LinesOf
  <2> DEFINE q == Among(n - 1, C)
  <2>2. q \in Seq(L)
    BY <1>2, <2>1
  <2>3. Among(n, C) = IF n \in C THEN Append(q, n) ELSE q
    BY <2>1, AmongStep
  <2>4. TextIn(d, Append(q, n)) = TextIn(d, q) \o UnitsIn(d, n) /\ TextIn(d, q) \in Seq(Words(L))
    BY <1>1, <2>2, TextFacts
  <2>5. TextIn(d, q) \o <<>> = TextIn(d, q)
    BY <2>4
  <2> HIDE DEF q
  <2> QED
    BY <2>3, <2>4, <2>5 DEF Covered, Share, q
<1>5. \A n \in 0 .. Len(d) : Covered(d, n) \in Seq(Words(L))
  BY <1>1, <1>2, TextFacts DEF Covered
<1> QED
  BY <1>3, <1>4, <1>5

LEMMA Within ==
    ASSUME NEW U, NEW s \in Seq(U), NEW V, \A k \in 1 .. Len(s) : s[k] \in V
    PROVE  s \in Seq(V)
OBVIOUS

\* Text behind text behind text.
LEMMA Thrice ==
    ASSUME NEW U, NEW a \in Seq(U), NEW b \in Seq(U), NEW c \in Seq(U)
    PROVE  (a \o b) \o c = a \o (b \o c) /\ a \o b \in Seq(U) /\ a \o <<>> = a /\ <<>> \o a = a
<1> DEFINE x == (a \o b) \o c
           y == a \o (b \o c)
<1>1. IsSeq(a) /\ IsSeq(b) /\ IsSeq(c) /\ Len(a) \in Nat /\ Len(b) \in Nat /\ Len(c) \in Nat
  BY DEF IsSeq
<1>2. /\ IsSeq(a \o b) /\ Len(a \o b) = Len(a) + Len(b)
      /\ \A k \in 1 .. Len(a) + Len(b) : (a \o b)[k] = IF k <= Len(a) THEN a[k] ELSE b[k - Len(a)]
  BY <1>1, Both
<1>3. /\ IsSeq(b \o c) /\ Len(b \o c) = Len(b) + Len(c)
      /\ \A k \in 1 .. Len(b) + Len(c) : (b \o c)[k] = IF k <= Len(b) THEN b[k] ELSE c[k - Len(b)]
  BY <1>1, Both
<1>4. PICK e : e = a \o b
  OBVIOUS
<1>5. PICK f : f = b \o c
  OBVIOUS
<1>6. /\ IsSeq(x) /\ Len(x) = Len(e) + Len(c)
      /\ \A k \in 1 .. Len(e) + Len(c) : x[k] = IF k <= Len(e) THEN e[k] ELSE c[k - Len(e)]
  BY <1>1, <1>2, <1>4, Both
<1>7. /\ IsSeq(y) /\ Len(y) = Len(a) + Len(f)
      /\ \A k \in 1 .. Len(a) + Len(f) : y[k] = IF k <= Len(a) THEN a[k] ELSE f[k - Len(a)]
  BY <1>1, <1>3, <1>5, Both
<1> HIDE DEF x, y
<1>8. Len(x) = Len(y) /\ \A k \in 1 .. Len(x) : x[k] = y[k]
  <2>1. Len(e) = Len(a) + Len(b) /\ Len(f) = Len(b) + Len(c)
    BY <1>2, <1>3, <1>4, <1>5
  <2>2. Len(x) = Len(y) /\ Len(x) = Len(a) + Len(b) + Len(c)
    BY <1>1, <1>6, <1>7, <2>1
  <2>3. ASSUME NEW k \in 1 .. Len(x) PROVE x[k] = y[k]
    <3>1. x[k] = (IF k <= Len(e) THEN e[k] ELSE c[k - Len(e)])
          /\ y[k] = IF k <= Len(a) THEN a[k] ELSE f[k - Len(a)]
      BY <1>1, <1>6, <1>7, <2>1, <2>2
    <3>2. k <= Len(e) => e[k] = IF k <= Len(a) THEN a[k] ELSE b[k - Len(a)]
      BY <1>1, <1>2, <1>4, <2>1, <2>2
    <3>3. k > Len(a) => f[k - Len(a)] = IF k - Len(a) <= Len(b) THEN b[k - Len(a)]
                                                         ELSE c[k - Len(a) - Len(b)]
      BY <1>1, <1>3, <1>5, <2>1, <2>2
    <3>4. k - Len(a) - Len(b) = k - Len(e)
      BY <1>1, <2>1, <2>2
    <3> QED
      BY <1>1, <2>1, <2>2, <3>1, <3>2, <3>3, <3>4
  <2> QED
    BY <2>2, <2>3
<1>9. x = y
  BY <1>6, <1>7, <1>8, Same
<1>10. a \o b \in Seq(U) /\ a \o <<>> = a /\ <<>> \o a = a
  OBVIOUS
<1> QED
  BY <1>9, <1>10 DEF x, y

\* flush_current keeps the text that is pending.
LEMMA FlushFacts ==
    ASSUME NEW d \in Documents, NEW p, NEW f, NEW ls, NEW n \in 1 .. Len(d) + 1,
           Building(d, f, ls, n), f = 0 => EndsAt(d, n),
           \A k \in 1 .. Len(ls) : EnclosingIn(d, ls[k]) = p,
           NEW bs \in Seq(BlocksOf(d, Under(d, p)))
    PROVE  /\ FlushedIn(d, bs, ls) \in Seq(BlocksOf(d, Under(d, p)))
           /\ BlocksText(d, FlushedIn(d, bs, ls)) = BlocksText(d, bs) \o TextIn(d, Pending(d, ls))
<1> DEFINE V == Under(d, p)
           L == LinesOf(d)
<1>0. V \in SUBSET L /\ ContentsOf(d) \in SUBSET L /\ L \in SUBSET L /\ Len(d) \in Nat
  BY UnderLines, DocumentFacts
<1>1. /\ ls \in Seq(Nat) /\ Len(ls) \in Nat /\ \A k \in 1 .. Len(ls) : ls[k] \in L /\ ~TitleIn(d, ls[k])
      /\ \A k \in 1 .. Len(ls) : ls[k] = (n - 1) - Len(ls) + k
  <2>1. ls \in Seq(Nat) /\ \A k \in 1 .. Len(ls) : ls[k] = (n - 1) - Len(ls) + k
    BY DEF Building, Run
  <2> QED
    BY <2>1 DEF Building
<1>2. ls \in Seq(L)
  BY <1>1, Within
<1>3. BlocksText(d, bs) \in Seq(Words(V)) /\ BlocksText(d, bs) \o <<>> = BlocksText(d, bs)
  <2>1. BlocksText(d, bs) \in Seq(Words(V))
    BY <1>0, BlocksFacts
  <2> QED
    BY <2>1
<1>4. TextIn(d, <<>>) = <<>>
  BY <1>0, <1>2, TextFacts
<1>5. CASE ls = <<>>
  <2>1. FlushedIn(d, bs, ls) = bs /\ Len(ls) = 0
    BY <1>5 DEF FlushedIn
  <2>2. Pending(d, ls) = <<>>
    BY <1>5, <2>1 DEF Pending
  <2> QED
    BY <1>3, <1>4, <2>1, <2>2
<1>6. CASE Len(ls) = 1 /\ KindOf(d, ls[1]) = "toc"
  <2>1. FlushedIn(d, bs, ls) = bs
    BY <1>6 DEF FlushedIn
  <2>2. f = 0
    BY <1>6 DEF Building
  <2>3. 1 \in 1 .. Len(ls) /\ ls[1] = n - 1 /\ n - Len(ls) = ls[1] /\ ls[1] + 1 = n
    <3>1. 1 \in 1 .. Len(ls) /\ n \in Nat
      BY <1>0, <1>6
    <3>2. ls[1] = (n - 1) - Len(ls) + 1
      BY <1>1, <3>1
    <3> QED
      BY <1>6, <3>1, <3>2
  <2>4. EndedBefore(d, ls[1]) /\ ~FencedIn(d)[ls[1]]
    BY <2>2, <2>3, Zenon DEF Building
  <2>5. EndsAt(d, ls[1] + 1)
    BY <2>2, <2>3
  <2>6. ls[1] \notin ContentsOf(d)
    BY <1>6, <2>4, <2>5, Zenon DEF ContentsOf, ContentsIn
  <2>7. Pending(d, ls) = <<>>
    BY <1>6, <2>6 DEF Pending
  <2> QED
    BY <1>3, <1>4, <2>1, <2>7
<1>7. CASE ls # <<>> /\ ~(Len(ls) = 1 /\ KindOf(d, ls[1]) = "toc")
  <2>0. 1 \in 1 .. Len(ls) /\ Len(ls) # 0
    BY <1>1, <1>7
  <2>1. \A k \in 1 .. Len(ls) : ls[k] \in ContentsOf(d)
    <3>1. CASE Len(ls) = 1
      <4>1. ls[1] \in ContentsOf(d)
        BY <1>1, <1>7, <2>0, <3>1, TextLine
      <4> QED
        BY <3>1, <4>1
    <3>2. CASE Len(ls) # 1
      BY <3>2, Zenon DEF Building
    <3> QED
      BY <3>1, <3>2
  <2>2. Pending(d, ls) = ls
    BY <1>2, <2>1, PendingRight
  <2>3. \A k \in 1 .. Len(ls) : ls[k] \in V
    BY <2>1 DEF Under
  <2>4. ls \in Seq(V)
    <3> HIDE DEF V
    <3> QED
      BY <1>1, <2>3, Within
  <2>5. KindOf(d, ls[1]) # "blank"
    <3>1. CASE f = 0
      BY <2>0, <3>1 DEF Building
    <3>2. CASE f # 0
      BY <3>2 DEF Building
    <3> QED
      BY <3>1, <3>2
  <2> DEFINE Z == {k \in DOMAIN ls : KindOf(d, ls[k]) # "blank"}
             m == Max(Z)
             b == [lines |-> SubSeq(ls, 1, m), kind |-> KindIn(d, ls[1])]
  <2>6. m \in 1 .. Len(ls) /\ KindOf(d, ls[m]) # "blank" /\ \A k \in m + 1 .. Len(ls) : KindOf(d, ls[k]) = "blank"
    <3>1. DOMAIN ls = 1 .. Len(ls)
      BY <1>1
    <3>2. Z \in SUBSET (0 .. Len(ls)) /\ Z # {}
      <4>1. 1 \in Z
        BY <2>0, <2>5, <3>1
      <4>2. Z \in SUBSET (1 .. Len(ls))
        BY <3>1
      <4>3. 1 .. Len(ls) \subseteq 0 .. Len(ls)
        BY <1>1
      <4> HIDE DEF Z
      <4> QED
        BY <4>1, <4>2, <4>3
    <3>3. m \in Z /\ \A y \in Z : m >= y
      <4> HIDE DEF Z
      <4> QED
        BY <1>1, <3>2, Greatest
    <3>4. m \in 1 .. Len(ls) /\ KindOf(d, ls[m]) # "blank"
      <4> HIDE DEF m
      <4> QED
        BY <3>1, <3>3
    <3>5. ASSUME NEW k \in m + 1 .. Len(ls), KindOf(d, ls[k]) # "blank" PROVE FALSE
      <4> HIDE DEF m
      <4>1. k \in 1 .. Len(ls) /\ k > m
        BY <1>1, <3>4
      <4>2. k \in Z
        BY <3>1, <3>5, <4>1
      <4>3. m >= k
        BY <3>3, <4>2
      <4> QED
        BY <1>1, <3>4, <4>1, <4>3
    <3> QED
      BY <3>4, <3>5
  <2>7. b.lines \in Seq(V) /\ b.lines # <<>> /\ KindOf(d, b.lines[Len(b.lines)]) # "blank"
    <3> HIDE DEF m, V
    <3>1. m \in Nat \ {0} /\ m <= Len(ls)
      BY <1>1, <2>6
    <3>2. SubSeq(ls, 1, m) \in Seq(V) /\ Len(SubSeq(ls, 1, m)) = m /\ SubSeq(ls, 1, m)[m] = ls[m]
      BY <1>1, <2>4, <3>1
    <3>3. SubSeq(ls, 1, m) # <<>>
      BY <3>1, <3>2
    <3>4. b.lines = SubSeq(ls, 1, m)
      OBVIOUS
    <3> QED
      BY <2>6, <3>2, <3>3, <3>4
  <2>8. b.kind \in {"code", "prose", "list"}
    <3>1. ls[1] \in L
      BY <1>1, <2>0
    <3>2. KindIn(d, ls[1]) \in {"code", "prose", "list"}
      BY <3>1, DocumentFacts DEF KindIn
    <3> QED
      BY <3>2
  <2>9. b \in BlocksOf(d, V)
    <3>1. b = [lines |-> b.lines, kind |-> b.kind]
      OBVIOUS
    <3> HIDE DEF b, V
    <3> QED
      BY <2>7, <2>8, <3>1 DEF BlocksOf
  <2>10. FlushedIn(d, bs, ls) = Append(bs, b)
    BY <1>7 DEF FlushedIn, StrippedIn
  <2>11. TextIn(d, b.lines) = TextIn(d, ls)
    <3>1. m \in 0 .. Len(ls)
      BY <1>1, <2>6
    <3>2. b.lines = SubSeq(ls, 1, m)
      OBVIOUS
    <3> HIDE DEF m, b
    <3>3. TextIn(d, SubSeq(ls, 1, m)) = TextIn(d, ls)
      BY <1>2, <2>6, <3>1, BlankEnd
    <3> QED
      BY <3>2, <3>3
  <2> HIDE DEF b, V
  <2>12. BlocksText(d, Append(bs, b)) = BlocksText(d, bs) \o TextIn(d, b.lines)
    BY <1>0, <2>9, BlocksFacts DEF V
  <2>13. Append(bs, b) \in Seq(BlocksOf(d, V))
    BY <2>9 DEF V
  <2> QED
    BY <2>2, <2>10, <2>11, <2>12, <2>13 DEF V
<1> QED
  BY <1>5, <1>6, <1>7

\* What BuildLine makes of line n.
Collects(d, n, f, ls, bs, g, ms, cs) ==
    \/ f # 0 /\ g # 0 /\ ms = Append(ls, n) /\ cs = bs
    \/ f # 0 /\ g = 0 /\ ms = <<>> /\ cs = Append(bs, [lines |-> Append(ls, n), kind |-> "code"])
    \/ f = 0 /\ KindOf(d, n) = "fence" /\ ms = <<n>> /\ cs = FlushedIn(d, bs, ls)
    \/ f = 0 /\ KindOf(d, n) = "blank" /\ ms = <<>> /\ cs = FlushedIn(d, bs, ls)
    \/ f = 0 /\ KindOf(d, n) # "fence" /\ KindOf(d, n) # "blank" /\ ms = Append(ls, n) /\ cs = bs

LEMMA LinesCollected ==
    ASSUME NEW d \in Documents, NEW n \in LinesOf(d), NEW f, NEW ls, Building(d, f, ls, n)
    PROVE  /\ ls \in Seq(LinesOf(d)) /\ Run(ls, n - 1) /\ n \in Nat \ {0}
           /\ Len(ls) \in Nat /\ \A k \in 1 .. Len(ls) : ls[k] \in LinesOf(d) /\ ~TitleIn(d, ls[k])
           /\ f # 0 => /\ FencedIn(d)[n] /\ ls # <<>>
                       /\ \A k \in 1 .. Len(ls) : ls[k] \in ContentsOf(d)
           /\ f = 0 => ~FencedIn(d)[n]
           /\ Open(d, FenceNext(d, n, f), n + 1)
<1>1. n \in Nat \ {0}
  BY DocumentFacts DEF LinesOf
<1>2. ls \in Seq(Nat) /\ Run(ls, n - 1) /\ Len(ls) \in Nat
  BY DEF Building, Run
<1>3. \A k \in 1 .. Len(ls) : ls[k] \in LinesOf(d) /\ ~TitleIn(d, ls[k])
  BY Zenon DEF Building
<1>4. ls \in Seq(LinesOf(d))
  BY <1>2, <1>3, Within
<1>5. /\ FencedIn(d)[n] <=> f # 0
      /\ Open(d, FenceNext(d, n, f), n + 1)
  BY OpenFacts, Zenon DEF Building
<1>6. ASSUME f # 0 PROVE ls # <<>> /\ \A k \in 1 .. Len(ls) : ls[k] \in ContentsOf(d)
  <2>1. ls # <<>> /\ KindOf(d, ls[1]) = "fence"
    BY <1>6 DEF Building
  <2>2. 1 \in 1 .. Len(ls)
    BY <1>2, <2>1
  <2>3. ls[1] \in ContentsOf(d)
    BY <1>3, <2>1, <2>2, TextLine
  <2>4. CASE Len(ls) = 1
    BY <2>1, <2>3, <2>4
  <2>5. CASE Len(ls) # 1
    BY <2>1, <2>5, Zenon DEF Building
  <2> QED
    BY <2>4, <2>5
<1> QED
  BY <1>1, <1>2, <1>3, <1>4, <1>5, <1>6, Zenon

\* The step within a paragraph or a fence.
LEMMA OneMore ==
    ASSUME NEW d \in Documents, NEW n \in LinesOf(d), ~TitleIn(d, n), NEW f, NEW ls,
           Building(d, f, ls, n), NEW g, g = FenceNext(d, n, f),
           \/ f # 0 /\ g # 0
           \/ f = 0 /\ KindOf(d, n) # "fence" /\ KindOf(d, n) # "blank"
    PROVE  /\ Building(d, g, Append(ls, n), n + 1)
           /\ TextIn(d, Pending(d, Append(ls, n))) = TextIn(d, Pending(d, ls)) \o Share(d, n)
<1> DEFINE L == LinesOf(d)
           C == ContentsOf(d)
           a == Append(ls, n)
<1>0. L \in SUBSET L /\ C \in SUBSET L /\ Len(d) \in Nat
  BY UnderLines, DocumentFacts
<1>1. /\ ls \in Seq(L) /\ Run(ls, n - 1) /\ n \in Nat \ {0}
      /\ Len(ls) \in Nat /\ \A k \in 1 .. Len(ls) : ls[k] \in L /\ ~TitleIn(d, ls[k])
      /\ f # 0 => FencedIn(d)[n] /\ ls # <<>> /\ \A k \in 1 .. Len(ls) : ls[k] \in C
      /\ f = 0 => ~FencedIn(d)[n]
      /\ Open(d, g, n + 1)
  BY LinesCollected, Zenon
<1>2. f = 0 <=> g = 0
  BY DEF FenceNext
<1>3. /\ Run(a, n) /\ a # <<>> /\ Len(a) = Len(ls) + 1
      /\ a[Len(ls) + 1] = n
      /\ \A k \in 1 .. Len(ls) : a[k] = ls[k]
      /\ \A k \in 1 .. Len(ls) + 1 : k \in 1 .. Len(ls) \/ k = Len(ls) + 1
  BY <1>1, RunOn
<1>4. a \in Seq(L)
  BY <1>1
<1> HIDE DEF a
\* A paragraph of more than one line is text.
<1>5. ls # <<>> => n \in C /\ \A k \in 1 .. Len(ls) : ls[k] \in C
  <2> SUFFICES ASSUME ls # <<>> PROVE n \in C /\ \A k \in 1 .. Len(ls) : ls[k] \in C
    OBVIOUS
  <2>1. CASE f # 0
    <3>1. FencedIn(d)[n] /\ \A k \in 1 .. Len(ls) : ls[k] \in C
      BY <1>1, <2>1
    <3>2. n \in C
      BY <3>1, TextLine
    <3> QED
      BY <3>1, <3>2
  <2>2. CASE f = 0
    <3>1. Len(ls) \in 1 .. Len(ls) /\ Len(ls) # 0
      BY <1>1
    <3>2. ls[Len(ls)] = n - 1
      <4>1. ls[Len(ls)] = (n - 1) - Len(ls) + Len(ls)
        BY <1>1, <3>1 DEF Run
      <4> QED
        BY <1>1, <4>1
    <3>3. /\ n - 1 \in L /\ ~TitleIn(d, n - 1) /\ ~FencedIn(d)[n - 1]
          /\ KindOf(d, n - 1) \notin {"blank", "fence"}
      BY <1>1, <2>2, <3>1, <3>2 DEF Building
    <3>4. n # 1
      BY <3>3 DEF LinesOf
    <3>5. ~EndedBefore(d, n)
      BY <3>3, <3>4, Zenon DEF EndedBefore
    <3>6. n \in C
      BY <3>5, TextLine
    <3>7. \A k \in 1 .. Len(ls) : ls[k] \in C
      <4>1. CASE Len(ls) = 1
        <5>1. n # Len(d) + 1 /\ (n - 1) + 1 = n
          BY <1>0, <1>1 DEF LinesOf
        <5>2. ~EndsAt(d, n)
          BY <1>2, <2>2, <5>1, Zenon DEF EndsAt
        <5>3. n - 1 \in C
          BY <3>3, <5>1, <5>2, TextLine
        <5> QED
          BY <3>2, <4>1, <5>3
      <4>2. CASE Len(ls) # 1
        BY <4>2, Zenon DEF Building
      <4> QED
        BY <4>1, <4>2
    <3> QED
      BY <3>6, <3>7
  <2> QED
    BY <2>1, <2>2
<1>6. TextIn(d, Pending(d, a)) = TextIn(d, Pending(d, ls)) \o Share(d, n)
  <2>1. TextIn(d, a) = TextIn(d, ls) \o UnitsIn(d, n)
    BY <1>0, <1>1, TextFacts DEF a
  <2>2. CASE ls # <<>>
    <3>1. \A k \in 1 .. Len(a) : a[k] \in C
      BY <1>3, <1>5, <2>2
    <3>2. Pending(d, a) = a
      BY <1>4, <3>1, PendingRight
    <3>3. Pending(d, ls) = ls
      BY <1>1, <1>5, <2>2, PendingRight
    <3>4. Share(d, n) = UnitsIn(d, n)
      BY <1>5, <2>2 DEF Share
    <3> QED
      BY <2>1, <3>2, <3>3, <3>4
  <2>3. CASE ls = <<>>
    <3>1. Len(ls) = 0 /\ Pending(d, ls) = <<>>
      BY <2>3 DEF Pending
    <3>2. Len(a) = 1 /\ a[1] = n
      BY <1>3, <3>1
    <3>3. TextIn(d, <<>>) = <<>>
      BY <1>0, <1>1, TextFacts
    <3>4. UnitsIn(d, n) \in Seq(Words(L))
      BY <1>0, UnitsFacts
    <3>5. <<>> \o UnitsIn(d, n) = UnitsIn(d, n) /\ <<>> \o <<>> = <<>>
      <4>1. <<>> \in Seq(Words(L))
        OBVIOUS
      <4> QED
        BY <3>4, <4>1, Thrice
    <3>6. CASE n \in C
      <4>1. Pending(d, a) = a /\ Share(d, n) = UnitsIn(d, n)
        BY <3>2, <3>6 DEF Pending, Share
      <4> QED
        BY <2>1, <2>3, <3>1, <3>3, <4>1
    <3>7. CASE n \notin C
      <4>1. Pending(d, a) = <<>> /\ Share(d, n) = <<>>
        BY <3>2, <3>7 DEF Pending, Share
      <4> QED
        BY <3>1, <3>3, <3>5, <4>1
    <3> QED
      BY <3>6, <3>7
  <2> QED
    BY <2>2, <2>3
<1>7. (n + 1) - 1 = n /\ (n + 1) - Len(a) = n - Len(ls)
  BY <1>1, <1>3
<1>8. \A k \in 1 .. Len(a) : a[k] \in L /\ ~TitleIn(d, a[k])
  BY <1>1, <1>3
<1>9. g = 0 => /\ EndedBefore(d, n - Len(ls))
               /\ \A k \in 1 .. Len(a) : /\ KindOf(d, a[k]) \notin {"blank", "fence"}
                                         /\ ~FencedIn(d)[a[k]]
  <2> SUFFICES ASSUME g = 0
               PROVE  /\ EndedBefore(d, n - Len(ls))
                      /\ \A k \in 1 .. Len(a) : /\ KindOf(d, a[k]) \notin {"blank", "fence"}
                                                /\ ~FencedIn(d)[a[k]]
    OBVIOUS
  <2>1. EndedBefore(d, n - Len(ls))
    BY <1>2, Zenon DEF Building
  <2>2. \A k \in 1 .. Len(ls) : KindOf(d, ls[k]) \notin {"blank", "fence"} /\ ~FencedIn(d)[ls[k]]
    BY <1>2, Zenon DEF Building
  <2>3. KindOf(d, n) \notin {"blank", "fence"} /\ ~FencedIn(d)[n]
    BY <1>1, <1>2
  <2>4. ASSUME NEW k \in 1 .. Len(a)
        PROVE  KindOf(d, a[k]) \notin {"blank", "fence"} /\ ~FencedIn(d)[a[k]]
    <3>1. k \in 1 .. Len(ls) \/ k = Len(ls) + 1
      BY <1>3
    <3>2. CASE k \in 1 .. Len(ls)
      <4>1. a[k] = ls[k]
        BY <1>3, <3>2
      <4> QED
        BY <2>2, <3>2, <4>1, Zenon
    <3>3. CASE k = Len(ls) + 1
      <4>1. a[k] = n
        BY <1>3, <3>3
      <4> QED
        BY <2>3, <4>1, Zenon
    <3> QED
      BY <3>1, <3>2, <3>3
  <2> QED
    BY <2>1, <2>4
<1>10. g # 0 => a # <<>> /\ KindOf(d, a[1]) = "fence"
  <2> SUFFICES ASSUME g # 0 PROVE KindOf(d, a[1]) = "fence"
    BY <1>3
  <2>1. ls # <<>> /\ KindOf(d, ls[1]) = "fence"
    BY <1>2 DEF Building
  <2>2. 1 \in 1 .. Len(ls)
    BY <1>1, <2>1
  <2> QED
    BY <1>3, <2>1, <2>2
<1>11. Len(a) # 1 => \A k \in 1 .. Len(a) : a[k] \in C
  <2> SUFFICES ASSUME Len(a) # 1 PROVE \A k \in 1 .. Len(a) : a[k] \in C
    OBVIOUS
  <2>1. ls # <<>>
    <3>1. Len(ls) # 0
      BY <1>1, <1>3
    <3> QED
      BY <3>1
  <2> QED
    BY <1>3, <1>5, <2>1
<1>12. Building(d, g, a, n + 1)
  BY <1>1, <1>3, <1>7, <1>8, <1>9, <1>10, <1>11, Zenon DEF Building
<1> QED
  BY <1>6, <1>12 DEF a

\* A step starts with nothing or with one line that is text.
LEMMA StartAgain ==
    ASSUME NEW d \in Documents, NEW n \in LinesOf(d), NEW f, NEW ls,
           Building(d, f, ls, n), ~TitleIn(d, n), NEW g, g = FenceNext(d, n, f)
    PROVE  /\ g = 0 /\ (f # 0 \/ KindOf(d, n) = "blank") => Building(d, 0, <<>>, n + 1)
           /\ f = 0 /\ KindOf(d, n) = "fence" => Building(d, g, <<n>>, n + 1)
           /\ f # 0 \/ KindOf(d, n) \in {"blank", "fence"} => n \in ContentsOf(d)
           /\ f = 0 /\ KindOf(d, n) \in {"blank", "fence"} => EndsAt(d, n)
           /\ TextIn(d, Pending(d, <<>>)) = <<>>
           /\ n \in ContentsOf(d) => TextIn(d, Pending(d, <<n>>)) = UnitsIn(d, n)
<1> DEFINE C == ContentsOf(d)
<1>1. /\ n \in Nat \ {0} /\ Open(d, g, n + 1)
      /\ f # 0 => FencedIn(d)[n]
      /\ f = 0 => ~FencedIn(d)[n]
  BY LinesCollected, Zenon
<1>2. (n + 1) - 1 = n /\ (n + 1) - 0 = n + 1 /\ (n + 1) - 1 = n /\ n # 0
  BY <1>1
<1>3. f # 0 \/ KindOf(d, n) \in {"blank", "fence"} => n \in C
  BY <1>1, TextLine
<1>4. ASSUME g = 0, f # 0 \/ KindOf(d, n) = "blank" PROVE Building(d, 0, <<>>, n + 1)
  <2>1. Run(<<>>, n) /\ Len(<<>>) = 0
    BY <1>1 DEF Run
  <2>2. EndedBefore(d, n + 1)
    BY <1>1, <1>2, <1>4, Zenon DEF EndedBefore
  <2>3. PICK e : e = <<>>
    OBVIOUS
  <2>4. Run(e, n) /\ Len(e) = 0 /\ (\A k \in 1 .. Len(e) : FALSE) /\ Len(e) # 1 /\ (n + 1) - Len(e) = n + 1
    BY <1>1, <2>1, <2>3
  <2>5. Building(d, 0, e, n + 1)
    BY <1>1, <1>2, <1>4, <2>2, <2>4, Zenon DEF Building
  <2> QED
    BY <2>3, <2>5
<1>5. ASSUME f = 0, KindOf(d, n) = "fence" PROVE Building(d, g, <<n>>, n + 1)
  <2>1. PICK e : e = <<n>>
    OBVIOUS
  <2>2. /\ Run(e, n) /\ Len(e) = 1 /\ e # <<>> /\ e[1] = n
        /\ \A k \in 1 .. Len(e) : e[k] = n
    BY <1>1, <2>1 DEF Run
  <2>3. g # 0
    BY <1>2, <1>5 DEF FenceNext
  <2>4. \A k \in 1 .. Len(e) : e[k] \in LinesOf(d) /\ ~TitleIn(d, e[k])
    BY <2>2
  <2>5. Building(d, g, e, n + 1)
    BY <1>1, <1>2, <1>5, <2>2, <2>3, <2>4, Zenon DEF Building
  <2> QED
    BY <2>1, <2>5
<1>6. f = 0 /\ KindOf(d, n) \in {"blank", "fence"} => EndsAt(d, n)
  BY DEF EndsAt
<1>7. TextIn(d, <<>>) = <<>> /\ TextIn(d, <<n>>) = UnitsIn(d, n)
  <2>1. <<>> \in Seq(LinesOf(d)) /\ LinesOf(d) \in SUBSET LinesOf(d)
    OBVIOUS
  <2> QED
    BY <2>1, TextFacts
<1>8. TextIn(d, Pending(d, <<>>)) = <<>>
  <2>1. Pending(d, <<>>) = <<>>
    BY DEF Pending
  <2> QED
    BY <1>7, <2>1
<1>9. n \in C => TextIn(d, Pending(d, <<n>>)) = UnitsIn(d, n)
  <2> SUFFICES ASSUME n \in C PROVE TextIn(d, Pending(d, <<n>>)) = UnitsIn(d, n)
    OBVIOUS
  <2>1. Pending(d, <<n>>) = <<n>>
    BY DEF Pending
  <2> QED
    BY <1>7, <2>1
<1>10. n \in C <=> n \in ContentsOf(d)
  OBVIOUS
<1> HIDE DEF C
<1>11. g = 0 /\ (f # 0 \/ KindOf(d, n) = "blank") => Building(d, 0, <<>>, n + 1)
  BY <1>4
<1>12. f = 0 /\ KindOf(d, n) = "fence" => Building(d, g, <<n>>, n + 1)
  BY <1>5
<1> QED
  BY <1>3, <1>6, <1>8, <1>9, <1>10, <1>11, <1>12, Zenon

\* A line of _build_blocks: its text is pending or in a block.
LEMMA CollectStep ==
    ASSUME NEW d \in Documents, NEW n \in LinesOf(d), ~TitleIn(d, n),
           NEW f, NEW ls, Building(d, f, ls, n),
           NEW p, EnclosingIn(d, n) = p, \A k \in 1 .. Len(ls) : EnclosingIn(d, ls[k]) = p,
           NEW bs \in Seq(BlocksOf(d, Under(d, p))),
           NEW g, g = FenceNext(d, n, f), NEW ms, NEW cs, Collects(d, n, f, ls, bs, g, ms, cs)
    PROVE  /\ Building(d, g, ms, n + 1)
           /\ cs \in Seq(BlocksOf(d, Under(d, p)))
           /\ BlocksText(d, cs) \o TextIn(d, Pending(d, ms))
                 = (BlocksText(d, bs) \o TextIn(d, Pending(d, ls))) \o Share(d, n)
<1> DEFINE V == Under(d, p)
           L == LinesOf(d)
           W == Words(L)
           B == BlocksText(d, bs)
           P == TextIn(d, Pending(d, ls))
           S == Share(d, n)
           X == UnitsIn(d, n)
<1>0. V \in SUBSET L /\ L \in SUBSET L /\ ContentsOf(d) \in SUBSET L
  BY UnderLines
<1>1. /\ ls \in Seq(L) /\ Len(ls) \in Nat /\ n \in Nat \ {0} /\ Run(ls, n - 1)
      /\ \A k \in 1 .. Len(ls) : ls[k] \in L /\ ~TitleIn(d, ls[k])
      /\ f # 0 => FencedIn(d)[n] /\ ls # <<>> /\ \A k \in 1 .. Len(ls) : ls[k] \in ContentsOf(d)
  BY LinesCollected, Zenon
<1>2. B \in Seq(W) /\ P \in Seq(W) /\ X \in Seq(W) /\ S \in Seq(W)
  <2>1. B \in Seq(W)
    <3>1. B \in Seq(Words(V))
      BY <1>0, BlocksFacts
    <3> QED
      BY <1>0, <3>1, Wider
  <2>2. P \in Seq(W)
    <3>1. Pending(d, ls) \in Seq(L)
      <4>1. <<>> \in Seq(L)
        OBVIOUS
      <4> QED
        BY <1>1, <4>1 DEF Pending
    <3> QED
      BY <1>0, <3>1, TextFacts
  <2>3. X \in Seq(W)
    BY <1>0, UnitsFacts
  <2>4. <<>> \in Seq(W)
    OBVIOUS
  <2> QED
    BY <2>1, <2>2, <2>3, <2>4 DEF Share
<1>3. n \in 1 .. Len(d) + 1
  <2>1. Len(d) \in Nat
    BY DocumentFacts
  <2> QED
    BY <2>1 DEF LinesOf
<1>4. (B \o P) \o S = B \o (P \o S) /\ B \o <<>> = B /\ B \o P \in Seq(W) /\ (B \o P) \o <<>> = B \o P
  <2> HIDE DEF B, P, S, W
  <2>1. (B \o P) \o S = B \o (P \o S) /\ B \o <<>> = B /\ B \o P \in Seq(W)
    BY <1>2, Thrice
  <2>2. PICK e : e = B \o P
    OBVIOUS
  <2>3. e \o <<>> = e
    BY <1>2, <2>1, <2>2, Thrice
  <2> QED
    BY <2>1, <2>2, <2>3
<1>5. n \in ContentsOf(d) => S = X
  BY DEF Share
<1>6. CASE ms = Append(ls, n) /\ cs = bs
           /\ \/ f # 0 /\ g # 0
              \/ f = 0 /\ KindOf(d, n) # "fence" /\ KindOf(d, n) # "blank"
  <2>1. Building(d, g, ms, n + 1) /\ TextIn(d, Pending(d, ms)) = P \o S
    BY <1>6, OneMore
  <2>2. BlocksText(d, cs) = B /\ cs \in Seq(BlocksOf(d, V))
    BY <1>6
  <2> HIDE DEF B, P, S, V
  <2>3. BlocksText(d, cs) \o TextIn(d, Pending(d, ms)) = (B \o P) \o S
    BY <1>4, <2>1, <2>2
  <2> QED
    BY <2>1, <2>2, <2>3 DEF B, P, S, V
<1>7. CASE f # 0 /\ g = 0 /\ ms = <<>> /\ cs = Append(bs, [lines |-> Append(ls, n), kind |-> "code"])
  <2> DEFINE a == Append(ls, n)
             b == [lines |-> a, kind |-> "code"]
  <2>1. /\ Building(d, g, ms, n + 1) /\ TextIn(d, Pending(d, ms)) = <<>>
        /\ n \in ContentsOf(d)
    <3>1. /\ Building(d, 0, <<>>, n + 1) /\ TextIn(d, Pending(d, <<>>)) = <<>>
          /\ n \in ContentsOf(d)
      <4>1. /\ g = 0 /\ (f # 0 \/ KindOf(d, n) = "blank") => Building(d, 0, <<>>, n + 1)
            /\ f # 0 \/ KindOf(d, n) \in {"blank", "fence"} => n \in ContentsOf(d)
            /\ TextIn(d, Pending(d, <<>>)) = <<>>
        BY StartAgain, Zenon
      <4> QED
        BY <1>7, <4>1, Zenon
    <3> QED
      BY <1>7, <3>1, Zenon
  <2>2. n \in V /\ \A k \in 1 .. Len(ls) : ls[k] \in V
    BY <1>1, <1>7, <2>1 DEF Under
  <2>3. ls \in Seq(V)
    <3> HIDE DEF V
    <3> QED
      BY <1>1, <2>2, Within
  <2>4. KindOf(d, n) = "fence"
    BY <1>1, <1>7 DEF FenceNext, ClosesIn, KindOf
  <2>5. a \in Seq(V) /\ a # <<>> /\ a[Len(a)] = n
    <3> HIDE DEF V
    <3> QED
      BY <2>2, <2>3
  <2>6. b \in BlocksOf(d, V)
    <3>1. b.lines = a /\ b.kind = "code" /\ b = [lines |-> a, kind |-> "code"]
      OBVIOUS
    <3> HIDE DEF V, a
    <3> QED
      BY <2>4, <2>5, <3>1 DEF BlocksOf
  <2>7. BlocksText(d, cs) = B \o TextIn(d, b.lines) /\ cs \in Seq(BlocksOf(d, V))
    <3> HIDE DEF b
    <3>1. BlocksText(d, Append(bs, b)) = B \o TextIn(d, b.lines)
      BY <1>0, <2>6, BlocksFacts
    <3>2. Append(bs, b) \in Seq(BlocksOf(d, V))
      BY <2>6
    <3> QED
      BY <1>7, <3>1, <3>2 DEF b
  <2>8. Pending(d, ls) = ls
    BY <1>1, <1>7, PendingRight
  <2>9. TextIn(d, b.lines) = P \o S
    <3>1. TextIn(d, a) = TextIn(d, ls) \o X
      BY <1>0, <1>1, TextFacts
    <3> QED
      BY <1>5, <2>1, <2>8, <3>1
  <2>10. B \o (P \o S) \in Seq(W) /\ (B \o (P \o S)) \o <<>> = B \o (P \o S)
    <3> HIDE DEF B, P, S, W
    <3>1. P \o S \in Seq(W)
      BY <1>2, Thrice
    <3>2. PICK e : e = P \o S
      OBVIOUS
    <3>3. B \o e \in Seq(W)
      BY <1>2, <3>1, <3>2, Thrice
    <3>4. PICK c : c = B \o e
      OBVIOUS
    <3>5. c \o <<>> = c
      BY <1>2, <3>3, <3>4, Thrice
    <3> QED
      BY <3>2, <3>3, <3>4, <3>5
  <2> HIDE DEF B, P, S, V, b
  <2>11. BlocksText(d, cs) \o TextIn(d, Pending(d, ms)) = (B \o P) \o S
    BY <1>4, <2>1, <2>7, <2>9, <2>10
  <2> QED
    BY <2>1, <2>7, <2>11 DEF B, P, S, V
<1>8. CASE f = 0 /\ KindOf(d, n) \in {"blank", "fence"} /\ cs = FlushedIn(d, bs, ls)
           /\ ms = IF KindOf(d, n) = "fence" THEN <<n>> ELSE <<>>
  <2>1. n \in ContentsOf(d) /\ EndsAt(d, n) /\ TextIn(d, Pending(d, <<>>)) = <<>>
        /\ TextIn(d, Pending(d, <<n>>)) = X
    BY <1>8, StartAgain
  <2>2. /\ cs \in Seq(BlocksOf(d, V))
        /\ BlocksText(d, cs) = B \o P
    BY <1>3, <1>8, <2>1, FlushFacts
  <2>3. Building(d, g, ms, n + 1)
    <3>1. CASE KindOf(d, n) = "fence"
      BY <1>8, <3>1, StartAgain
    <3>2. CASE KindOf(d, n) = "blank"
      <4>1. g = 0
        BY <1>8, <3>2 DEF FenceNext
      <4>2. Building(d, 0, <<>>, n + 1)
        BY <3>2, <4>1, StartAgain
      <4> QED
        BY <1>8, <3>2, <4>1, <4>2
    <3> QED
      BY <1>8, <3>1, <3>2
  <2>4. TextIn(d, Pending(d, ms)) = S
    <3>1. CASE KindOf(d, n) = "fence"
      BY <1>5, <1>8, <2>1, <3>1
    <3>2. CASE KindOf(d, n) = "blank"
      <4>1. X = <<>>
        BY <1>0, <3>2, UnitsFacts
      <4> QED
        BY <1>5, <1>8, <2>1, <3>2, <4>1
    <3> QED
      BY <1>8, <3>1, <3>2
  <2> HIDE DEF B, P, S, V
  <2>5. BlocksText(d, cs) \o TextIn(d, Pending(d, ms)) = (B \o P) \o S
    BY <2>2, <2>4
  <2> QED
    BY <2>2, <2>3, <2>5 DEF B, P, S, V
<1>9. \/ ms = Append(ls, n) /\ cs = bs
         /\ \/ f # 0 /\ g # 0
            \/ f = 0 /\ KindOf(d, n) # "fence" /\ KindOf(d, n) # "blank"
      \/ f # 0 /\ g = 0 /\ ms = <<>> /\ cs = Append(bs, [lines |-> Append(ls, n), kind |-> "code"])
      \/ f = 0 /\ KindOf(d, n) \in {"blank", "fence"} /\ cs = FlushedIn(d, bs, ls)
         /\ ms = IF KindOf(d, n) = "fence" THEN <<n>> ELSE <<>>
  <2>1. CASE f = 0 /\ KindOf(d, n) = "blank" /\ ms = <<>> /\ cs = FlushedIn(d, bs, ls)
    BY <2>1
  <2>2. CASE f = 0 /\ KindOf(d, n) = "fence" /\ ms = <<n>> /\ cs = FlushedIn(d, bs, ls)
    BY <2>2
  <2>3. CASE f # 0 /\ g # 0 /\ ms = Append(ls, n) /\ cs = bs
    BY <2>3
  <2>4. CASE f = 0 /\ KindOf(d, n) # "fence" /\ KindOf(d, n) # "blank" /\ ms = Append(ls, n) /\ cs = bs
    BY <2>4
  <2> QED
    BY <2>1, <2>2, <2>3, <2>4 DEF Collects
<1> QED
  BY <1>6, <1>7, <1>8, <1>9, Zenon

-----------------------------------------------------------------------------
(* The text while sections are parsed.                                     *)

LEMMA EnclosingType ==
    ASSUME NEW d \in Documents, NEW l \in 1 .. Len(d) + 1
    PROVE  EnclosingIn(d, l) \in Seq(LinesOf(d))
<1>1. Len(d) \in Nat /\ l - 1 \in Nat
  <2>1. Len(d) \in Nat
    BY DocumentFacts
  <2> QED
    BY <2>1
<1>2. Lists(EnclosingIn(d, l), l - 1, Above(d, l))
  BY <1>1, AmongLists DEF EnclosingIn
<1> DEFINE q == EnclosingIn(d, l)
           L == LinesOf(d)
<1> HIDE DEF q
<1>3. q \in Seq(Nat) /\ \A k \in 1 .. Len(q) : q[k] \in 1 .. l - 1
  BY <1>2, Zenon DEF Lists, q
<1>4. \A x \in 1 .. l - 1 : x \in L
  BY <1>1 DEF LinesOf
<1>5. \A k \in 1 .. Len(q) : q[k] \in L
  BY <1>3, <1>4
<1> HIDE DEF L
<1>6. q \in Seq(L)
  BY <1>3, <1>5, Within
<1> QED
  BY <1>6 DEF q, L

Parses == phase \in {"read", "build"}

\* The headings over the lines of the blocks.
Place == IF Parses THEN path ELSE Here

\* The next line that _build_blocks reads, and the first it has still to put
\* into a block.
Turn == line - Len(buffer)
Start == Turn - Len(current)

ChunksOf(d) == UNION {
    [path : {p}, parts : Seq(Seq(Words(Under(d, p)))) \ {<<>>}, order : Nat,
     previous : Nat \cup {NoLink}, next : Nat \cup {NoLink}] : p \in Seq(LinesOf(d))}

\* The text of a block, a part or a chunk is of lines under its headings.
Fields ==
    /\ doc \in Documents /\ phase \in Phases
    /\ line \in 1 .. Len(doc) + 1 /\ fence \in 0 .. Len(doc) /\ inner \in 0 .. Len(doc)
    /\ path \in Seq(LinesOf(doc)) /\ buffer \in Seq(LinesOf(doc)) /\ current \in Seq(LinesOf(doc))
    /\ sections \in Seq(SectionsOf(doc))
    /\ blocks \in Seq(BlocksOf(doc, Under(doc, Place)))
    /\ pieces \in Seq(Seq(Words(Under(doc, Here)))) /\ open \in Seq(Seq(Words(Under(doc, Here))))
    /\ items \in Seq(Seq(Words(Under(doc, Here)))) /\ parts \in Seq(Seq(Words(Under(doc, Here))))
    /\ packed \in Seq(Seq(Words(Under(doc, Here))))
    /\ fresh \in Seq(ChunksOf(doc)) /\ chunks \in Seq(ChunksOf(doc))

\* What is empty when.
Idle ==
    /\ phase \notin {"group", "refused"} => pieces = <<>> /\ open = <<>>
    /\ phase \notin {"group", "cut", "refused"} => items = <<>>
    /\ phase \notin {"pack", "refused"} => packed = <<>> /\ fresh = <<>>
    /\ phase \in {"read", "build", "section", "done"} => parts = <<>>
    /\ phase \in {"read", "section", "pack", "done"} => blocks = <<>>
    /\ Parses => chunks = <<>>
    /\ InSection => sections # <<>>
    /\ phase = "group" => blocks # <<>>
    /\ phase = "done" => sections = <<>>

\* Where the parser is: the lines that it has passed and not put into a block
\* are all under the present headings.
Scanned ==
    /\ Run(buffer, line - 1) /\ Open(doc, fence, line) /\ path = EnclosingIn(doc, line)
    /\ \A l \in Start .. line : EnclosingIn(doc, l) = path
    /\ \A l \in Start .. line - 1 : ~TitleIn(doc, l)
    /\ phase = "read" =>
          /\ inner = 0 /\ current = <<>>
          /\ \/ buffer = <<>> /\ (AtHeading \/ AtEnd)
             \/ EndedBefore(doc, Turn) /\ Open(doc, 0, Turn)
    /\ phase = "build" => Building(doc, inner, current, Turn) /\ (AtHeading \/ AtEnd)

\* The text of the lines passed is in the sections, in the blocks, or pending.
Filed == SectionsText(doc, sections) \o (BlocksText(doc, blocks) \o TextIn(doc, Pending(doc, current)))
            = Covered(doc, Turn - 1)

PInv == Fields /\ Idle /\ (Parses => Scanned /\ Filed)

LEMMA ScanFacts ==
    ASSUME PInv, Parses
    PROVE  /\ doc \in Documents /\ Len(doc) \in Nat /\ line \in Nat \ {0} /\ line <= Len(doc) + 1
           /\ DOMAIN doc = LinesOf(doc) /\ LinesOf(doc) = 1 .. Len(doc)
           /\ Len(buffer) \in Nat /\ Turn \in Nat \ {0} /\ Turn <= line
           /\ buffer = <<>> => Turn = line
           /\ Len(current) \in Nat /\ Start \in Nat \ {0} /\ Start <= Turn
           /\ current = <<>> => Start = Turn
<1>1. doc \in Documents /\ Len(doc) \in Nat /\ DOMAIN doc = LinesOf(doc) /\ LinesOf(doc) = 1 .. Len(doc)
  BY DocumentFacts DEF PInv, Fields, LinesOf
<1>2. line \in Nat \ {0} /\ line <= Len(doc) + 1
  BY <1>1 DEF PInv, Fields
<1>3. Len(buffer) \in Nat /\ Len(buffer) <= line - 1 /\ (buffer = <<>> => Len(buffer) = 0)
  BY DEF PInv, Scanned, Run
<1>4. Turn \in Nat \ {0} /\ Turn <= line /\ (buffer = <<>> => Turn = line)
  BY <1>2, <1>3 DEF Turn
<1>5. Len(current) \in Nat /\ (current = <<>> => Len(current) = 0)
  BY DEF PInv, Fields
<1>6. Len(current) <= Turn - 1
  <2>1. CASE phase = "read"
    BY <1>4, <1>5, <2>1 DEF PInv, Scanned
  <2>2. CASE phase = "build"
    BY <2>2 DEF PInv, Scanned, Building, Run
  <2> QED
    BY <2>1, <2>2 DEF Parses
<1>7. Start \in Nat \ {0} /\ Start <= Turn /\ (current = <<>> => Start = Turn)
  BY <1>4, <1>5, <1>6 DEF Start
<1> QED
  BY <1>1, <1>2, <1>3, <1>4, <1>5, <1>7

LEMMA ScanInit ==
    ASSUME Init
    PROVE  PInv
<1>1. /\ doc \in Documents /\ phase = "read" /\ line = 1 /\ fence = 0 /\ inner = 0
      /\ path = <<>> /\ buffer = <<>> /\ current = <<>> /\ blocks = <<>> /\ sections = <<>>
      /\ pieces = <<>> /\ open = <<>> /\ items = <<>> /\ parts = <<>> /\ packed = <<>> /\ fresh = <<>>
      /\ chunks = <<>>
  BY DEF Init
<1>2. Len(doc) \in Nat /\ Len(<<>>) = 0 /\ \A U : <<>> \in Seq(U)
  BY <1>1, DocumentFacts
<1>3. Fields
  BY <1>1, <1>2 DEF Fields, Phases
<1>4. Idle
  BY <1>1 DEF Idle, Parses, InSection
<1>5. Turn = 1 /\ Start = 1
  BY <1>1, <1>2 DEF Turn, Start
<1>6. Run(buffer, line - 1)
  BY <1>1, <1>2 DEF Run
<1>7. Open(doc, 0, 1) /\ EndedBefore(doc, 1)
  BY DEF Open, EndedBefore, FencedAt
<1>8. EnclosingIn(doc, 1) = <<>>
  BY AmongStep DEF EnclosingIn
<1>9. Scanned
  <2>1. \A l \in Start .. line : EnclosingIn(doc, l) = path
    BY <1>1, <1>5, <1>8
  <2>2. \A l \in Start .. line - 1 : ~TitleIn(doc, l)
    BY <1>1, <1>5
  <2> QED
    BY <1>1, <1>5, <1>6, <1>7, <1>8, <2>1, <2>2 DEF Scanned
<1>10. Filed
  <2>1. Turn - 1 = 0
    BY <1>5
  <2>2. SectionsText(doc, <<>>) = <<>>
    BY <1>1, <1>2, SectionsFacts
  <2>3. BlocksText(doc, <<>>) = <<>>
    <3>1. LinesOf(doc) \in SUBSET LinesOf(doc) /\ <<>> \in Seq(BlocksOf(doc, LinesOf(doc)))
      BY <1>2
    <3> QED
      BY <1>1, <3>1, BlocksFacts
  <2>4. TextIn(doc, <<>>) = <<>> /\ Pending(doc, <<>>) = <<>>
    <3>1. LinesOf(doc) \in SUBSET LinesOf(doc) /\ <<>> \in Seq(LinesOf(doc))
      BY <1>2
    <3> QED
      BY <1>1, <3>1, TextFacts DEF Pending
  <2>5. Covered(doc, 0) = <<>>
    BY <1>1, CoveredFacts
  <2>6. <<>> \o (<<>> \o <<>>) = <<>>
    <3>1. <<>> \in Seq(LinesOf(doc)) /\ <<>> \o <<>> = <<>>
      BY <1>2
    <3> QED
      BY <3>1
  <2> QED
    BY <1>1, <2>1, <2>2, <2>3, <2>4, <2>5, <2>6 DEF Filed
<1> QED
  BY <1>3, <1>4, <1>9, <1>10 DEF PInv

LEMMA LineRead ==
    ASSUME PInv, ReadLine
    PROVE  PInv'
<1> DEFINE ls == LinesOf(doc)
<1>1. /\ phase = "read" /\ line \in DOMAIN doc /\ ~AtHeading
      /\ buffer' = Append(buffer, line) /\ fence' = FenceAfter(line, fence) /\ line' = line + 1
      /\ UNCHANGED <<doc, phase, path, inner, current, blocks, sections, pieces, open, items,
                     parts, packed, fresh, chunks>>
  BY DEF ReadLine, building, splitting, packing
<1>2. Parses /\ Parses'
  BY <1>1 DEF Parses
<1>3. /\ doc \in Documents /\ Len(doc) \in Nat /\ line \in Nat \ {0} /\ DOMAIN doc = ls
      /\ ls = 1 .. Len(doc) /\ Len(buffer) \in Nat /\ Turn \in Nat \ {0} /\ Turn <= line
      /\ current = <<>> => Start = Turn
  BY <1>2, ScanFacts
<1>4. line \in ls /\ line + 1 \in 1 .. Len(doc) + 1
  BY <1>1, <1>3
<1>5. /\ Run(buffer, line - 1) /\ Open(doc, fence, line) /\ path = EnclosingIn(doc, line)
      /\ inner = 0 /\ current = <<>>
  BY <1>1, <1>2 DEF PInv, Scanned
<1>6. fence' = FenceNext(doc, line, fence)
  BY <1>1 DEF FenceAfter, FenceNext, Closes, ClosesIn, Is, KindOf
<1>7. (FencedIn(doc)[line] <=> fence # 0) /\ Open(doc, fence', line + 1)
  BY <1>3, <1>4, <1>5, <1>6, OpenFacts
<1>8. ~TitleIn(doc, line)
  <2>1. CASE fence = 0
    <3>1. KindOf(doc, line) # "heading"
      BY <1>1, <2>1 DEF AtHeading, Is, KindOf
    <3> QED
      BY <3>1 DEF TitleIn
  <2>2. CASE fence # 0
    BY <1>7, <2>2, Zenon DEF TitleIn
  <2> QED
    BY <2>1, <2>2
<1>9. path = EnclosingIn(doc, line + 1)
  BY <1>3, <1>4, <1>5, <1>8, SameHeadings
<1>10. Run(buffer', line) /\ Len(buffer') = Len(buffer) + 1
  BY <1>1, <1>3, <1>5, RunOn
<1>11. Turn' = Turn /\ Start' = Turn /\ Start = Turn
  <2>1. Turn' = Turn
    BY <1>1, <1>3, <1>10 DEF Turn
  <2>2. Len(current) = 0
    BY <1>5
  <2> QED
    BY <1>1, <1>3, <1>5, <2>1, <2>2 DEF Start
<1>12. Fields'
  <2>1. buffer' \in Seq(ls)
    BY <1>1, <1>4 DEF PInv, Fields
  <2>2. fence' \in 0 .. Len(doc)
    BY <1>3, <1>4, <1>6 DEF PInv, Fields, FenceNext
  <2>3. Place' = Place /\ Here' = Here
    BY <1>1, <1>2 DEF Place, Here
  <2> QED
    BY <1>1, <1>4, <2>1, <2>2, <2>3 DEF PInv, Fields
<1>13. Idle'
  BY <1>1 DEF PInv, Idle, Parses, InSection
<1>14. Scanned'
  <2>1. Run(buffer', line' - 1)
    BY <1>1, <1>3, <1>10
  <2>2. Open(doc', fence', line') /\ path' = EnclosingIn(doc', line')
    BY <1>1, <1>7, <1>9
  <2>3. ASSUME NEW l \in Turn .. line + 1 PROVE EnclosingIn(doc, l) = path
    <3>1. l \in Turn .. line \/ l = line + 1
      BY <1>3
    <3>2. l \in Turn .. line => EnclosingIn(doc, l) = path
      BY <1>2, <1>11 DEF PInv, Scanned
    <3> QED
      BY <1>9, <3>1, <3>2
  <2>4. ASSUME NEW l \in Turn .. (line + 1) - 1 PROVE ~TitleIn(doc, l)
    <3>1. l \in Turn .. line - 1 \/ l = line
      BY <1>3
    <3>2. l \in Turn .. line - 1 => ~TitleIn(doc, l)
      BY <1>2, <1>11 DEF PInv, Scanned
    <3> QED
      BY <1>8, <3>1, <3>2, Zenon
  <2>5. EndedBefore(doc, Turn) /\ Open(doc, 0, Turn)
    <3>1. ~AtEnd
      BY <1>3, <1>4 DEF AtEnd
    <3> QED
      BY <1>1, <1>2, <3>1, Zenon DEF PInv, Scanned
  <2>6. \A l \in Start' .. line' : EnclosingIn(doc', l) = path'
    BY <1>1, <1>11, <2>3
  <2>7. \A l \in Start' .. line' - 1 : ~TitleIn(doc', l)
    BY <1>1, <1>11, <2>4
  <2>8. phase' # "build"
    BY <1>1
  <2>9. inner' = 0 /\ current' = <<>> /\ EndedBefore(doc', Turn') /\ Open(doc', 0, Turn')
    BY <1>1, <1>5, <1>11, <2>5
  <2> QED
    BY <2>1, <2>2, <2>6, <2>7, <2>8, <2>9, Zenon DEF Scanned
<1>15. Filed'
  BY <1>1, <1>2, <1>11 DEF PInv, Filed
<1> QED
  BY <1>12, <1>13, <1>14, <1>15 DEF PInv

LEMMA SectionFlushed ==
    ASSUME PInv, Flush
    PROVE  PInv'
<1>1. /\ phase = "read" /\ buffer # <<>> /\ (AtHeading \/ AtEnd) /\ phase' = "build"
      /\ UNCHANGED <<doc, line, fence, path, buffer, inner, current, blocks, sections, pieces, open,
                     items, parts, packed, fresh, chunks>>
  BY DEF Flush, parsing, building, splitting, packing
<1>2. Parses /\ Parses'
  BY <1>1 DEF Parses
<1>3. Turn' = Turn /\ Start' = Start /\ Place' = Place /\ Here' = Here /\ (AtHeading' <=> AtHeading) /\ (AtEnd' <=> AtEnd)
  BY <1>1, <1>2 DEF Turn, Start, Place, Here, AtHeading, AtEnd, Is
<1>4. Fields'
  BY <1>1, <1>3 DEF PInv, Fields, Phases
<1>5. Idle'
  BY <1>1 DEF PInv, Idle, Parses, InSection
<1>6. inner = 0 /\ current = <<>> /\ EndedBefore(doc, Turn) /\ Open(doc, 0, Turn)
  BY <1>1, <1>2, Zenon DEF PInv, Scanned
<1>7. Building(doc, 0, <<>>, Turn)
  <2>1. Turn \in Nat \ {0}
    BY <1>2, ScanFacts
  <2>2. PICK e : e = <<>>
    OBVIOUS
  <2>3. Run(e, Turn - 1) /\ Len(e) = 0 /\ (\A k \in 1 .. Len(e) : FALSE) /\ Len(e) # 1 /\ Turn - Len(e) = Turn
    BY <2>1, <2>2 DEF Run
  <2>4. Building(doc, 0, e, Turn)
    BY <1>6, <2>3, Zenon DEF Building
  <2> QED
    BY <2>2, <2>4
<1>8. Scanned'
  <2>1. /\ Run(buffer, line - 1) /\ Open(doc, fence, line) /\ path = EnclosingIn(doc, line)
        /\ \A l \in Start .. line : EnclosingIn(doc, l) = path
        /\ \A l \in Start .. line - 1 : ~TitleIn(doc, l)
    BY <1>2, Zenon DEF PInv, Scanned
  <2>2. /\ Run(buffer', line' - 1) /\ Open(doc', fence', line') /\ path' = EnclosingIn(doc', line')
        /\ \A l \in Start' .. line' : EnclosingIn(doc', l) = path'
        /\ \A l \in Start' .. line' - 1 : ~TitleIn(doc', l)
    BY <1>1, <1>3, <2>1
  <2>3. Building(doc', inner', current', Turn') /\ (AtHeading' \/ AtEnd') /\ phase' # "read"
    BY <1>1, <1>3, <1>6, <1>7
  <2> QED
    BY <2>2, <2>3, Zenon DEF Scanned
<1>9. Filed'
  BY <1>1, <1>2, <1>3 DEF PInv, Filed
<1> QED
  BY <1>4, <1>5, <1>8, <1>9 DEF PInv

LEMMA EmptyTexts ==
    ASSUME NEW d \in Documents
    PROVE  /\ SectionsText(d, <<>>) = <<>> /\ BlocksText(d, <<>>) = <<>>
           /\ TextIn(d, Pending(d, <<>>)) = <<>>
<1>1. LinesOf(d) \in SUBSET LinesOf(d) /\ \A U : <<>> \in Seq(U)
  OBVIOUS
<1>2. SectionsText(d, <<>>) = <<>>
  BY <1>1, SectionsFacts
<1>3. BlocksText(d, <<>>) = <<>>
  BY <1>1, BlocksFacts
<1>4. TextIn(d, <<>>) = <<>> /\ Pending(d, <<>>) = <<>>
  BY <1>1, TextFacts DEF Pending
<1> QED
  BY <1>2, <1>3, <1>4

LEMMA HeadingRead ==
    ASSUME PInv, ReadHeading
    PROVE  PInv'
<1> DEFINE ls == LinesOf(doc)
<1>1. /\ phase = "read" /\ AtHeading /\ buffer = <<>>
      /\ path' = Append(Kept(doc[line].level), line) /\ line' = line + 1
      /\ UNCHANGED <<doc, phase, fence, buffer, inner, current, blocks, sections, pieces, open,
                     items, parts, packed, fresh, chunks>>
  BY DEF ReadHeading, building, splitting, packing
<1>2. Parses /\ Parses'
  BY <1>1 DEF Parses
<1>3. /\ doc \in Documents /\ Len(doc) \in Nat /\ line \in Nat \ {0} /\ DOMAIN doc = ls
      /\ ls = 1 .. Len(doc) /\ Turn = line
  BY <1>1, <1>2, ScanFacts
<1>4. line \in ls /\ line + 1 \in 1 .. Len(doc) + 1 /\ fence = 0 /\ KindOf(doc, line) = "heading"
  BY <1>1, <1>3 DEF AtHeading, Is, KindOf
<1>5. /\ Open(doc, fence, line) /\ path = EnclosingIn(doc, line)
      /\ inner = 0 /\ current = <<>>
  BY <1>1, <1>2 DEF PInv, Scanned
<1>6. blocks = <<>> /\ pieces = <<>> /\ open = <<>> /\ items = <<>> /\ parts = <<>> /\ packed = <<>>
  BY <1>1 DEF PInv, Idle, Parses
<1>7. TitleIn(doc, line) /\ Open(doc, 0, line + 1)
  <2>1. ~FencedIn(doc)[line] /\ Open(doc, FenceNext(doc, line, fence), line + 1)
    BY <1>3, <1>4, <1>5, OpenFacts, Zenon
  <2>2. FenceNext(doc, line, fence) = 0
    BY <1>4 DEF FenceNext
  <2> QED
    BY <1>4, <2>1, <2>2, Zenon DEF TitleIn
<1>8. path' = EnclosingIn(doc, line + 1)
  <2>1. EnclosingIn(doc, line + 1) = Append(KeptIn(doc, path, doc[line].level), line)
    BY <1>3, <1>4, <1>5, <1>7, NextHeading
  <2>2. KeptIn(doc, path, doc[line].level) = Kept(doc[line].level)
    BY DEF KeptIn, Kept
  <2> QED
    BY <1>1, <2>1, <2>2
<1>9. Turn' = line + 1 /\ Start' = line + 1
  <2>1. Len(buffer) = 0 /\ Len(current) = 0
    BY <1>1, <1>5
  <2> QED
    BY <1>1, <1>3, <2>1 DEF Turn, Start
<1>10. Fields'
  <2>1. path' \in Seq(ls)
    BY <1>3, <1>4, <1>8, EnclosingType
  <2>2. blocks' = <<>> /\ blocks' \in Seq(BlocksOf(doc', Under(doc', Place')))
    BY <1>1, <1>6
  <2>3. Here' = Here
    BY <1>1 DEF Here
  <2> QED
    BY <1>1, <1>4, <2>1, <2>2, <2>3 DEF PInv, Fields
<1>11. Idle'
  BY <1>1 DEF PInv, Idle, Parses, InSection
<1>12. Scanned'
  <2>1. Run(buffer', line' - 1)
    BY <1>1, <1>3 DEF Run
  <2>2. EndedBefore(doc, line + 1)
    <3>1. (line + 1) - 1 = line
      BY <1>3
    <3> QED
      BY <1>7, <3>1, Zenon DEF EndedBefore
  <2>3. \A l \in Start' .. line' : EnclosingIn(doc', l) = path'
    BY <1>1, <1>3, <1>8, <1>9
  <2>4. \A l \in Start' .. line' - 1 : ~TitleIn(doc', l)
    BY <1>1, <1>3, <1>9
  <2>5. Open(doc', fence', line') /\ path' = EnclosingIn(doc', line') /\ phase' # "build"
    BY <1>1, <1>4, <1>7, <1>8
  <2>6. inner' = 0 /\ current' = <<>> /\ EndedBefore(doc', Turn') /\ Open(doc', 0, Turn')
    BY <1>1, <1>5, <1>7, <1>9, <2>2
  <2> QED
    BY <2>1, <2>3, <2>4, <2>5, <2>6, Zenon DEF Scanned
<1>13. Filed'
  <2>1. line \notin ContentsOf(doc)
    BY <1>7, Zenon DEF ContentsOf, ContentsIn
  <2>2. Covered(doc, line) = Covered(doc, line - 1)
    <3>1. Covered(doc, line) = Covered(doc, line - 1) \o <<>>
      BY <1>3, <1>4, <2>1, CoveredFacts DEF Share
    <3>2. line - 1 \in 0 .. Len(doc)
      BY <1>3, <1>4
    <3>3. Covered(doc, line - 1) \in Seq(Words(LinesOf(doc)))
      BY <1>3, <3>2, CoveredFacts
    <3> QED
      BY <3>1, <3>3
  <2>3. Turn' - 1 = line
    BY <1>3, <1>9
  <2>4. SectionsText(doc, sections) \o (BlocksText(doc, blocks) \o TextIn(doc, Pending(doc, current)))
            = Covered(doc, line - 1)
    BY <1>2, <1>3 DEF PInv, Filed
  <2> QED
    BY <1>1, <2>2, <2>3, <2>4 DEF Filed
<1> QED
  BY <1>10, <1>11, <1>12, <1>13 DEF PInv

LEMMA LineBuilt ==
    ASSUME PInv, BuildLine
    PROVE  PInv'
<1> DEFINE ls == LinesOf(doc)
           n == Head(buffer)
           C == Words(ls)
<1>1. /\ phase = "build" /\ buffer # <<>> /\ buffer' = Tail(buffer)
      /\ inner' = FenceAfter(n, inner)
      /\ UNCHANGED <<doc, phase, line, fence, path, sections, pieces, open, items,
                     parts, packed, fresh, chunks>>
  BY DEF BuildLine, parsing, splitting, packing
<1>2. Collects(doc, n, inner, current, blocks, inner', current', blocks')
  <2>1. Flushed = FlushedIn(doc, blocks, current)
    BY DEF Flushed, FlushedIn, Control, Stripped, StrippedIn, Kind, KindIn, Is, KindOf
  <2>2. \/ /\ inner # 0 /\ inner' # 0
           /\ current' = Append(current, n) /\ UNCHANGED blocks
        \/ /\ inner # 0 /\ inner' = 0
           /\ current' = <<>>
           /\ blocks' = Append(blocks, [lines |-> Append(current, n), kind |-> "code"])
        \/ /\ inner = 0 /\ Is(n, "fence")
           /\ current' = <<n>> /\ blocks' = Flushed
        \/ /\ inner = 0 /\ Is(n, "blank")
           /\ current' = <<>> /\ blocks' = Flushed
        \/ /\ inner = 0 /\ ~Is(n, "fence") /\ ~Is(n, "blank")
           /\ current' = Append(current, n) /\ UNCHANGED blocks
    BY DEF BuildLine
  <2>3. \A k : Is(n, k) <=> KindOf(doc, n) = k
    BY DEF Is, KindOf
  <2> HIDE DEF n
  <2>4. CASE inner # 0 /\ inner' # 0 /\ current' = Append(current, n) /\ UNCHANGED blocks
    BY <2>4 DEF Collects
  <2>5. CASE /\ inner # 0 /\ inner' = 0 /\ current' = <<>>
             /\ blocks' = Append(blocks, [lines |-> Append(current, n), kind |-> "code"])
    BY <2>5 DEF Collects
  <2>6. CASE inner = 0 /\ Is(n, "fence") /\ current' = <<n>> /\ blocks' = Flushed
    BY <2>1, <2>3, <2>6 DEF Collects
  <2>7. CASE inner = 0 /\ Is(n, "blank") /\ current' = <<>> /\ blocks' = Flushed
    BY <2>1, <2>3, <2>7 DEF Collects
  <2>8. CASE inner = 0 /\ ~Is(n, "fence") /\ ~Is(n, "blank") /\ current' = Append(current, n)
             /\ UNCHANGED blocks
    BY <2>3, <2>8 DEF Collects
  <2> QED
    BY <2>2, <2>4, <2>5, <2>6, <2>7, <2>8
<1>3. Parses /\ Parses' /\ Place = path /\ Place' = path /\ Here' = Here
  BY <1>1 DEF Parses, Place, Here
<1>4. /\ doc \in Documents /\ Len(doc) \in Nat /\ line \in Nat \ {0} /\ line <= Len(doc) + 1
      /\ ls = 1 .. Len(doc) /\ Len(buffer) \in Nat /\ Turn \in Nat \ {0} /\ Turn <= line
      /\ Len(current) \in Nat /\ Start \in Nat \ {0} /\ Start <= Turn
  BY <1>3, ScanFacts
<1>5. /\ Run(buffer, line - 1) /\ Building(doc, inner, current, Turn)
      /\ \A l \in Start .. line : EnclosingIn(doc, l) = path
      /\ \A l \in Start .. line - 1 : ~TitleIn(doc, l)
      /\ Open(doc, fence, line) /\ path = EnclosingIn(doc, line) /\ (AtHeading \/ AtEnd)
  BY <1>1, <1>3, Zenon DEF PInv, Scanned
<1>6. /\ Len(buffer) # 0 /\ n = Turn /\ Run(Tail(buffer), line - 1) /\ Len(Tail(buffer)) = Len(buffer) - 1
      /\ buffer \in Seq(ls)
  <2>1. buffer \in Seq(Nat) /\ Len(buffer) <= line - 1
        /\ \A k \in 1 .. Len(buffer) : buffer[k] = (line - 1) - Len(buffer) + k
    BY <1>5 DEF Run
  <2>2. Len(buffer) # 0 /\ 1 \in 1 .. Len(buffer) /\ n = buffer[1]
    BY <1>1, <1>4, <2>1
  <2>3. n = (line - 1) - Len(buffer) + 1
    BY <2>1, <2>2
  <2>4. n = Turn
    BY <1>4, <2>3 DEF Turn
  <2>5. /\ Tail(buffer) \in Seq(Nat) /\ Len(Tail(buffer)) = Len(buffer) - 1
        /\ \A k \in 1 .. Len(buffer) - 1 : Tail(buffer)[k] = buffer[k + 1]
    BY <1>1, <2>1, <2>2
  <2>6. ASSUME NEW k \in 1 .. Len(buffer) - 1
        PROVE  Tail(buffer)[k] = (line - 1) - (Len(buffer) - 1) + k
    <3>1. k + 1 \in 1 .. Len(buffer)
      BY <1>4
    <3>2. buffer[k + 1] = (line - 1) - Len(buffer) + (k + 1)
      BY <2>1, <3>1
    <3> QED
      BY <1>4, <2>5, <3>2
  <2>7. Run(Tail(buffer), line - 1)
    BY <1>4, <2>1, <2>2, <2>5, <2>6 DEF Run
  <2>8. buffer \in Seq(ls)
    BY DEF PInv, Fields
  <2> QED
    BY <2>2, <2>4, <2>5, <2>7, <2>8
<1> HIDE DEF n
<1>7. n \in ls /\ n \in Start .. line /\ n \in Start .. line - 1 /\ ~TitleIn(doc, n)
      /\ EnclosingIn(doc, n) = path
  <2>1. n \in ls /\ n \in Start .. line /\ n \in Start .. line - 1
    <3>1. Len(buffer) \in Nat \ {0} /\ line \in Nat /\ n = line - Len(buffer)
      BY <1>4, <1>6 DEF Turn
    <3>2. n \in Nat \ {0} /\ Start \in Nat /\ Start <= n /\ Len(doc) \in Nat /\ line <= Len(doc) + 1
      BY <1>4, <1>6
    <3>3. n <= line - 1
      BY <3>1
    <3>4. n \in 1 .. Len(doc) /\ n \in Start .. line /\ n \in Start .. line - 1
      BY <3>1, <3>2, <3>3
    <3> QED
      BY <1>4, <3>4
  <2> QED
    BY <1>5, <2>1
<1>8. \A k \in 1 .. Len(current) : EnclosingIn(doc, current[k]) = path
  <2> TAKE k \in 1 .. Len(current)
  <2>1. current[k] = (Turn - 1) - Len(current) + k
    BY <1>5 DEF Building, Run
  <2>2. current[k] \in Start .. line
    BY <1>4, <2>1 DEF Start
  <2> QED
    BY <1>5, <2>2
<1>9. blocks \in Seq(BlocksOf(doc, Under(doc, path))) /\ inner' = FenceNext(doc, n, inner)
  <2>1. blocks \in Seq(BlocksOf(doc, Under(doc, path)))
    BY <1>3 DEF PInv, Fields
  <2>2. inner' = FenceNext(doc, n, inner)
    BY <1>1 DEF FenceAfter, FenceNext, Closes, ClosesIn, Is, KindOf
  <2> QED
    BY <2>1, <2>2
<1>10. /\ Building(doc, inner', current', n + 1)
       /\ blocks' \in Seq(BlocksOf(doc, Under(doc, path)))
       /\ BlocksText(doc, blocks') \o TextIn(doc, Pending(doc, current'))
             = (BlocksText(doc, blocks) \o TextIn(doc, Pending(doc, current))) \o Share(doc, n)
  <2>1. Building(doc, inner, current, n) /\ doc \in Documents /\ n \in LinesOf(doc)
        /\ ~TitleIn(doc, n) /\ EnclosingIn(doc, n) = path
    BY <1>4, <1>5, <1>6, <1>7
  <2>2. PICK g : g = inner'
    OBVIOUS
  <2>3. PICK ms : ms = current'
    OBVIOUS
  <2>4. PICK cs : cs = blocks'
    OBVIOUS
  <2>5. Collects(doc, n, inner, current, blocks, g, ms, cs) /\ g = FenceNext(doc, n, inner)
    BY <1>2, <1>9, <2>2, <2>3, <2>4
  <2>6. blocks \in Seq(BlocksOf(doc, Under(doc, path)))
    BY <1>9
  <2>7. /\ Building(doc, g, ms, n + 1)
        /\ cs \in Seq(BlocksOf(doc, Under(doc, path)))
        /\ BlocksText(doc, cs) \o TextIn(doc, Pending(doc, ms))
              = (BlocksText(doc, blocks) \o TextIn(doc, Pending(doc, current))) \o Share(doc, n)
    BY <1>8, <2>1, <2>5, <2>6, CollectStep
  <2> QED
    BY <2>2, <2>3, <2>4, <2>7
<1>11. Turn' = Turn + 1 /\ Turn' = n + 1
  <2>1. Turn' = line - Len(Tail(buffer))
    BY <1>1 DEF Turn
  <2>2. Len(buffer) \in Nat /\ line \in Nat /\ n = Turn /\ Turn = line - Len(buffer)
    BY <1>4, <1>6 DEF Turn
  <2>3. Len(Tail(buffer)) = Len(buffer) - 1
    BY <1>6
  <2>4. Turn' = (line - Len(buffer)) + 1
    <3>1. PICK m : m = Len(buffer)
      OBVIOUS
    <3>2. m \in Nat /\ line \in Nat
      BY <2>2, <3>1
    <3>3. line - (m - 1) = (line - m) + 1
      BY <3>2
    <3> QED
      BY <2>1, <2>3, <3>1, <3>3, Zenon
  <2> QED
    BY <2>2, <2>4
<1>12. Len(current') \in Nat /\ Len(current') <= Len(current) + 1 /\ current' \in Seq(ls)
  <2>1. /\ current \in Seq(ls) /\ <<>> \in Seq(ls) /\ Len(<<>>) = 0
        /\ Append(current, n) \in Seq(ls) /\ Len(Append(current, n)) = Len(current) + 1
        /\ <<n>> \in Seq(ls) /\ Len(<<n>>) = 1
    <3>1. current \in Seq(ls)
      BY DEF PInv, Fields
    <3> HIDE DEF ls
    <3> QED
      BY <1>7, <3>1
  <2>2. current' \in {Append(current, n), <<>>, <<n>>}
    BY <1>2 DEF Collects
  <2> HIDE DEF ls
  <2>3. CASE current' = Append(current, n)
    BY <1>4, <2>1, <2>3
  <2>4. CASE current' = <<>>
    BY <1>4, <2>1, <2>4
  <2>5. CASE current' = <<n>>
    BY <1>4, <2>1, <2>5
  <2> QED
    BY <2>2, <2>3, <2>4, <2>5
<1>13. Start' \in Nat /\ Start' >= Start
  BY <1>4, <1>11, <1>12 DEF Start
<1>14. Fields'
  <2>1. Tail(buffer) \in Seq(ls)
    BY <1>1, <1>6
  <2>2. inner' \in 0 .. Len(doc)
    BY <1>4, <1>7, <1>9 DEF PInv, Fields, FenceNext
  <2> QED
    BY <1>1, <1>3, <1>10, <1>12, <2>1, <2>2 DEF PInv, Fields
<1>15. Idle'
  BY <1>1 DEF PInv, Idle, Parses, InSection
<1>16. Scanned'
  <2>1. \A l \in Start' .. line : EnclosingIn(doc, l) = path
    BY <1>4, <1>5, <1>13
  <2>2. \A l \in Start' .. line - 1 : ~TitleIn(doc, l)
    BY <1>4, <1>5, <1>13
  <2>3. (AtHeading' <=> AtHeading) /\ (AtEnd' <=> AtEnd)
    BY <1>1 DEF AtHeading, AtEnd, Is
  <2>4. /\ Run(buffer', line' - 1) /\ Open(doc', fence', line') /\ path' = EnclosingIn(doc', line')
        /\ \A l \in Start' .. line' : EnclosingIn(doc', l) = path'
        /\ \A l \in Start' .. line' - 1 : ~TitleIn(doc', l)
    BY <1>1, <1>5, <1>6, <2>1, <2>2
  <2>5. Building(doc', inner', current', Turn') /\ (AtHeading' \/ AtEnd') /\ phase' # "read"
    BY <1>1, <1>5, <1>10, <1>11, <2>3
  <2> QED
    BY <2>4, <2>5, Zenon DEF Scanned
<1>17. Filed'
  <2> DEFINE S == SectionsText(doc, sections)
             B == BlocksText(doc, blocks) \o TextIn(doc, Pending(doc, current))
             D == BlocksText(doc, blocks') \o TextIn(doc, Pending(doc, current'))
             X == Share(doc, n)
  <2>1. S \in Seq(C) /\ X \in Seq(C) /\ B \in Seq(C)
    <3>1. ls \in SUBSET ls /\ <<>> \in Seq(C) /\ Under(doc, path) \in SUBSET ls
      BY UnderLines
    <3>2. S \in Seq(C)
      BY <1>4, SectionsFacts DEF PInv, Fields
    <3>3. UnitsIn(doc, n) \in Seq(C)
      BY <1>4, <1>7, <3>1, UnitsFacts
    <3>4. BlocksText(doc, blocks) \in Seq(C)
      <4>1. BlocksText(doc, blocks) \in Seq(Words(Under(doc, path)))
        BY <1>4, <1>9, <3>1, BlocksFacts
      <4> QED
        BY <3>1, <4>1, Wider
    <3>5. TextIn(doc, Pending(doc, current)) \in Seq(C)
      <4>1. current \in Seq(ls) /\ <<>> \in Seq(ls)
        BY DEF PInv, Fields
      <4>2. Pending(doc, current) \in Seq(ls)
        BY <4>1 DEF Pending
      <4> QED
        BY <1>4, <3>1, <4>2, TextFacts
    <3> QED
      BY <3>1, <3>2, <3>3, <3>4, <3>5, Thrice DEF Share
  <2>2. S \o B = Covered(doc, n - 1)
    BY <1>3, <1>6 DEF PInv, Filed
  <2>3. Covered(doc, n) = Covered(doc, n - 1) \o X
    BY <1>4, <1>7, CoveredFacts
  <2>4. D = B \o X
    BY <1>10
  <2>5. S \o (B \o X) = (S \o B) \o X
    <3> HIDE DEF S, B, X, C
    <3> QED
      BY <2>1, Thrice
  <2>6. Turn' - 1 = n
    BY <1>4, <1>6, <1>11
  <2>7. S \o D = Covered(doc, n)
    <3> HIDE DEF S, B, X, D
    <3> QED
      BY <2>2, <2>3, <2>4, <2>5
  <2> QED
    BY <1>1, <2>6, <2>7 DEF Filed
<1> QED
  BY <1>14, <1>15, <1>16, <1>17 DEF PInv

LEMMA BlocksBuilt ==
    ASSUME PInv, EndBuild
    PROVE  PInv'
<1> DEFINE ls == LinesOf(doc)
           C == Words(ls)
           cs == FlushedIn(doc, blocks, current)
           s == [path |-> path, blocks |-> cs]
<1>1. /\ phase = "build" /\ buffer = <<>> /\ phase' = "read"
      /\ inner' = 0 /\ current' = <<>> /\ blocks' = <<>>
      /\ UNCHANGED <<doc, line, fence, path, buffer, pieces, open, items, parts, packed, fresh, chunks>>
  BY DEF EndBuild, parsing, splitting, packing
<1>2. \/ cs # <<>> /\ sections' = Append(sections, s)
      \/ cs = <<>> /\ sections' = sections
  <2>1. Flushed = cs
    BY DEF Flushed, FlushedIn, Control, Stripped, StrippedIn, Kind, KindIn, Is, KindOf
  <2> QED
    BY <2>1 DEF EndBuild
<1>3. Parses /\ Parses' /\ Place = path
  BY <1>1 DEF Parses, Place
<1>4. /\ doc \in Documents /\ Len(doc) \in Nat /\ line \in Nat \ {0} /\ line <= Len(doc) + 1
      /\ ls = 1 .. Len(doc) /\ DOMAIN doc = ls /\ Turn = line /\ Len(buffer) \in Nat
      /\ Len(current) \in Nat /\ Start \in Nat \ {0} /\ Start <= Turn
  BY <1>1, <1>3, ScanFacts
<1>5. /\ Run(buffer, line - 1) /\ Building(doc, inner, current, line)
      /\ \A l \in Start .. line : EnclosingIn(doc, l) = path
      /\ \A l \in Start .. line - 1 : ~TitleIn(doc, l)
      /\ Open(doc, fence, line) /\ path = EnclosingIn(doc, line) /\ (AtHeading \/ AtEnd)
  BY <1>1, <1>3, <1>4, Zenon DEF PInv, Scanned
<1>6. EndsAt(doc, line)
  <2>1. CASE AtHeading
    <3>1. line \in ls /\ fence = 0 /\ KindOf(doc, line) = "heading"
      BY <1>4, <2>1 DEF AtHeading, Is, KindOf
    <3>2. ~FencedIn(doc)[line]
      BY <1>4, <1>5, <3>1, OpenFacts, Zenon
    <3> QED
      BY <3>1, <3>2, Zenon DEF TitleIn, EndsAt
  <2>2. CASE AtEnd
    BY <2>2 DEF AtEnd, EndsAt
  <2> QED
    BY <1>5, <2>1, <2>2
<1>7. \A k \in 1 .. Len(current) : EnclosingIn(doc, current[k]) = path
  <2> TAKE k \in 1 .. Len(current)
  <2>1. current[k] = (line - 1) - Len(current) + k
    BY <1>5 DEF Building, Run
  <2>2. current[k] \in Start .. line
    BY <1>4, <2>1 DEF Start
  <2> QED
    BY <1>5, <2>2
<1>8. blocks \in Seq(BlocksOf(doc, Under(doc, path))) /\ line \in 1 .. Len(doc) + 1
      /\ path \in Seq(ls) /\ sections \in Seq(SectionsOf(doc))
  BY <1>3 DEF PInv, Fields
<1>9. /\ cs \in Seq(BlocksOf(doc, Under(doc, path)))
      /\ BlocksText(doc, cs) = BlocksText(doc, blocks) \o TextIn(doc, Pending(doc, current))
  BY <1>4, <1>5, <1>6, <1>7, <1>8, FlushFacts
<1>10. cs # <<>> => s \in SectionsOf(doc)
  <2> SUFFICES ASSUME cs # <<>> PROVE s \in SectionsOf(doc)
    OBVIOUS
  <2> HIDE DEF cs
  <2>1. s \in [path : {path}, blocks : Seq(BlocksOf(doc, Under(doc, path))) \ {<<>>}]
    BY <1>9
  <2> HIDE DEF s
  <2> QED
    BY <1>8, <2>1 DEF SectionsOf
<1>11. sections' \in Seq(SectionsOf(doc))
  <2> HIDE DEF s, cs
  <2> QED
    BY <1>2, <1>8, <1>10
<1>12. Turn' = line /\ Start' = line
  <2>1. Len(buffer) = 0 /\ Len(<<>>) = 0
    BY <1>1
  <2> QED
    BY <1>1, <1>4, <2>1 DEF Turn, Start
<1>13. /\ pieces = <<>> /\ open = <<>> /\ items = <<>> /\ parts = <<>> /\ packed = <<>> /\ fresh = <<>>
       /\ chunks = <<>>
  BY <1>1, <1>3 DEF PInv, Idle
<1>14. Fields'
  <2>1. \A U : <<>> \in Seq(U)
    OBVIOUS
  <2> QED
    BY <1>1, <1>8, <1>11, <1>13, <2>1 DEF PInv, Fields, Phases
<1>15. Idle'
  BY <1>1, <1>13 DEF Idle, Parses, InSection
<1>16. Scanned'
  <2>1. (AtHeading' <=> AtHeading) /\ (AtEnd' <=> AtEnd)
    BY <1>1 DEF AtHeading, AtEnd, Is
  <2>2. line .. line - 1 = {} /\ line .. line = {line}
    BY <1>4
  <2>3. /\ Run(buffer', line' - 1) /\ Open(doc', fence', line') /\ path' = EnclosingIn(doc', line')
        /\ \A l \in Start' .. line' : EnclosingIn(doc', l) = path'
        /\ \A l \in Start' .. line' - 1 : ~TitleIn(doc', l)
    BY <1>1, <1>5, <1>12, <2>2
  <2>4. inner' = 0 /\ current' = <<>> /\ buffer' = <<>> /\ (AtHeading' \/ AtEnd') /\ phase' # "build"
    BY <1>1, <1>5, <2>1
  <2> QED
    BY <2>3, <2>4, Zenon DEF Scanned
<1>17. Filed'
  <2> DEFINE S == SectionsText(doc, sections)
             B == BlocksText(doc, cs)
  <2>1. S \o B = Covered(doc, line - 1)
    BY <1>3, <1>4, <1>9 DEF PInv, Filed
  <2>2. S \in Seq(C) /\ SectionsText(doc, sections') \in Seq(C)
    BY <1>4, <1>8, <1>11, SectionsFacts
  <2>3. SectionsText(doc, sections') = S \o B
    <3>1. CASE cs # <<>> /\ sections' = Append(sections, s)
      <4>1. SectionsText(doc, Append(sections, s)) = S \o BlocksText(doc, s.blocks)
        <5> HIDE DEF s, cs
        <5> QED
          BY <1>4, <1>8, <1>10, <3>1, SectionsFacts
      <4>2. s.blocks = cs
        OBVIOUS
      <4> HIDE DEF s, cs
      <4> QED
        BY <3>1, <4>1, <4>2
    <3>2. CASE cs = <<>> /\ sections' = sections
      <4>1. B = <<>>
        BY <1>4, <3>2, EmptyTexts
      <4> QED
        BY <2>2, <3>2, <4>1
    <3> QED
      BY <1>2, <3>1, <3>2
  <2>4. BlocksText(doc, <<>>) = <<>> /\ TextIn(doc, Pending(doc, <<>>)) = <<>>
    BY <1>4, EmptyTexts
  <2>5. SectionsText(doc, sections') \o (<<>> \o <<>>) = SectionsText(doc, sections')
    <3>1. PICK t : t = SectionsText(doc, sections')
      OBVIOUS
    <3>2. <<>> \o <<>> = <<>> /\ t \o <<>> = t
      BY <2>2, <3>1
    <3> QED
      BY <3>1, <3>2
  <2>6. Turn' - 1 = line - 1
    BY <1>12
  <2> HIDE DEF S, B
  <2> QED
    BY <1>1, <2>1, <2>3, <2>4, <2>5, <2>6 DEF Filed
<1> QED
  BY <1>14, <1>15, <1>16, <1>17 DEF PInv

-----------------------------------------------------------------------------
(* The text while sections are chunked.                                    *)

Cat(a, b) == a \o b

Texted(S, e) ==
    /\ e \in S
    /\ \A a \in S : Cat(a, e) = a /\ Cat(e, a) = a
    /\ \A a, b \in S : Cat(a, b) \in S
    /\ \A a, b, c \in S : Cat(Cat(a, b), c) = Cat(a, Cat(b, c))

LEMMA TextsJoin == ASSUME NEW U PROVE Texted(Seq(U), <<>>)
<1> DEFINE S == Seq(U)
<1>1. <<>> \in S
  OBVIOUS
<1> HIDE DEF S
<1>2. \A a, b, c \in S : (a \o b) \o c = a \o (b \o c) /\ a \o b \in S /\ a \o <<>> = a /\ <<>> \o a = a
  BY Thrice DEF S
<1>3. \A a \in S : Cat(a, <<>>) = a /\ Cat(<<>>, a) = a
  BY <1>2, Zenon DEF Cat
<1>4. \A a, b \in S : Cat(a, b) \in S
  BY <1>2, Zenon DEF Cat
<1>5. ASSUME NEW a \in S, NEW b \in S, NEW c \in S PROVE Cat(Cat(a, b), c) = Cat(a, Cat(b, c))
  <2>1. (a \o b) \o c = a \o (b \o c)
    BY Thrice DEF S
  <2> QED
    BY <2>1, Zenon DEF Cat
<1> QED
  BY <1>1, <1>3, <1>4, <1>5, Zenon DEF Texted, S

\* Join, for lists of texts.
Joins(L, S, e) ==
    /\ Join(e) = e
    /\ \A s \in L : /\ Join(s) \in S
                    /\ s # e => Head(s) \in S /\ Tail(s) \in L /\ Join(s) = Cat(Head(s), Join(Tail(s)))
    /\ \A x \in S : Join(<<x>>) = x /\ <<x>> \in L
    /\ \A s \in L : \A x \in S : Append(s, x) \in L /\ Join(Append(s, x)) = Cat(Join(s), x)
    /\ \A s, t \in L : s \o t \in L /\ Join(s \o t) = Cat(Join(s), Join(t))

LEMMA JoinFacts == ASSUME NEW U PROVE Joins(Seq(Seq(U)), Seq(U), <<>>)
<1> DEFINE S == Seq(U)
           L == Seq(S)
<1>1. Join(<<>>) = <<>>
  BY NoneFlat DEF Join
<1>2. ASSUME NEW s \in L
      PROVE  /\ Join(s) \in S
             /\ s # <<>> => Head(s) \in S /\ Tail(s) \in L /\ Join(s) = Cat(Head(s), Join(Tail(s)))
  <2>1. Join(s) \in S
    BY FlattenType DEF Join
  <2>2. s # <<>> => Head(s) \in S /\ FlattenSeq(s) = Head(s) \o FlattenSeq(Tail(s))
    BY FlattenHead
  <2>3. s # <<>> => Tail(s) \in L
    <3> HIDE DEF S
    <3> QED
      OBVIOUS
  <2> QED
    BY <2>1, <2>2, <2>3 DEF Join, Cat
<1>3. ASSUME NEW x \in S PROVE Join(<<x>>) = x /\ <<x>> \in L
  <2>1. PICK o : o = <<x>>
    OBVIOUS
  <2>2. o \in L /\ Len(o) = 1 /\ o[1] = x
    <3> HIDE DEF S
    <3> QED
      BY <2>1
  <2>3. FlattenSeq(o) = o[1]
    BY <2>2, FlattenOne
  <2> QED
    BY <2>1, <2>2, <2>3 DEF Join
<1>4. ASSUME NEW s \in L, NEW x \in S PROVE Append(s, x) \in L /\ Join(Append(s, x)) = Cat(Join(s), x)
  <2>1. Append(s, x) \in L
    <3> HIDE DEF S
    <3> QED
      OBVIOUS
  <2> QED
    BY <2>1, FlattenStep DEF Join, Cat
<1>5. ASSUME NEW s \in L, NEW t \in L PROVE s \o t \in L /\ Join(s \o t) = Cat(Join(s), Join(t))
  <2>1. s \o t \in L
    <3> HIDE DEF S
    <3> QED
      OBVIOUS
  <2> QED
    BY <2>1, FlattenBoth DEF Join, Cat
<1> HIDE DEF S, L
<1> QED
  BY <1>1, <1>2, <1>3, <1>4, <1>5 DEF Joins, S, L

LEMMA SubFacts ==
    ASSUME NEW U, NEW t \in Seq(U), NEW a \in Nat, NEW b \in Nat, a <= b, b <= Len(t)
    PROVE  /\ SubSeq(t, a + 1, b) \in Seq(U) /\ Len(SubSeq(t, a + 1, b)) = b - a
           /\ \A k \in 1 .. b - a : SubSeq(t, a + 1, b)[k] = t[a + k]
           /\ SubSeq(t, a + 1, b) = <<>> <=> a = b
           /\ SubSeq(t, 1, a) \o SubSeq(t, a + 1, b) = SubSeq(t, 1, b)
           /\ SubSeq(t, 1, a) \in Seq(U) /\ Len(SubSeq(t, 1, a)) = a
           /\ b = Len(t) => SubSeq(t, 1, b) = t
<1>1. /\ SubSeq(t, a + 1, b) \in Seq(U) /\ Len(SubSeq(t, a + 1, b)) = b - a
      /\ \A k \in 1 .. b - a : SubSeq(t, a + 1, b)[k] = t[a + k]
  OBVIOUS
<1>2. /\ SubSeq(t, 1, a) \in Seq(U) /\ Len(SubSeq(t, 1, a)) = a
      /\ \A k \in 1 .. a : SubSeq(t, 1, a)[k] = t[k]
  OBVIOUS
<1>3. /\ SubSeq(t, 1, b) \in Seq(U) /\ Len(SubSeq(t, 1, b)) = b
      /\ \A k \in 1 .. b : SubSeq(t, 1, b)[k] = t[k]
  OBVIOUS
<1>4. PICK x : x = SubSeq(t, 1, a)
  OBVIOUS
<1>5. PICK y : y = SubSeq(t, a + 1, b)
  OBVIOUS
<1>6. PICK z : z = SubSeq(t, 1, b)
  OBVIOUS
<1>7. IsSeq(x) /\ IsSeq(y) /\ IsSeq(z) /\ IsSeq(t)
  BY <1>1, <1>2, <1>3, <1>4, <1>5, <1>6 DEF IsSeq
<1>8. /\ IsSeq(x \o y) /\ Len(x \o y) = Len(x) + Len(y)
      /\ \A k \in 1 .. Len(x) + Len(y) : (x \o y)[k] = IF k <= Len(x) THEN x[k] ELSE y[k - Len(x)]
  BY <1>7, Both
<1>9. /\ Len(x) = a /\ Len(y) = b - a /\ Len(z) = b
      /\ (\A k \in 1 .. a : x[k] = t[k]) /\ (\A k \in 1 .. b - a : y[k] = t[a + k])
      /\ \A k \in 1 .. b : z[k] = t[k]
  BY <1>1, <1>2, <1>3, <1>4, <1>5, <1>6
<1>10. x \o y = z
  <2>1. Len(x \o y) = b
    BY <1>8, <1>9
  <2>2. ASSUME NEW k \in 1 .. b PROVE (x \o y)[k] = z[k]
    <3>1. CASE k <= a
      <4>1. k \in 1 .. a /\ k \in 1 .. Len(x) + Len(y)
        BY <1>9, <3>1
      <4> QED
        BY <1>8, <1>9, <3>1, <4>1
    <3>2. CASE k > a
      <4>1. k - a \in 1 .. b - a /\ k \in 1 .. Len(x) + Len(y) /\ a + (k - a) = k
        BY <1>9, <3>2
      <4>2. y[k - a] = t[k]
        BY <1>9, <4>1
      <4> QED
        BY <1>8, <1>9, <3>2, <4>1, <4>2
    <3>3. k <= a \/ k > a
      OBVIOUS
    <3> QED
      BY <3>1, <3>2, <3>3
  <2>3. PICK c : c = x \o y
    OBVIOUS
  <2>4. IsSeq(c) /\ Len(c) = Len(z) /\ \A k \in 1 .. Len(c) : c[k] = z[k]
    BY <1>8, <1>9, <2>1, <2>2, <2>3
  <2> QED
    BY <1>7, <2>3, <2>4, Same
<1>11. b = Len(t) => SubSeq(t, 1, b) = t
  <2> SUFFICES ASSUME b = Len(t) PROVE z = t
    BY <1>6
  <2> QED
    BY <1>7, <1>9, Same
<1>12. SubSeq(t, a + 1, b) = <<>> <=> a = b
  <2>1. y = <<>> <=> Len(y) = 0
    BY <1>7, NotEmpty
  <2>2. b - a = 0 <=> a = b
    OBVIOUS
  <2> QED
    BY <1>5, <1>9, <2>1, <2>2, Zenon
<1> QED
  BY <1>1, <1>2, <1>4, <1>5, <1>6, <1>10, <1>11, <1>12

\* A text cut at places that rise to its end.
Cuts(p, t, q) == p = [j \in 1 .. Len(q) |-> SubSeq(t, IF j = 1 THEN 1 ELSE q[j - 1] + 1, q[j])]

LEMMA CutUp ==
    ASSUME NEW U, NEW t \in Seq(U), NEW q \in Seq(Nat), Rising(q), Len(q) # 0,
           \A i \in 1 .. Len(q) : q[i] \in 1 .. Len(t), q[Len(q)] = Len(t), NEW p, Cuts(p, t, q)
    PROVE  /\ p \in Seq(Seq(U)) /\ Len(p) = Len(q) /\ FlattenSeq(p) = t
           /\ \A j \in 1 .. Len(p) : p[j] # <<>>
<1> DEFINE m == Len(q)
           n == Len(t)
           V == Seq(U)
           at(j) == IF j = 0 THEN 0 ELSE q[j]
           sub(a, b) == SubSeq(t, a + 1, b)
           T == {j \in 0 .. m : FlattenSeq(First(p, j)) = sub(0, at(j))}
<1>1. m \in Nat \ {0} /\ n \in Nat /\ (\A i \in 1 .. m : q[i] \in Nat \ {0} /\ q[i] <= n) /\ q[m] = n
  OBVIOUS
<1>2. ASSUME NEW a \in Nat, NEW b \in Nat, a <= b, b <= n
      PROVE  /\ sub(a, b) \in V /\ (a # b => sub(a, b) # <<>>)
             /\ sub(0, a) \o sub(a, b) = sub(0, b)
  <2>1. 0 + 1 = 1
    OBVIOUS
  <2>2. /\ SubSeq(t, a + 1, b) \in V /\ (SubSeq(t, a + 1, b) = <<>> <=> a = b)
        /\ SubSeq(t, 1, a) \o SubSeq(t, a + 1, b) = SubSeq(t, 1, b)
    <3>0. a <= b /\ b <= Len(t)
      BY <1>2
    <3>1. SubSeq(t, a + 1, b) \in Seq(U)
      BY <3>0, SubFacts
    <3>2. SubSeq(t, a + 1, b) = <<>> <=> a = b
      <4>1. Len(SubSeq(t, a + 1, b)) = b - a
        BY <3>0, SubFacts
      <4>2. PICK y : y = SubSeq(t, a + 1, b)
        OBVIOUS
      <4>3. y = <<>> <=> Len(y) = 0
        <5>1. IsSeq(y)
          BY <3>1, <4>2, Zenon DEF IsSeq
        <5> QED
          BY <5>1, NotEmpty, Zenon
      <4>4. b - a = 0 <=> a = b
        OBVIOUS
      <4> QED
        BY <4>1, <4>2, <4>3, <4>4, Zenon
    <3>3. SubSeq(t, 1, a) \o SubSeq(t, a + 1, b) = SubSeq(t, 1, b)
      BY <3>0, SubFacts
    <3> QED
      BY <3>1, <3>2, <3>3
  <2> QED
    BY <2>1, <2>2, Zenon
<1>3. sub(0, 0) = <<>> /\ sub(0, n) = t
  <2>1. SubSeq(t, 0 + 1, 0) = <<>>
    BY <1>1, SubFacts
  <2>2. SubSeq(t, 1, n) = t
    BY <1>1, SubFacts
  <2>3. 0 + 1 = 1
    OBVIOUS
  <2> QED
    BY <2>1, <2>2, <2>3, Zenon
<1>4. /\ \A j \in 1 .. m : p[j] = SubSeq(t, IF j = 1 THEN 1 ELSE q[j - 1] + 1, q[j])
      /\ p = [j \in 1 .. m |-> p[j]]
  BY DEF Cuts
<1>5. ASSUME NEW j \in 0 .. m - 1
      PROVE  /\ at(j) \in Nat /\ at(j + 1) \in Nat /\ at(j) < at(j + 1) /\ at(j + 1) <= n
             /\ p[j + 1] = sub(at(j), at(j + 1))
  <2>1. j + 1 \in 1 .. m /\ j + 1 # 0 /\ (j + 1) - 1 = j /\ (j + 1 = 1 <=> j = 0) /\ 0 + 1 = 1
    BY <1>1
  <2>2. at(j + 1) = q[j + 1] /\ at(j + 1) \in Nat \ {0} /\ at(j + 1) <= n
    BY <1>1, <2>1
  <2>3. p[j + 1] = SubSeq(t, IF j = 0 THEN 0 + 1 ELSE q[j] + 1, q[j + 1])
    BY <1>4, <2>1
  <2>4. CASE j = 0
    <3>1. at(j) = 0
      BY <2>4
    <3>2. p[j + 1] = SubSeq(t, 0 + 1, q[j + 1])
      BY <2>3, <2>4
    <3> QED
      BY <2>2, <3>1, <3>2
  <2>5. CASE j # 0
    <3>1. j \in 1 .. m /\ j < j + 1 /\ at(j) = q[j]
      BY <1>1, <2>5
    <3>2. q[j] < q[j + 1]
      BY <2>1, <3>1 DEF Rising
    <3>3. p[j + 1] = SubSeq(t, q[j] + 1, q[j + 1])
      BY <2>3, <2>5
    <3> QED
      BY <1>1, <2>2, <3>1, <3>2, <3>3
  <2> QED
    BY <2>4, <2>5
<1>6. at(0) = 0 /\ at(m) = n
  BY <1>1
<1> HIDE DEF at, sub, V, n, m
<1>7. ASSUME NEW j \in 1 .. m PROVE p[j] \in V /\ p[j] # <<>>
  <2>1. j - 1 \in 0 .. m - 1 /\ (j - 1) + 1 = j
    BY <1>1
  <2>2. /\ at(j - 1) \in Nat /\ at(j) \in Nat /\ at(j - 1) < at(j) /\ at(j) <= n
        /\ p[j] = sub(at(j - 1), at(j))
    BY <1>5, <2>1
  <2>3. at(j - 1) <= at(j) /\ at(j - 1) # at(j)
    BY <2>2
  <2> QED
    BY <1>2, <2>2, <2>3
<1>8. p \in Seq(V) /\ Len(p) = m
  <2>1. m \in Nat /\ (\A j \in 1 .. m : p[j] \in V) /\ p = [j \in 1 .. m |-> p[j]]
    BY <1>1, <1>4, <1>7
  <2>2. p \in [1 .. m -> V]
    BY <2>1, Zenon
  <2> QED
    BY <2>1, <2>2
<1>9. First(p, 0) = <<>> /\ First(p, m) = p
  <2>1. First(p, m) = p
    BY <1>4 DEF First
  <2>2. First(p, 0) = <<>>
    BY DEF First
  <2> QED
    BY <2>1, <2>2
<1>10. 0 \in T
  BY <1>1, <1>3, <1>6, <1>9, NoneFlat
<1>11. ASSUME NEW j \in 0 .. m - 1, j \in T PROVE j + 1 \in T
  <2>1. j \in Nat /\ j + 1 \in 0 .. m /\ j + 1 \in 1 .. m /\ FlattenSeq(First(p, j)) = sub(0, at(j))
    BY <1>1, <1>11
  <2>2. First(p, j) \in Seq(V) /\ p[j + 1] \in V
    <3>1. \A k \in 1 .. j : p[k] \in V
      BY <1>1, <1>7, <2>1
    <3> QED
      BY <1>7, <2>1, <3>1 DEF First
  <2>3. First(p, j + 1) = Append(First(p, j), p[j + 1])
    <3> DEFINE a == Append(First(p, j), p[j + 1])
    <3>1. Len(First(p, j)) = j /\ \A k \in 1 .. j : First(p, j)[k] = p[k]
      BY <2>1 DEF First
    <3>2. PICK f : f = First(p, j)
      OBVIOUS
    <3>3. PICK x : x = p[j + 1]
      OBVIOUS
    <3>4. f \in Seq(V) /\ Len(f) = j /\ (\A k \in 1 .. j : f[k] = p[k]) /\ x \in V
      BY <2>2, <3>1, <3>2, <3>3
    <3>5. PICK b : b = Append(f, x)
      OBVIOUS
    <3>6. b \in Seq(V) /\ Len(b) = j + 1 /\ (\A k \in 1 .. j : b[k] = f[k]) /\ b[j + 1] = x
      BY <2>1, <3>4, <3>5
    <3>7. \A k \in 1 .. j + 1 : b[k] = p[k]
      <4>1. \A k \in 1 .. j + 1 : k \in 1 .. j \/ k = j + 1
        BY <2>1
      <4> QED
        BY <3>3, <3>4, <3>6, <4>1
    <3>8. b = [k \in 1 .. j + 1 |-> b[k]]
      BY <3>6
    <3>9. b = First(p, j + 1)
      BY <3>7, <3>8 DEF First
    <3> QED
      BY <3>2, <3>3, <3>5, <3>9
  <2>4. FlattenSeq(First(p, j + 1)) = sub(0, at(j)) \o p[j + 1]
    <3>1. PICK f : f = First(p, j)
      OBVIOUS
    <3>2. PICK x : x = p[j + 1]
      OBVIOUS
    <3>3. FlattenSeq(Append(f, x)) = FlattenSeq(f) \o x
      BY <2>2, <3>1, <3>2, FlattenStep DEF V
    <3> QED
      BY <2>1, <2>3, <3>1, <3>2, <3>3, Zenon
  <2>5. /\ at(j) \in Nat /\ at(j + 1) \in Nat /\ at(j) <= at(j + 1) /\ at(j + 1) <= n
        /\ p[j + 1] = sub(at(j), at(j + 1))
    BY <1>5
  <2>6. sub(0, at(j)) \o p[j + 1] = sub(0, at(j + 1))
    BY <1>2, <2>5
  <2> QED
    BY <2>1, <2>4, <2>6
<1>12. m \in T
  <2> HIDE DEF T
  <2>1. \A k \in 0 .. m : k \in T
    BY <1>1, <1>10, <1>11, Reached
  <2> QED
    BY <1>1, <2>1
<1>13. FlattenSeq(p) = t
  BY <1>3, <1>6, <1>9, <1>12
<1> QED
  BY <1>7, <1>8, <1>13 DEF V, m

\* The last text of the list is not empty.
Solid(s) == s # <<>> => s[Len(s)] # <<>>

\* An oversized block is cut into sentences or lines, none of it lost.
PiecesOf(b) == IF b.kind = "prose" THEN Sentences(b.lines) ELSE Lines(b.lines)

LEMMA PiecesFacts ==
    ASSUME doc \in Documents, NEW L \in SUBSET LinesOf(doc), NEW b \in BlocksOf(doc, L)
    PROVE  /\ PiecesOf(b) \in Seq(Seq(Words(L))) /\ PiecesOf(b) # <<>> /\ Solid(PiecesOf(b))
           /\ Join(PiecesOf(b)) = TextIn(doc, b.lines) /\ Text(b.lines) = TextIn(doc, b.lines)
<1> DEFINE ls == b.lines
           W == Words(L)
           t == TextIn(doc, ls)
<1>1. /\ ls \in Seq(L) /\ Len(ls) \in Nat \ {0} /\ KindOf(doc, ls[Len(ls)]) # "blank"
      /\ t \in Seq(W) /\ t # <<>>
  BY BlockFacts
<1>2. Text(ls) = t /\ Lines(ls) = EachIn(doc, ls)
  <2>1. \A l : Units(l) = UnitsIn(doc, l)
    BY DEF Units, UnitsIn
  <2> QED
    BY <2>1 DEF Text, TextIn, EachIn, Lines
<1>3. CASE b.kind = "prose"
  <2> DEFINE E == {k \in DOMAIN t : \/ k = Len(t)
                                    \/ Is(t[k][1], "text") /\ t[k][2] \in doc[t[k][1]].stops}
             q == Among(Len(t), E)
             p == [j \in DOMAIN q |-> SubSeq(t, IF j = 1 THEN 1 ELSE q[j - 1] + 1, q[j])]
  <2>1. PiecesOf(b) = p
    BY <1>2, <1>3 DEF PiecesOf, Sentences
  <2>2. Len(t) \in Nat \ {0} /\ DOMAIN t = 1 .. Len(t) /\ Len(t) \in E
    <3>1. Len(t) \in Nat \ {0} /\ DOMAIN t = 1 .. Len(t)
      <4> HIDE DEF t, W
      <4> QED
        BY <1>1
    <3> QED
      BY <3>1
  <2> HIDE DEF E, t
  <2>3. Lists(q, Len(t), E)
    BY <2>2, AmongLists
  <2> HIDE DEF q
  <2>4. /\ q \in Seq(Nat) /\ Rising(q) /\ Len(q) \in Nat /\ DOMAIN q = 1 .. Len(q)
        /\ \A i \in 1 .. Len(q) : q[i] \in 1 .. Len(t)
        /\ \E i \in 1 .. Len(q) : q[i] = Len(t)
    <3>1. /\ q \in Seq(Nat) /\ Rising(q) /\ (\A i \in 1 .. Len(q) : q[i] \in 1 .. Len(t))
          /\ \A x \in 1 .. Len(t) : x \in E => \E i \in 1 .. Len(q) : q[i] = x
      BY <2>3, Zenon DEF Lists
    <3>2. Len(t) \in 1 .. Len(t)
      BY <2>2
    <3>3. \E i \in 1 .. Len(q) : q[i] = Len(t)
      BY <2>2, <3>1, <3>2, Zenon
    <3>4. Len(q) \in Nat /\ DOMAIN q = 1 .. Len(q)
      BY <3>1
    <3> QED
      BY <3>1, <3>3, <3>4, Zenon
  <2>5. Len(q) # 0 /\ q[Len(q)] = Len(t)
    <3>1. PICK i \in 1 .. Len(q) : q[i] = Len(t)
      BY <2>4
    <3>2. Len(q) # 0 /\ Len(q) \in 1 .. Len(q)
      BY <2>4, <3>1
    <3>3. q[Len(q)] \in 1 .. Len(t)
      BY <2>4, <3>2
    <3>4. i < Len(q) => q[i] < q[Len(q)]
      BY <3>2, <2>4 DEF Rising
    <3> QED
      BY <2>2, <2>4, <3>1, <3>2, <3>3, <3>4
  <2>6. Cuts(p, t, q)
    BY <2>4 DEF Cuts
  <2> HIDE DEF p
  <2>7. /\ p \in Seq(Seq(W)) /\ Len(p) = Len(q) /\ FlattenSeq(p) = t
        /\ \A j \in 1 .. Len(p) : p[j] # <<>>
    <3>1. t \in Seq(W)
      BY <1>1 DEF t
    <3> QED
      BY <2>4, <2>5, <2>6, <3>1, CutUp
  <2>8. p # <<>> /\ p[Len(p)] # <<>>
    <3>1. Len(p) # 0 /\ Len(p) \in 1 .. Len(p)
      BY <2>4, <2>5, <2>7
    <3>2. p # <<>>
      BY <3>1
    <3> QED
      BY <2>7, <3>1, <3>2
  <2> QED
    BY <1>2, <2>1, <2>7, <2>8 DEF Join, Solid, t
<1>4. CASE b.kind # "prose"
  <2>1. PiecesOf(b) = EachIn(doc, ls)
    BY <1>2, <1>4 DEF PiecesOf
  <2> DEFINE e == EachIn(doc, ls)
  <2>2. /\ e \in Seq(Seq(W)) /\ Len(e) = Len(ls)
        /\ \A k \in 1 .. Len(ls) : e[k] = UnitsIn(doc, ls[k])
    BY <1>1, TextFacts
  <2> HIDE DEF e, ls
  <2>3. Len(e) # 0 /\ Len(ls) \in 1 .. Len(ls) /\ ls[Len(ls)] \in L
    BY <1>1, <2>2
  <2>4. e[Len(e)] # <<>>
    BY <1>1, <2>2, <2>3, UnitsFacts
  <2>5. e # <<>>
    BY <2>2, <2>3
  <2>6. Join(e) = t
    BY DEF Join, TextIn, e, ls
  <2> QED
    BY <1>2, <2>1, <2>2, <2>4, <2>5, <2>6 DEF Solid, e, ls
<1> QED
  BY <1>3, <1>4

\* The text of the chunks m.
MadeText(m) == FlattenSeq([i \in DOMAIN m |-> Join(m[i].parts)])

LEMMA ChunkFacts ==
    ASSUME NEW d \in Documents, NEW c \in ChunksOf(d)
    PROVE  /\ IsChunk(c) /\ c.path \in Seq(LinesOf(d)) /\ c.order \in Nat
           /\ c.previous \in Nat \cup {NoLink} /\ c.next \in Nat \cup {NoLink}
           /\ c.parts \in Seq(Seq(Words(Under(d, c.path)))) /\ c.parts # <<>>
           /\ Join(c.parts) \in Seq(Words(LinesOf(d)))
<1>1. PICK p \in Seq(LinesOf(d)) :
          c \in [path : {p}, parts : Seq(Seq(Words(Under(d, p)))) \ {<<>>}, order : Nat,
                 previous : Nat \cup {NoLink}, next : Nat \cup {NoLink}]
  BY DEF ChunksOf
<1>2. /\ IsChunk(c) /\ c.path = p /\ c.order \in Nat
      /\ c.previous \in Nat \cup {NoLink} /\ c.next \in Nat \cup {NoLink}
      /\ c.parts \in Seq(Seq(Words(Under(d, p)))) /\ c.parts # <<>>
  BY <1>1 DEF IsChunk
<1>3. Join(c.parts) \in Seq(Words(Under(d, p)))
  BY <1>2, FlattenType DEF Join
<1>4. Join(c.parts) \in Seq(Words(LinesOf(d)))
  BY <1>3, UnderLines, Wider
<1> QED
  BY <1>1, <1>2, <1>4

\* A chunk is put behind others.
Makes(d, M, S, e) ==
    /\ MadeText(e) = e
    /\ \A m \in M : MadeText(m) \in S
    /\ \A m \in M : \A c \in ChunksOf(d) :
          Append(m, c) \in M /\ MadeText(Append(m, c)) = Cat(MadeText(m), Join(c.parts))

LEMMA MakesFacts ==
    ASSUME NEW d \in Documents
    PROVE  Makes(d, Seq(ChunksOf(d)), Seq(Words(LinesOf(d))), <<>>)
<1> DEFINE V == ChunksOf(d)
           S == Seq(Words(LinesOf(d)))
           f == [c \in V |-> Join(c.parts)]
<1>1. Maps(f, V, S) /\ \A c \in V : f[c] = Join(c.parts)
  BY ChunkFacts DEF Maps
<1> HIDE DEF V
<1>2. \A r \in Seq(V) : MadeText(r) = FlattenSeq(Mapped(f, r))
  <2> TAKE r \in Seq(V)
  <2>1. DOMAIN r = 1 .. Len(r) /\ \A k \in 1 .. Len(r) : r[k] \in V
    OBVIOUS
  <2> QED
    BY <2>1 DEF MadeText, Mapped
<1> HIDE DEF f
<1>3. /\ FlattenSeq(Mapped(f, <<>>)) = <<>>
      /\ \A r \in Seq(V) : FlattenSeq(Mapped(f, r)) \in S
      /\ \A r \in Seq(V) : \A c \in V :
            FlattenSeq(Mapped(f, Append(r, c))) = FlattenSeq(Mapped(f, r)) \o f[c]
  <2> DEFINE g(r) == FlattenSeq(Mapped(f, r))
  <2>1. g(<<>>) = <<>> /\ (\A r \in Seq(V) : g(r) \in S)
        /\ \A r \in Seq(V) : \A c \in V : g(Append(r, c)) = g(r) \o f[c]
    BY <1>1, MappedText
  <2> QED
    BY <2>1
<1>4. <<>> \in Seq(V) /\ \A r \in Seq(V) : \A c \in V : Append(r, c) \in Seq(V)
  OBVIOUS
<1> HIDE DEF S
<1>5. MadeText(<<>>) = <<>>
  BY <1>2, <1>3, <1>4, Zenon
<1>6. \A m \in Seq(V) : MadeText(m) \in S
  BY <1>2, <1>3, Zenon
<1>7. \A m \in Seq(V) : \A c \in V :
         Append(m, c) \in Seq(V) /\ MadeText(Append(m, c)) = MadeText(m) \o Join(c.parts)
  BY <1>1, <1>2, <1>3, <1>4
<1> QED
  BY <1>5, <1>6, <1>7, Zenon DEF Makes, Cat, V, S

\* The end of one text is moved to the beginning of the next.
LEMMA Moved ==
    ASSUME NEW S, NEW e, Texted(S, e), NEW m \in S, NEW k \in S, NEW x \in S, NEW p \in S, NEW r \in S
    PROVE  /\ Cat(m, Cat(k, Cat(Cat(x, p), r))) = Cat(Cat(Cat(m, k), x), Cat(p, r))
           /\ Cat(Cat(m, k), Cat(p, r)) = Cat(m, Cat(k, Cat(p, r)))
<1>1. /\ \A a, b, c \in S : Cat(Cat(a, b), c) = Cat(a, Cat(b, c))
      /\ \A a, b \in S : Cat(a, b) \in S
  BY Zenon DEF Texted
<1>2. Cat(m, k) \in S /\ Cat(p, r) \in S /\ Cat(x, Cat(p, r)) \in S /\ Cat(Cat(m, k), x) \in S
  BY <1>1, Zenon
<1>3. Cat(Cat(x, p), r) = Cat(x, Cat(p, r))
  BY <1>1
<1>4. Cat(m, Cat(k, Cat(x, Cat(p, r)))) = Cat(Cat(m, k), Cat(x, Cat(p, r)))
  BY <1>1, <1>2
<1>5. Cat(Cat(m, k), Cat(x, Cat(p, r))) = Cat(Cat(Cat(m, k), x), Cat(p, r))
  BY <1>1, <1>2
<1>6. Cat(Cat(m, k), Cat(p, r)) = Cat(m, Cat(k, Cat(p, r)))
  BY <1>1, <1>2
<1> QED
  BY <1>3, <1>4, <1>5, <1>6

\* The text of all the lines.
Whole == Covered(doc, Len(doc))

\* While sections are chunked, the text is in the chunks, in the parts, in the
\* pieces of a block, or still in the blocks.
Conserved ==
    LET M == MadeText(Made)
        P == Join(parts)
        B == BlocksText(doc, blocks)
        Z == SectionsText(doc, Tail(sections))
    IN  /\ phase \in {"section", "done"} => Cat(M, SectionsText(doc, sections)) = Whole
        /\ phase = "split" => Cat(M, Cat(P, Cat(B, Z))) = Whole
        /\ phase = "group" =>
              Cat(M, Cat(P, Cat(Join(items), Cat(Join(open),
                  Cat(Join(pieces), Cat(BlocksText(doc, Tail(blocks)), Z)))))) = Whole
        /\ phase = "cut" => Cat(M, Cat(P, Cat(Join(items), Cat(B, Z)))) = Whole
        /\ phase = "pack" => Cat(M, Cat(Join(packed), Cat(P, Z))) = Whole

TInv == PInv /\ Conserved

AllText == Seq(Words(LinesOf(doc)))
UnderText == Seq(Words(Under(doc, Here)))

LEMMA Texts0 ==
    ASSUME PInv
    PROVE  /\ doc \in Documents /\ UnderText \subseteq AllText /\ Seq(UnderText) \subseteq Seq(AllText)
           /\ Texted(AllText, <<>>) /\ Texted(UnderText, <<>>)
           /\ Joins(Seq(AllText), AllText, <<>>) /\ Joins(Seq(UnderText), UnderText, <<>>)
           /\ Makes(doc, Seq(ChunksOf(doc)), AllText, <<>>)
           /\ Made \in Seq(ChunksOf(doc)) /\ MadeText(Made) \in AllText
<1>1. doc \in Documents
  BY DEF PInv, Fields
<1>2. UnderText \subseteq AllText
  BY UnderLines, Wider DEF UnderText, AllText
<1>3. Seq(UnderText) \subseteq Seq(AllText)
  BY <1>2, Wider
<1>4. Texted(AllText, <<>>) /\ Texted(UnderText, <<>>)
  BY TextsJoin DEF UnderText, AllText
<1>5. Joins(Seq(AllText), AllText, <<>>) /\ Joins(Seq(UnderText), UnderText, <<>>)
  BY JoinFacts DEF UnderText, AllText
<1>6. Makes(doc, Seq(ChunksOf(doc)), AllText, <<>>)
  BY <1>1, MakesFacts DEF AllText
<1>7. Made \in Seq(ChunksOf(doc))
  <2>1. chunks \in Seq(ChunksOf(doc)) /\ fresh \in Seq(ChunksOf(doc))
    BY DEF PInv, Fields
  <2> QED
    BY <2>1 DEF Made
<1>8. MadeText(Made) \in AllText
  BY <1>6, <1>7, Zenon DEF Makes
<1> QED
  BY <1>1, <1>2, <1>3, <1>4, <1>5, <1>6, <1>7, <1>8

LEMMA Texts1 ==
    ASSUME PInv
    PROVE  /\ pieces \in Seq(UnderText) /\ open \in Seq(UnderText) /\ items \in Seq(UnderText)
           /\ parts \in Seq(UnderText) /\ packed \in Seq(UnderText)
           /\ Join(pieces) \in AllText /\ Join(open) \in AllText /\ Join(items) \in AllText
           /\ Join(parts) \in AllText /\ Join(packed) \in AllText
           /\ Join(open) \in UnderText
<1>1. /\ pieces \in Seq(UnderText) /\ open \in Seq(UnderText) /\ items \in Seq(UnderText)
      /\ parts \in Seq(UnderText) /\ packed \in Seq(UnderText)
  BY Zenon DEF PInv, Fields, UnderText
<1>2. \A s \in Seq(UnderText) : Join(s) \in UnderText
  BY Texts0, Zenon DEF Joins
<1>3. \A s \in Seq(UnderText) : Join(s) \in AllText
  BY <1>2, Texts0
<1> QED
  BY <1>1, <1>2, <1>3, Zenon

LEMMA Texts2 ==
    ASSUME PInv, ~Parses
    PROVE  /\ BlocksText(doc, blocks) \in AllText
           /\ blocks # <<>> =>
                 /\ Head(blocks) \in BlocksOf(doc, Under(doc, Here))
                 /\ Tail(blocks) \in Seq(BlocksOf(doc, Under(doc, Here)))
                 /\ TextIn(doc, Head(blocks).lines) \in UnderText
                 /\ BlocksText(doc, Tail(blocks)) \in AllText
                 /\ BlocksText(doc, blocks) = Cat(TextIn(doc, Head(blocks).lines), BlocksText(doc, Tail(blocks)))
           /\ BlocksText(doc, <<>>) = <<>>
<1> DEFINE V == Under(doc, Here)
<1>1. V \in SUBSET LinesOf(doc) /\ doc \in Documents /\ UnderText \subseteq AllText
  BY UnderLines, Texts0
<1>2. blocks \in Seq(BlocksOf(doc, V))
  BY DEF PInv, Fields, Place
<1>3. blocks # <<>> => Head(blocks) \in BlocksOf(doc, V) /\ Tail(blocks) \in Seq(BlocksOf(doc, V))
  <2> HIDE DEF V
  <2> QED
    BY <1>2
<1>4. \A bs \in Seq(BlocksOf(doc, V)) : BlocksText(doc, bs) \in UnderText
  BY <1>1, BlocksFacts DEF UnderText
<1>5. \A bs \in Seq(BlocksOf(doc, V)) : BlocksText(doc, bs) \in AllText
  BY <1>1, <1>4
<1>6. blocks # <<>> => BlocksText(doc, blocks) = TextIn(doc, Head(blocks).lines) \o BlocksText(doc, Tail(blocks))
  BY <1>1, <1>2, BlocksFacts
<1>7. blocks # <<>> => TextIn(doc, Head(blocks).lines) \in UnderText
  BY <1>1, <1>3, BlockFacts DEF UnderText
<1>8. BlocksText(doc, <<>>) = <<>>
  BY <1>1, EmptyTexts
<1> HIDE DEF V
<1> QED
  BY <1>2, <1>3, <1>5, <1>6, <1>7, <1>8 DEF Cat, V

LEMMA Texts3 ==
    ASSUME PInv
    PROVE  /\ SectionsText(doc, sections) \in AllText
           /\ sections # <<>> =>
                 /\ sections[1] \in SectionsOf(doc) /\ Tail(sections) \in Seq(SectionsOf(doc))
                 /\ SectionsText(doc, Tail(sections)) \in AllText
                 /\ sections[1].blocks \in Seq(BlocksOf(doc, Under(doc, Here)))
                 /\ sections[1].blocks # <<>> /\ Here \in Seq(LinesOf(doc))
                 /\ BlocksText(doc, sections[1].blocks) \in AllText
                 /\ SectionsText(doc, sections)
                       = Cat(BlocksText(doc, sections[1].blocks), SectionsText(doc, Tail(sections)))
           /\ SectionsText(doc, <<>>) = <<>>
<1>1. doc \in Documents /\ sections \in Seq(SectionsOf(doc))
  BY DEF PInv, Fields
<1>2. \A ss \in Seq(SectionsOf(doc)) : SectionsText(doc, ss) \in AllText
  BY <1>1, SectionsFacts DEF AllText
<1>3. SectionsText(doc, <<>>) = <<>>
  BY <1>1, EmptyTexts
<1>4. ASSUME sections # <<>>
      PROVE  /\ sections[1] \in SectionsOf(doc) /\ Tail(sections) \in Seq(SectionsOf(doc))
             /\ Head(sections) = sections[1]
  BY <1>1, <1>4
<1>5. ASSUME sections # <<>>
      PROVE  SectionsText(doc, sections)
                = BlocksText(doc, Head(sections).blocks) \o SectionsText(doc, Tail(sections))
  BY <1>1, <1>5, SectionsFacts
<1>6. ASSUME sections # <<>>
      PROVE  /\ sections[1].blocks \in Seq(BlocksOf(doc, Under(doc, Here))) /\ sections[1].blocks # <<>>
             /\ BlocksText(doc, sections[1].blocks) \in AllText /\ Here \in Seq(LinesOf(doc))
  BY <1>1, <1>4, <1>6, SectionFacts DEF AllText, Here
<1> QED
  BY <1>1, <1>2, <1>3, <1>4, <1>5, <1>6 DEF Cat

\* Texts put together in another way.
LEMMA Regroup ==
    ASSUME NEW S, NEW e, Texted(S, e), NEW a \in S, NEW b \in S, NEW c \in S, NEW r \in S
    PROVE  /\ Cat(a, Cat(Cat(b, c), r)) = Cat(Cat(a, b), Cat(c, r))
           /\ Cat(Cat(a, b), c) = Cat(a, Cat(b, c))
           /\ Cat(e, a) = a /\ Cat(a, e) = a /\ Cat(a, b) \in S /\ e \in S
<1>1. /\ \A x, y, z \in S : Cat(Cat(x, y), z) = Cat(x, Cat(y, z))
      /\ \A x, y \in S : Cat(x, y) \in S
      /\ (\A x \in S : Cat(x, e) = x /\ Cat(e, x) = x) /\ e \in S
  BY Zenon DEF Texted
<1>2. Cat(b, c) \in S /\ Cat(c, r) \in S
  BY <1>1
<1>3. Cat(Cat(b, c), r) = Cat(b, Cat(c, r)) /\ Cat(Cat(a, b), Cat(c, r)) = Cat(a, Cat(b, Cat(c, r)))
  BY <1>1, <1>2
<1> QED
  BY <1>1, <1>3

LEMMA TextInit ==
    ASSUME Init
    PROVE  TInv
<1>1. phase = "read"
  BY DEF Init
<1> QED
  BY <1>1, ScanInit DEF TInv, Conserved

\* While the lines are parsed no text is chunked.
LEMMA TextParsed ==
    ASSUME TInv, ReadLine \/ Flush \/ ReadHeading \/ BuildLine \/ EndBuild
    PROVE  TInv'
<1>1. PInv'
  BY LineRead, SectionFlushed, HeadingRead, LineBuilt, BlocksBuilt DEF TInv
<1>2. phase' \in {"read", "build"}
  BY DEF ReadLine, Flush, ReadHeading, BuildLine, EndBuild
<1> QED
  BY <1>1, <1>2 DEF TInv, Conserved

LEMMA AllParsed ==
    ASSUME TInv, EndRead
    PROVE  TInv'
<1>1. /\ phase = "read" /\ AtEnd /\ buffer = <<>> /\ phase' = "section"
      /\ UNCHANGED <<doc, line, fence, path, buffer, inner, current, blocks, sections, pieces, open,
                     items, parts, packed, fresh, chunks>>
  BY DEF EndRead, parsing, building, splitting, packing
<1>2. PInv /\ Parses /\ ~Parses' /\ Here' = Here
  BY <1>1 DEF TInv, Parses, Here
<1>3. doc \in Documents /\ Len(doc) \in Nat /\ Turn = Len(doc) + 1
  BY <1>1, <1>2, ScanFacts DEF AtEnd
<1>4. /\ blocks = <<>> /\ pieces = <<>> /\ open = <<>> /\ items = <<>> /\ parts = <<>> /\ packed = <<>>
      /\ fresh = <<>> /\ chunks = <<>> /\ current = <<>>
  BY <1>1, <1>2 DEF PInv, Idle, Scanned
<1>5. Fields'
  <2>1. blocks' \in Seq(BlocksOf(doc', Under(doc', Place')))
    BY <1>1, <1>4
  <2> QED
    BY <1>1, <1>2, <2>1 DEF PInv, Fields, Phases
<1>6. Idle'
  BY <1>1, <1>2, <1>4 DEF Idle, InSection
<1>7. PInv'
  BY <1>2, <1>5, <1>6 DEF PInv
<1> DEFINE Z == SectionsText(doc, sections)
<1>8. Z = Whole
  <2>1. Z \o (BlocksText(doc, <<>>) \o TextIn(doc, Pending(doc, <<>>))) = Covered(doc, Turn - 1)
    BY <1>2, <1>4 DEF PInv, Filed
  <2>2. BlocksText(doc, <<>>) = <<>> /\ TextIn(doc, Pending(doc, <<>>)) = <<>>
    BY <1>3, EmptyTexts
  <2>3. Z \in AllText
    BY <1>2, Texts3
  <2> HIDE DEF Z
  <2>4. Z \o (<<>> \o <<>>) = Z
    BY <2>3 DEF AllText
  <2>5. Turn - 1 = Len(doc)
    BY <1>3
  <2> QED
    BY <2>1, <2>2, <2>4, <2>5 DEF Whole
<1>9. Cat(MadeText(Made'), Z) = Z
  <2>1. Made' = <<>>
    BY <1>1, <1>4 DEF Made
  <2>2. MadeText(Made') = <<>>
    BY <1>2, <2>1, Texts0 DEF Makes
  <2>3. Z \in AllText /\ Texted(AllText, <<>>)
    BY <1>2, Texts0, Texts3
  <2> HIDE DEF Z
  <2> QED
    BY <2>2, <2>3, Zenon DEF Texted
<1>10. Conserved'
  <2>1. Whole' = Whole /\ SectionsText(doc, sections)' = Z
    BY <1>1 DEF Whole
  <2>2. Cat(MadeText(Made), SectionsText(doc, sections))' = Whole'
    BY <1>1, <1>8, <1>9, <2>1
  <2> HIDE DEF Z
  <2> QED
    BY <1>1, <2>2 DEF Conserved
<1> QED
  BY <1>7, <1>10 DEF TInv

\* The fields while sections are chunked.
LEMMA MovesOn ==
    ASSUME PInv, ~Parses, phase' \in Phases, ~Parses',
           UNCHANGED <<doc, line, fence, path, buffer, inner, current>>, Here' = Here,
           sections' \in Seq(SectionsOf(doc)), blocks' \in Seq(BlocksOf(doc, Under(doc, Here))),
           pieces' \in Seq(UnderText), open' \in Seq(UnderText), items' \in Seq(UnderText),
           parts' \in Seq(UnderText), packed' \in Seq(UnderText),
           fresh' \in Seq(ChunksOf(doc)), chunks' \in Seq(ChunksOf(doc))
    PROVE  Fields'
<1>1. Place' = Here
  BY DEF Place
<1> QED
  BY <1>1 DEF PInv, Fields, UnderText

\* The text of the sections after the first.
Behind == SectionsText(doc, Tail(sections))

\* What the chunking steps start from.
LEMMA Texts4 ==
    ASSUME PInv, ~Parses
    PROVE  /\ sections \in Seq(SectionsOf(doc)) /\ blocks \in Seq(BlocksOf(doc, Under(doc, Here)))
           /\ fresh \in Seq(ChunksOf(doc)) /\ chunks \in Seq(ChunksOf(doc))
           /\ sections # <<>> => Behind \in AllText
           /\ phase \in {"section", "split"} => pieces = <<>> /\ open = <<>> /\ items = <<>>
           /\ phase = "cut" => pieces = <<>> /\ open = <<>>
           /\ phase \in {"section", "split", "group", "cut"} => packed = <<>> /\ fresh = <<>>
           /\ phase = "section" => parts = <<>>
           /\ phase \in {"section", "pack"} => blocks = <<>>
           /\ InSection => sections # <<>>
           /\ phase = "group" => blocks # <<>>
           /\ phase = "pack" => pieces = <<>> /\ open = <<>> /\ items = <<>>
<1>1. /\ sections \in Seq(SectionsOf(doc)) /\ blocks \in Seq(BlocksOf(doc, Under(doc, Here)))
      /\ fresh \in Seq(ChunksOf(doc)) /\ chunks \in Seq(ChunksOf(doc))
  BY DEF PInv, Fields, Place
<1>2. sections # <<>> => Behind \in AllText
  BY Texts3 DEF Behind
<1> QED
  BY <1>1, <1>2 DEF PInv, Idle, InSection

LEMMA SectionStarted ==
    ASSUME TInv, StartSection
    PROVE  TInv'
<1>1. /\ phase = "section" /\ sections # <<>> /\ phase' = "split" /\ blocks' = sections[1].blocks
      /\ UNCHANGED <<doc, line, fence, path, buffer, inner, current, sections, pieces, open,
                     items, parts, packed, fresh, chunks>>
  BY DEF StartSection, parsing, building, splitting, packing
<1>2. PInv /\ ~Parses /\ ~Parses' /\ Here' = Here
  BY <1>1 DEF TInv, Parses, Here
<1>3. /\ pieces = <<>> /\ open = <<>> /\ items = <<>> /\ parts = <<>> /\ packed = <<>> /\ fresh = <<>>
      /\ Behind \in AllText
  BY <1>1, <1>2, Texts4
<1>4. /\ blocks' \in Seq(BlocksOf(doc, Under(doc, Here))) /\ BlocksText(doc, blocks') \in AllText
      /\ SectionsText(doc, sections) = Cat(BlocksText(doc, blocks'), Behind)
  BY <1>1, <1>2, Texts3 DEF Behind
<1>5. Fields'
  <2>1. phase' \in Phases
    BY <1>1 DEF Phases
  <2>2. /\ pieces' \in Seq(UnderText) /\ open' \in Seq(UnderText) /\ items' \in Seq(UnderText)
        /\ parts' \in Seq(UnderText) /\ packed' \in Seq(UnderText)
    BY <1>1, <1>2, Texts1
  <2>3. sections' \in Seq(SectionsOf(doc)) /\ fresh' \in Seq(ChunksOf(doc)) /\ chunks' \in Seq(ChunksOf(doc))
    BY <1>1, <1>2, Texts4
  <2> QED
    BY <1>1, <1>2, <1>4, <2>1, <2>2, <2>3, MovesOn
<1>6. Idle'
  BY <1>1, <1>2, <1>3 DEF Idle, InSection
<1>7. Conserved'
  <2>1. Made' = Made /\ Whole' = Whole /\ Behind' = Behind
    BY <1>1 DEF Made, Whole, Behind
  <2>2. Cat(MadeText(Made), SectionsText(doc, sections)) = Whole
    BY <1>1 DEF TInv, Conserved
  <2>3. Join(<<>>) = <<>> /\ Cat(<<>>, Cat(BlocksText(doc, blocks'), Behind)) = Cat(BlocksText(doc, blocks'), Behind)
    BY <1>2, <1>3, <1>4, Texts0, Regroup DEF Joins
  <2>4. Cat(MadeText(Made'), Cat(Join(parts'), Cat(BlocksText(doc', blocks'), Behind'))) = Whole'
    BY <1>1, <1>3, <1>4, <2>1, <2>2, <2>3
  <2> QED
    BY <1>1, <2>4 DEF Conserved, Behind
<1> QED
  BY <1>2, <1>5, <1>6, <1>7 DEF TInv, PInv

LEMMA BlockSplit ==
    ASSUME TInv, SplitBlock
    PROVE  TInv'
<1> DEFINE b == Head(blocks)
           x == TextIn(doc, b.lines)
<1>1. /\ phase = "split" /\ blocks # <<>>
      /\ UNCHANGED <<doc, line, fence, path, buffer, inner, current, sections, open, items,
                     packed, fresh, chunks>>
  BY DEF SplitBlock, parsing, building
<1>2. \/ phase' = "split" /\ parts' = Append(parts, Text(b.lines)) /\ blocks' = Tail(blocks) /\ pieces' = pieces
      \/ phase' = "group" /\ pieces' = PiecesOf(b) /\ parts' = parts /\ blocks' = blocks
  BY <1>1 DEF SplitBlock, PiecesOf
<1>3. PInv /\ ~Parses /\ ~Parses' /\ Here' = Here
  BY <1>1, <1>2 DEF TInv, Parses, Here
<1>4. /\ pieces = <<>> /\ open = <<>> /\ items = <<>> /\ packed = <<>> /\ fresh = <<>> /\ sections # <<>>
      /\ Behind \in AllText
  BY <1>1, <1>3, Texts4 DEF InSection
<1>5. /\ b \in BlocksOf(doc, Under(doc, Here)) /\ Tail(blocks) \in Seq(BlocksOf(doc, Under(doc, Here)))
      /\ x \in UnderText /\ BlocksText(doc, Tail(blocks)) \in AllText
      /\ BlocksText(doc, blocks) = Cat(x, BlocksText(doc, Tail(blocks)))
      /\ BlocksText(doc, blocks) \in AllText
  BY <1>1, <1>3, Texts2
<1>6. /\ PiecesOf(b) \in Seq(UnderText) /\ Join(PiecesOf(b)) = x /\ Text(b.lines) = x
  BY <1>3, <1>5, UnderLines, Texts0, PiecesFacts DEF UnderText
<1>7. /\ parts \in Seq(UnderText) /\ Join(parts) \in AllText
      /\ Append(parts, x) \in Seq(UnderText) /\ Join(Append(parts, x)) = Cat(Join(parts), x)
      /\ pieces \in Seq(UnderText) /\ open \in Seq(UnderText) /\ items \in Seq(UnderText)
      /\ packed \in Seq(UnderText) /\ x \in AllText /\ Join(<<>>) = <<>>
  BY <1>3, <1>5, Texts0, Texts1 DEF Joins
<1>8. Fields'
  <2>1. phase' \in Phases
    BY <1>2 DEF Phases
  <2>2. /\ blocks' \in Seq(BlocksOf(doc, Under(doc, Here))) /\ sections' \in Seq(SectionsOf(doc))
        /\ fresh' \in Seq(ChunksOf(doc)) /\ chunks' \in Seq(ChunksOf(doc))
    BY <1>1, <1>2, <1>3, <1>5, Texts4
  <2>3. /\ pieces' \in Seq(UnderText) /\ open' \in Seq(UnderText) /\ items' \in Seq(UnderText)
        /\ parts' \in Seq(UnderText) /\ packed' \in Seq(UnderText)
    BY <1>1, <1>2, <1>6, <1>7
  <2> QED
    BY <1>1, <1>3, <2>1, <2>2, <2>3, MovesOn
<1>9. Idle'
  BY <1>1, <1>2, <1>3, <1>4 DEF Idle, InSection
<1>10. Conserved'
  <2> DEFINE M == MadeText(Made)
             P == Join(parts)
             B == BlocksText(doc, Tail(blocks))
             Z == Behind
  <2>1. Made' = Made /\ Whole' = Whole /\ Behind' = Behind
    BY <1>1 DEF Made, Whole, Behind
  <2>2. Cat(M, Cat(P, Cat(Cat(x, B), Z))) = Whole
    BY <1>1, <1>5 DEF TInv, Conserved, Behind
  <2>3. /\ M \in AllText /\ P \in AllText /\ B \in AllText /\ Z \in AllText /\ x \in AllText
        /\ Texted(AllText, <<>>)
    BY <1>3, <1>4, <1>5, <1>7, Texts0
  <2> HIDE DEF M, P, B, Z, x
  <2>4. Cat(M, Cat(Cat(P, x), Cat(B, Z))) = Whole
    BY <2>2, <2>3, Regroup
  <2>5. Cat(<<>>, Cat(<<>>, Cat(x, Cat(B, Z)))) = Cat(Cat(x, B), Z)
    <3>1. Cat(B, Z) \in AllText /\ Cat(x, Cat(B, Z)) \in AllText
      BY <2>3, Regroup
    <3> QED
      BY <2>3, <3>1, Regroup
  <2>6. CASE phase' = "split" /\ parts' = Append(parts, Text(b.lines)) /\ blocks' = Tail(blocks)
    <3>1. Join(parts') = Cat(P, x) /\ BlocksText(doc', blocks') = B /\ MadeText(Made') = M
      BY <1>1, <1>6, <1>7, <2>1, <2>6 DEF M, P, B
    <3>2. Cat(MadeText(Made'), Cat(Join(parts'), Cat(BlocksText(doc', blocks'), Behind'))) = Whole'
      BY <2>1, <2>4, <3>1 DEF Z
    <3> QED
      BY <2>6, <3>2 DEF Conserved, Behind
  <2>7. CASE phase' = "group" /\ pieces' = PiecesOf(b) /\ parts' = parts /\ blocks' = blocks
    <3>1. /\ Join(parts') = P /\ BlocksText(doc', Tail(blocks')) = B /\ MadeText(Made') = M
          /\ Join(pieces') = x /\ Join(items') = <<>> /\ Join(open') = <<>>
      BY <1>1, <1>4, <1>6, <1>7, <2>1, <2>7 DEF M, P, B
    <3>2. Cat(MadeText(Made'), Cat(Join(parts'), Cat(Join(items'), Cat(Join(open'),
              Cat(Join(pieces'), Cat(BlocksText(doc', Tail(blocks')), Behind')))))) = Whole'
      BY <2>1, <2>2, <2>5, <3>1 DEF Z
    <3> QED
      BY <2>7, <3>2 DEF Conserved, Behind
  <2> QED
    BY <1>2, <2>6, <2>7
<1> QED
  BY <1>3, <1>8, <1>9, <1>10 DEF TInv, PInv

LEMMA PieceGrouped ==
    ASSUME TInv, GroupPiece
    PROVE  TInv'
<1> DEFINE piece == Head(pieces)
           now   == IF Overflows(open, piece) THEN <<piece>> ELSE Append(open, piece)
           ended == IF Overflows(open, piece) THEN <<Join(open)>> ELSE <<>>
<1>1. /\ phase = "group" /\ phase' = "group" /\ pieces # <<>> /\ pieces' = Tail(pieces)
      /\ UNCHANGED <<doc, line, fence, path, buffer, inner, current, blocks, sections, parts,
                     packed, fresh, chunks>>
      /\ \/ items' = items \o ended \o <<Join(now)>> /\ open' = <<>>
         \/ items' = items \o ended /\ open' = now
  BY DEF GroupPiece, parsing, building, packing
<1>2. PInv /\ ~Parses /\ ~Parses' /\ Here' = Here
  BY <1>1 DEF TInv, Parses, Here
<1>3. packed = <<>> /\ fresh = <<>> /\ sections # <<>> /\ blocks # <<>> /\ Behind \in AllText
  BY <1>1, <1>2, Texts4 DEF InSection
<1>4. /\ parts \in Seq(UnderText) /\ Join(parts) \in AllText /\ packed \in Seq(UnderText)
      /\ pieces \in Seq(UnderText) /\ open \in Seq(UnderText) /\ items \in Seq(UnderText)
      /\ Join(items) \in AllText /\ Join(open) \in AllText /\ Join(pieces) \in AllText
      /\ Join(open) \in UnderText
  BY <1>2, Texts1
<1>5. Joins(Seq(UnderText), UnderText, <<>>) /\ Texted(AllText, <<>>) /\ UnderText \subseteq AllText
      /\ Texted(UnderText, <<>>)
  BY <1>2, Texts0
<1>6. /\ piece \in UnderText /\ Tail(pieces) \in Seq(UnderText)
      /\ Join(pieces) = Cat(piece, Join(Tail(pieces))) /\ Join(Tail(pieces)) \in UnderText
  BY <1>1, <1>4, <1>5, Zenon DEF Joins
<1>7. <<>> \in Seq(UnderText) /\ Join(<<>>) = <<>> /\ <<>> \in UnderText
  BY <1>5, Regroup DEF Joins, Texted
<1> HIDE DEF piece
<1>8. /\ now \in Seq(UnderText) /\ ended \in Seq(UnderText)
      /\ Cat(Join(ended), Join(now)) = Cat(Join(open), piece)
  <2>1. CASE Overflows(open, piece)
    <3>1. now = <<piece>> /\ ended = <<Join(open)>>
      BY <2>1
    <3>2. <<piece>> \in Seq(UnderText) /\ Join(<<piece>>) = piece
      BY <1>5, <1>6, Zenon DEF Joins
    <3>3. <<Join(open)>> \in Seq(UnderText) /\ Join(<<Join(open)>>) = Join(open)
      BY <1>4, <1>5, Zenon DEF Joins
    <3> HIDE DEF now, ended
    <3> QED
      BY <3>1, <3>2, <3>3
  <2>2. CASE ~Overflows(open, piece)
    <3>1. now = Append(open, piece) /\ ended = <<>>
      BY <2>2
    <3>2. Append(open, piece) \in Seq(UnderText) /\ Join(Append(open, piece)) = Cat(Join(open), piece)
      BY <1>4, <1>5, <1>6, Zenon DEF Joins
    <3>3. Cat(Join(open), piece) \in UnderText
      BY <1>4, <1>5, <1>6, Regroup
    <3>4. Cat(<<>>, Cat(Join(open), piece)) = Cat(Join(open), piece)
      BY <1>5, <3>3, Zenon DEF Texted
    <3> HIDE DEF now, ended
    <3> QED
      BY <1>7, <3>1, <3>2, <3>4
  <2> QED
    BY <2>1, <2>2
<1> HIDE DEF now, ended
<1>9. /\ items \o ended \in Seq(UnderText) /\ Join(items \o ended) = Cat(Join(items), Join(ended))
      /\ Join(now) \in UnderText /\ Join(ended) \in UnderText /\ Join(items \o ended) \in UnderText
  BY <1>4, <1>5, <1>8, Zenon DEF Joins
<1>10. PICK s : s = items \o ended
  OBVIOUS
<1>11. <<Join(now)>> \in Seq(UnderText) /\ Join(<<Join(now)>>) = Join(now)
  BY <1>5, <1>9, Zenon DEF Joins
<1>12. PICK o : o = <<Join(now)>>
  OBVIOUS
<1>13. s \o o \in Seq(UnderText) /\ Join(s \o o) = Cat(Join(s), Join(now))
  <2>1. s \in Seq(UnderText) /\ o \in Seq(UnderText) /\ Join(o) = Join(now)
    BY <1>9, <1>10, <1>11, <1>12
  <2>2. Join(s \o o) = Cat(Join(s), Join(o)) /\ s \o o \in Seq(UnderText)
    BY <1>5, <2>1, Zenon DEF Joins
  <2> QED
    BY <2>1, <2>2
<1>14. /\ items' \in Seq(UnderText) /\ open' \in Seq(UnderText)
       /\ Cat(Join(items'), Join(open')) = Cat(Cat(Join(items), Join(ended)), Join(now))
  <2>1. CASE items' = items \o ended \o <<Join(now)>> /\ open' = <<>>
    <3>1. items' = s \o o
      BY <1>10, <1>12, <2>1
    <3>2. Cat(Join(s), Join(now)) \in UnderText
      BY <1>5, <1>9, <1>10, Regroup
    <3>3. Cat(Cat(Join(s), Join(now)), <<>>) = Cat(Join(s), Join(now))
      BY <1>5, <3>2, Zenon DEF Texted
    <3> QED
      BY <1>7, <1>9, <1>10, <1>13, <2>1, <3>1, <3>3
  <2>2. CASE items' = items \o ended /\ open' = now
    BY <1>8, <1>9, <2>2
  <2> QED
    BY <1>1, <2>1, <2>2
<1>15. Cat(Join(items'), Join(open')) = Cat(Cat(Join(items), Join(open)), piece)
  <2>1. Join(items) \in UnderText
    BY <1>4, <1>5, Zenon DEF Joins
  <2>2. Cat(Cat(Join(items), Join(ended)), Join(now)) = Cat(Join(items), Cat(Join(ended), Join(now)))
    BY <1>5, <1>9, <2>1, Regroup
  <2>3. Cat(Cat(Join(items), Join(open)), piece) = Cat(Join(items), Cat(Join(open), piece))
    BY <1>4, <1>5, <1>6, <2>1, Regroup
  <2> QED
    BY <1>8, <1>14, <2>2, <2>3
<1>16. Fields'
  <2>1. phase' \in Phases
    BY <1>1 DEF Phases
  <2>2. /\ blocks' \in Seq(BlocksOf(doc, Under(doc, Here))) /\ sections' \in Seq(SectionsOf(doc))
        /\ fresh' \in Seq(ChunksOf(doc)) /\ chunks' \in Seq(ChunksOf(doc))
    BY <1>1, <1>2, Texts4
  <2>3. pieces' \in Seq(UnderText) /\ parts' \in Seq(UnderText) /\ packed' \in Seq(UnderText)
    BY <1>1, <1>4, <1>6
  <2> QED
    BY <1>1, <1>2, <1>14, <2>1, <2>2, <2>3, MovesOn
<1>17. Idle'
  BY <1>1, <1>2, <1>3 DEF Idle, InSection
<1>18. Conserved'
  <2> DEFINE B == BlocksText(doc, Tail(blocks))
             r == Cat(B, Behind)
             i == Join(items)
             k == Join(open)
             p == Join(pieces)
             i1 == Join(items')
             k1 == Join(open')
             p1 == Join(pieces')
  <2>1. Made' = Made /\ Whole' = Whole /\ Behind' = Behind
    BY <1>1 DEF Made, Whole, Behind
  <2>2. Cat(MadeText(Made), Cat(Join(parts), Cat(i, Cat(k, Cat(p, r))))) = Whole
    BY <1>1 DEF TInv, Conserved, Behind
  <2>3. B \in AllText
    BY <1>2, <1>3, Texts2
  <2>4. r \in AllText
    BY <1>3, <1>5, <2>3, Regroup
  <2>5. i1 \in AllText /\ k1 \in AllText /\ p1 \in AllText /\ piece \in AllText
    <3>1. \A t \in Seq(UnderText) : Join(t) \in UnderText
      BY <1>5, Zenon DEF Joins
    <3> QED
      BY <1>1, <1>5, <1>6, <1>14, <3>1
  <2>6. p = Cat(piece, p1) /\ Cat(i1, k1) = Cat(Cat(i, k), piece)
    BY <1>1, <1>6, <1>15
  <2>7. i \in AllText /\ k \in AllText /\ p \in AllText
    BY <1>4
  <2> HIDE DEF i, k, p, i1, k1, p1, r
  <2>8. Cat(i, Cat(k, Cat(p, r))) = Cat(i1, Cat(k1, Cat(p1, r)))
    <3>1. PICK e : e = <<>>
      OBVIOUS
    <3>2. Texted(AllText, e)
      BY <1>5, <3>1
    <3>3. Cat(i, Cat(k, Cat(Cat(piece, p1), r))) = Cat(Cat(Cat(i, k), piece), Cat(p1, r))
      BY <2>4, <2>5, <2>7, <3>2, Moved
    <3>4. Cat(Cat(i1, k1), Cat(p1, r)) = Cat(i1, Cat(k1, Cat(p1, r)))
      BY <2>4, <2>5, <3>2, Moved
    <3> QED
      BY <2>6, <3>3, <3>4
  <2>9. BlocksText(doc', Tail(blocks')) = B /\ parts' = parts
    BY <1>1
  <2>10. Cat(MadeText(Made'), Cat(Join(parts'), Cat(Join(items'), Cat(Join(open'),
              Cat(Join(pieces'), Cat(BlocksText(doc', Tail(blocks')), Behind')))))) = Whole'
    BY <2>1, <2>2, <2>8, <2>9 DEF i1, k1, p1, r
  <2> QED
    BY <1>1, <2>10 DEF Conserved, Behind
<1> QED
  BY <1>2, <1>16, <1>17, <1>18 DEF TInv, PInv

LEMMA GroupEnded ==
    ASSUME TInv, EndGroup
    PROVE  TInv'
<1>1. /\ phase = "group" /\ phase' = "cut" /\ pieces = <<>> /\ pieces' = <<>> /\ open' = <<>>
      /\ items' = items \o (IF open = <<>> THEN <<>> ELSE <<Join(open)>>) /\ blocks' = Tail(blocks)
      /\ UNCHANGED <<doc, line, fence, path, buffer, inner, current, sections, parts,
                     packed, fresh, chunks>>
  BY DEF EndGroup, parsing, building, packing
<1>2. PInv /\ ~Parses /\ ~Parses' /\ Here' = Here
  BY <1>1 DEF TInv, Parses, Here
<1>3. packed = <<>> /\ fresh = <<>> /\ sections # <<>> /\ blocks # <<>> /\ Behind \in AllText
  BY <1>1, <1>2, Texts4 DEF InSection
<1>4. /\ parts \in Seq(UnderText) /\ Join(parts) \in AllText /\ packed \in Seq(UnderText)
      /\ open \in Seq(UnderText) /\ items \in Seq(UnderText)
      /\ Join(items) \in AllText /\ Join(open) \in AllText /\ Join(open) \in UnderText
  BY <1>2, Texts1
<1>5. Joins(Seq(UnderText), UnderText, <<>>) /\ Texted(AllText, <<>>)
  BY <1>2, Texts0
<1>6. Join(<<>>) = <<>> /\ <<>> \in Seq(UnderText)
  BY <1>5 DEF Joins
<1> DEFINE last == IF open = <<>> THEN <<>> ELSE <<Join(open)>>
<1>7. last \in Seq(UnderText) /\ Join(last) = Join(open)
  <2>1. CASE open = <<>>
    BY <1>6, <2>1
  <2>2. CASE open # <<>>
    <3>1. <<Join(open)>> \in Seq(UnderText) /\ Join(<<Join(open)>>) = Join(open)
      BY <1>4, <1>5, Zenon DEF Joins
    <3>2. last = <<Join(open)>>
      BY <2>2
    <3> HIDE DEF last
    <3> QED
      BY <3>1, <3>2
  <2> QED
    BY <2>1, <2>2
<1>8. items' = items \o last
  BY <1>1
<1> HIDE DEF last
<1>9. items' \in Seq(UnderText) /\ Join(items') = Cat(Join(items), Join(open))
  <2>1. items \o last \in Seq(UnderText) /\ Join(items \o last) = Cat(Join(items), Join(last))
    BY <1>4, <1>5, <1>7, Zenon DEF Joins
  <2> QED
    BY <1>7, <1>8, <2>1
<1>10. Tail(blocks) \in Seq(BlocksOf(doc, Under(doc, Here))) /\ BlocksText(doc, Tail(blocks)) \in AllText
  BY <1>2, <1>3, Texts2
<1>11. Fields'
  <2>1. phase' \in Phases
    BY <1>1 DEF Phases
  <2>2. /\ blocks' \in Seq(BlocksOf(doc, Under(doc, Here))) /\ sections' \in Seq(SectionsOf(doc))
        /\ fresh' \in Seq(ChunksOf(doc)) /\ chunks' \in Seq(ChunksOf(doc))
    BY <1>1, <1>2, <1>10, Texts4
  <2>3. /\ pieces' \in Seq(UnderText) /\ open' \in Seq(UnderText)
        /\ parts' \in Seq(UnderText) /\ packed' \in Seq(UnderText)
    BY <1>1, <1>4, <1>6
  <2> QED
    BY <1>1, <1>2, <1>9, <2>1, <2>2, <2>3, MovesOn
<1>12. Idle'
  BY <1>1, <1>2, <1>3 DEF Idle, InSection
<1>13. Conserved'
  <2> DEFINE r == Cat(BlocksText(doc, Tail(blocks)), Behind)
             i == Join(items)
             k == Join(open)
  <2>1. Made' = Made /\ Whole' = Whole /\ Behind' = Behind
    BY <1>1 DEF Made, Whole, Behind
  <2>2. Cat(MadeText(Made), Cat(Join(parts), Cat(i, Cat(k, Cat(<<>>, r))))) = Whole
    BY <1>1, <1>6 DEF TInv, Conserved, Behind
  <2>3. i \in AllText /\ k \in AllText /\ r \in AllText
    BY <1>3, <1>4, <1>5, <1>10, Regroup
  <2>4. Join(items') = Cat(i, k) /\ Cat(BlocksText(doc', blocks'), Behind') = r
    BY <1>1, <1>9, <2>1
  <2> HIDE DEF i, k, r
  <2>5. Cat(i, Cat(k, Cat(<<>>, r))) = Cat(Cat(i, k), r)
    <3>1. Cat(<<>>, r) = r
      BY <1>5, <2>3, Zenon DEF Texted
    <3> QED
      BY <1>5, <2>3, <3>1, Regroup
  <2>6. Cat(MadeText(Made'), Cat(Join(parts'), Cat(Join(items'), Cat(BlocksText(doc', blocks'), Behind')))) = Whole'
    BY <1>1, <2>1, <2>2, <2>4, <2>5
  <2> QED
    BY <1>1, <2>6 DEF Conserved, Behind
<1> QED
  BY <1>2, <1>11, <1>12, <1>13 DEF TInv, PInv

\* The first of the items is taken, and the parts grow by what is taken of it.
LEMMA ItemTaken ==
    ASSUME TInv, phase = "cut", phase' = "cut", items # <<>>,
           UNCHANGED <<doc, line, fence, path, buffer, inner, current, blocks, sections>>,
           UNCHANGED <<pieces, open, packed, fresh, chunks>>,
           NEW x \in UnderText, NEW y \in UnderText, NEW z, parts' = Append(parts, x), items' = z,
           z \in Seq(UnderText), Head(items) = Cat(x, y), Join(z) = Cat(y, Join(Tail(items)))
    PROVE  TInv'
<1>1. PInv /\ ~Parses /\ ~Parses' /\ Here' = Here
  BY DEF TInv, Parses, Here
<1>2. /\ pieces = <<>> /\ open = <<>> /\ packed = <<>> /\ fresh = <<>> /\ sections # <<>>
      /\ Behind \in AllText
  BY <1>1, Texts4 DEF InSection
<1>3. /\ parts \in Seq(UnderText) /\ Join(parts) \in AllText /\ packed \in Seq(UnderText)
      /\ pieces \in Seq(UnderText) /\ open \in Seq(UnderText) /\ items \in Seq(UnderText)
      /\ Join(items) \in AllText
  BY <1>1, Texts1
<1>4. Joins(Seq(UnderText), UnderText, <<>>) /\ Texted(AllText, <<>>) /\ UnderText \subseteq AllText
  BY <1>1, Texts0
<1>5. /\ Append(parts, x) \in Seq(UnderText) /\ Join(Append(parts, x)) = Cat(Join(parts), x)
      /\ Tail(items) \in Seq(UnderText) /\ Join(items) = Cat(Head(items), Join(Tail(items)))
      /\ Join(Tail(items)) \in UnderText
  BY <1>3, <1>4, Zenon DEF Joins
<1>6. Fields'
  <2>1. phase' \in Phases
    BY DEF Phases
  <2>2. /\ blocks' \in Seq(BlocksOf(doc, Under(doc, Here))) /\ sections' \in Seq(SectionsOf(doc))
        /\ fresh' \in Seq(ChunksOf(doc)) /\ chunks' \in Seq(ChunksOf(doc))
    BY <1>1, Texts4
  <2>3. /\ pieces' \in Seq(UnderText) /\ open' \in Seq(UnderText) /\ items' \in Seq(UnderText)
        /\ parts' \in Seq(UnderText) /\ packed' \in Seq(UnderText)
    BY <1>3, <1>5
  <2> QED
    BY <1>1, <2>1, <2>2, <2>3, MovesOn
<1>7. Idle'
  BY <1>1, <1>2 DEF Idle, InSection
<1>8. Conserved'
  <2> DEFINE r == Cat(BlocksText(doc, blocks), Behind)
             p == Join(parts)
             i == Join(Tail(items))
  <2>1. Made' = Made /\ Whole' = Whole /\ Behind' = Behind
    BY DEF Made, Whole, Behind
  <2>2. Cat(MadeText(Made), Cat(p, Cat(Cat(Cat(x, y), i), r))) = Whole
    BY <1>5 DEF TInv, Conserved, Behind
  <2>3. BlocksText(doc, blocks) \in AllText
    BY <1>1, Texts2
  <2>4. p \in AllText /\ i \in AllText /\ r \in AllText /\ x \in AllText /\ y \in AllText
    BY <1>2, <1>3, <1>4, <1>5, <2>3, Regroup
  <2>5. Join(items') = Cat(y, i) /\ Join(parts') = Cat(p, x) /\ Cat(BlocksText(doc', blocks'), Behind') = r
    BY <1>5, <2>1
  <2> HIDE DEF p, i, r
  <2>6. Cat(p, Cat(Cat(Cat(x, y), i), r)) = Cat(Cat(p, x), Cat(Cat(y, i), r))
    <3>1. Cat(Cat(x, y), i) = Cat(x, Cat(y, i)) /\ Cat(y, i) \in AllText
      BY <1>4, <2>4, Regroup
    <3> QED
      BY <1>4, <2>4, <3>1, Regroup
  <2>7. Cat(MadeText(Made'), Cat(Join(parts'), Cat(Join(items'), Cat(BlocksText(doc', blocks'), Behind')))) = Whole'
    BY <2>1, <2>2, <2>5, <2>6
  <2> QED
    BY <2>7 DEF Conserved, Behind
<1> QED
  BY <1>1, <1>6, <1>7, <1>8 DEF TInv, PInv

LEMMA ItemKept ==
    ASSUME TInv, KeepItem
    PROVE  TInv'
<1>1. /\ phase = "cut" /\ phase' = "cut" /\ items # <<>>
      /\ parts' = Append(parts, Head(items)) /\ items' = Tail(items)
      /\ UNCHANGED <<doc, line, fence, path, buffer, inner, current, blocks, sections>>
      /\ UNCHANGED <<pieces, open, packed, fresh, chunks>>
  BY DEF KeepItem, parsing, building
<1>2. PInv
  BY DEF TInv
<1>3. items \in Seq(UnderText) /\ Joins(Seq(UnderText), UnderText, <<>>) /\ Texted(UnderText, <<>>)
  BY <1>2, Texts0, Texts1
<1>4. Head(items) \in UnderText /\ Tail(items) \in Seq(UnderText) /\ Join(Tail(items)) \in UnderText
  BY <1>1, <1>3, Zenon DEF Joins
<1>5. PICK e : e = <<>>
  OBVIOUS
<1>6. e \in UnderText /\ Head(items) = Cat(Head(items), e) /\ Join(Tail(items)) = Cat(e, Join(Tail(items)))
  <2>1. Texted(UnderText, e)
    BY <1>3, <1>5
  <2> QED
    BY <1>4, <2>1 DEF Texted
<1> QED
  BY <1>1, <1>4, <1>6, ItemTaken

LEMMA ItemCut ==
    ASSUME TInv, CutItem
    PROVE  TInv'
<1> DEFINE text == Head(items)
<1>1. /\ phase = "cut" /\ phase' = "cut" /\ items # <<>>
      /\ UNCHANGED <<doc, line, fence, path, buffer, inner, current, blocks, sections>>
      /\ UNCHANGED <<pieces, open, packed, fresh, chunks>>
  BY DEF CutItem, parsing, building
<1>2. PICK e \in SafePrefixes(text) : \E n \in 1 .. e :
          /\ parts' = Append(parts, SubSeq(text, 1, n))
          /\ items' = <<SubSeq(text, n + 1, Len(text))>> \o Tail(items)
  BY DEF CutItem
<1>20. PICK n \in 1 .. e :
          /\ parts' = Append(parts, SubSeq(text, 1, n))
          /\ items' = <<SubSeq(text, n + 1, Len(text))>> \o Tail(items)
  BY <1>2
<1>3. PInv
  BY DEF TInv
<1>4. items \in Seq(UnderText) /\ Joins(Seq(UnderText), UnderText, <<>>) /\ Texted(UnderText, <<>>)
  BY <1>3, Texts0, Texts1
<1>5. text \in UnderText /\ Tail(items) \in Seq(UnderText) /\ Join(Tail(items)) \in UnderText
  BY <1>1, <1>4, Zenon DEF Joins
<1>6. Len(text) \in Nat /\ DOMAIN text = 1 .. Len(text)
  BY <1>5 DEF UnderText
<1>7. e \in 0 .. Len(text)
  BY <1>2 DEF SafePrefixes
<1>8. n \in Nat /\ n <= Len(text)
  BY <1>6, <1>7
<1>9. PICK x : x = SubSeq(text, 1, n)
  OBVIOUS
<1>10. PICK y : y = SubSeq(text, n + 1, Len(text))
  OBVIOUS
<1>11. x \in UnderText /\ y \in UnderText /\ text = Cat(x, y)
  BY <1>5, <1>6, <1>8, <1>9, <1>10, SubFacts DEF UnderText, Cat
<1>12. PICK o : o = <<y>>
  OBVIOUS
<1>13. o \in Seq(UnderText) /\ Join(o) = y
  BY <1>4, <1>11, <1>12, Zenon DEF Joins
<1>14. PICK t : t = Tail(items)
  OBVIOUS
<1>15. o \o t \in Seq(UnderText) /\ Join(o \o t) = Cat(Join(o), Join(t))
  <2>1. t \in Seq(UnderText)
    BY <1>5, <1>14
  <2> QED
    BY <1>4, <1>13, <2>1, Zenon DEF Joins
<1>16. PICK z : z = o \o t
  OBVIOUS
<1>17. /\ z \in Seq(UnderText) /\ Join(z) = Cat(y, Join(Tail(items))) /\ items' = z
       /\ parts' = Append(parts, x)
  BY <1>20, <1>9, <1>10, <1>12, <1>13, <1>14, <1>15, <1>16
<1> HIDE DEF text
<1>18. Head(items) = Cat(x, y)
  BY <1>11 DEF text
<1> QED
  BY <1>1, <1>11, <1>17, <1>18, ItemTaken

\* Nothing but the phase changes.
LEMMA PhaseOnly ==
    ASSUME TInv, UNCHANGED <<doc, line, fence, path, buffer, inner, current, blocks, sections>>,
           UNCHANGED <<pieces, open, items, parts, packed, fresh, chunks>>,
           \/ phase = "cut" /\ items = <<>> /\ phase' = "split"
           \/ phase = "split" /\ blocks = <<>> /\ phase' = "pack"
           \/ phase \in {"cut", "pack"} /\ phase' = "refused"
    PROVE  TInv'
<1>1. PInv /\ ~Parses /\ ~Parses' /\ Here' = Here
  BY DEF TInv, Parses, Here
<1>2. Fields'
  <2>1. phase' \in Phases
    BY DEF Phases
  <2>2. /\ blocks' \in Seq(BlocksOf(doc, Under(doc, Here))) /\ sections' \in Seq(SectionsOf(doc))
        /\ fresh' \in Seq(ChunksOf(doc)) /\ chunks' \in Seq(ChunksOf(doc))
    BY <1>1, Texts4
  <2>3. /\ pieces' \in Seq(UnderText) /\ open' \in Seq(UnderText) /\ items' \in Seq(UnderText)
        /\ parts' \in Seq(UnderText) /\ packed' \in Seq(UnderText)
    BY <1>1, Texts1
  <2> QED
    BY <1>1, <2>1, <2>2, <2>3, MovesOn
<1>3. Idle'
  BY <1>1 DEF PInv, Idle, InSection
<1>4. Made' = Made /\ Whole' = Whole /\ Behind' = Behind
  BY DEF Made, Whole, Behind
<1>5. Joins(Seq(UnderText), UnderText, <<>>) /\ Texted(AllText, <<>>) /\ Join(<<>>) = <<>>
  BY <1>1, Texts0 DEF Joins
<1>6. Conserved'
  <2>1. CASE phase = "cut" /\ items = <<>> /\ phase' = "split"
    <3>1. sections # <<>> /\ Behind \in AllText
      BY <1>1, <2>1, Texts4 DEF InSection
    <3>2. BlocksText(doc, blocks) \in AllText
      BY <1>1, Texts2
    <3>3. Cat(<<>>, Cat(BlocksText(doc, blocks), Behind)) = Cat(BlocksText(doc, blocks), Behind)
      BY <1>5, <3>1, <3>2, Regroup
    <3>4. Cat(MadeText(Made), Cat(Join(parts), Cat(<<>>, Cat(BlocksText(doc, blocks), Behind)))) = Whole
      BY <1>5, <2>1 DEF TInv, Conserved, Behind
    <3>5. Cat(MadeText(Made'), Cat(Join(parts'), Cat(BlocksText(doc', blocks'), Behind'))) = Whole'
      BY <1>4, <3>3, <3>4
    <3> QED
      BY <2>1, <3>5 DEF Conserved, Behind
  <2>2. CASE phase = "split" /\ blocks = <<>> /\ phase' = "pack"
    <3>1. sections # <<>> /\ Behind \in AllText /\ packed = <<>>
      BY <1>1, <2>2, Texts4 DEF InSection
    <3>2. BlocksText(doc, blocks) = <<>> /\ Join(parts) \in AllText
      BY <1>1, <2>2, Texts1, Texts2
    <3>3. Cat(<<>>, Behind) = Behind /\ Cat(<<>>, Cat(Join(parts), Behind)) = Cat(Join(parts), Behind)
      BY <1>5, <3>1, <3>2, Regroup
    <3>4. Cat(MadeText(Made), Cat(Join(parts), Cat(<<>>, Behind))) = Whole
      BY <2>2, <3>2 DEF TInv, Conserved, Behind
    <3>5. Cat(MadeText(Made'), Cat(Join(packed'), Cat(Join(parts'), Behind'))) = Whole'
      BY <1>4, <1>5, <3>1, <3>3, <3>4
    <3> QED
      BY <2>2, <3>5 DEF Conserved, Behind
  <2>3. CASE phase' = "refused"
    BY <2>3 DEF Conserved
  <2> QED
    BY <2>1, <2>2, <2>3
<1> QED
  BY <1>1, <1>2, <1>3, <1>6 DEF TInv, PInv

\* A chunk more, behind those of the sections before and of this one.
LEMMA OneChunkMore ==
    ASSUME NEW U, NEW a \in Seq(U), NEW b \in Seq(U), NEW x \in U
    PROVE  /\ a \o (b \o <<x>>) = Append(a \o b, x) /\ b \o <<x>> \in Seq(U) /\ a \o b \in Seq(U)
           /\ a \o (b \o <<>>) = a \o b /\ b \o <<>> \in Seq(U)
<1>1. IsSeq(a) /\ IsSeq(b)
  BY DEF IsSeq
<1>2. b \o <<x>> = Append(b, x) /\ a \o Append(b, x) = Append(a \o b, x) /\ b \o <<>> = b
  BY <1>1, AppendedIsJoined
<1>3. Append(b, x) \in Seq(U) /\ a \o b \in Seq(U)
  OBVIOUS
<1> QED
  BY <1>2, <1>3

LEMMA ChunkMade ==
    ASSUME PInv, ~Parses, sections # <<>>, NEW texts \in Seq(UnderText), texts # <<>>, NEW k \in Nat
    PROVE  MadeFrom(texts, k) \in ChunksOf(doc) /\ MadeFrom(texts, k).parts = texts
<1>1. Here \in Seq(LinesOf(doc))
  BY Texts3
<1>2. Len(chunks) + Len(fresh) + k \in Nat
  <2>1. chunks \in Seq(ChunksOf(doc)) /\ fresh \in Seq(ChunksOf(doc))
    BY Texts4
  <2>2. Len(chunks) \in Nat /\ Len(fresh) \in Nat
    BY <2>1
  <2> QED
    BY <2>2
<1>3. texts \in Seq(Seq(Words(Under(doc, Here)))) \ {<<>>}
  BY DEF UnderText
<1> DEFINE S(p) == [path : {p}, parts : Seq(Seq(Words(Under(doc, p)))) \ {<<>>}, order : Nat,
                    previous : Nat \cup {NoLink}, next : Nat \cup {NoLink}]
<1>4. MadeFrom(texts, k) \in S(Here)
  BY <1>2, <1>3 DEF MadeFrom
<1>5. MadeFrom(texts, k) \in ChunksOf(doc)
  <2>1. MadeFrom(texts, k) \in UNION {S(p) : p \in Seq(LinesOf(doc))}
    <3> HIDE DEF S
    <3> QED
      BY <1>1, <1>4
  <2> QED
    BY <2>1 DEF ChunksOf
<1>6. MadeFrom(texts, k).parts = texts
  BY DEF MadeFrom
<1> QED
  BY <1>5, <1>6

\* The text of what is made, and of what is packed, after a part more.
LEMMA PartTaken ==
    ASSUME PInv, phase = "pack", Pack
    PROVE  /\ parts # <<>> /\ fresh' \in Seq(ChunksOf(doc)) /\ packed' \in Seq(UnderText)
           /\ MadeText(Made') \in AllText /\ Join(packed') \in AllText /\ Head(parts) \in AllText
           /\ Cat(MadeText(Made'), Join(packed')) = Cat(Cat(MadeText(Made), Join(packed)), Head(parts))
<1> DEFINE part  == Head(parts)
           now   == IF Overflows(packed, part) THEN <<part>> ELSE Append(packed, part)
           ended == IF Overflows(packed, part) THEN <<MadeFrom(packed, 0)>> ELSE <<>>
           V     == ChunksOf(doc)
<1>1. /\ parts # <<>> /\ chunks' = chunks
      /\ \/ /\ fresh' = fresh \o ended \o <<MadeFrom(now, Len(ended))>>
            /\ packed' = <<>>
         \/ fresh' = fresh \o ended /\ packed' = now
  BY DEF Pack
<1>2. ~Parses /\ sections # <<>>
  <2>1. ~Parses
    BY DEF Parses
  <2> QED
    BY <2>1, Texts4 DEF InSection
<1>3. /\ Joins(Seq(UnderText), UnderText, <<>>) /\ Texted(AllText, <<>>) /\ UnderText \subseteq AllText
      /\ Makes(doc, Seq(V), AllText, <<>>) /\ Made \in Seq(V) /\ MadeText(Made) \in AllText
  BY Texts0
<1>4. /\ parts \in Seq(UnderText) /\ packed \in Seq(UnderText) /\ Join(packed) \in AllText
  BY Texts1
<1>5. part \in UnderText /\ part \in AllText
  BY <1>1, <1>3, <1>4, Zenon DEF Joins
<1>6. <<>> \in Seq(UnderText) /\ Join(<<>>) = <<>> /\ <<>> \in AllText /\ \A a \in AllText : Cat(a, <<>>) = a
  BY <1>3 DEF Joins, Texted
<1>7. chunks \in Seq(V) /\ fresh \in Seq(V)
  BY <1>2, Texts4
<1> HIDE DEF part, V
<1>8. now \in Seq(UnderText) /\ now # <<>> /\ Join(now) \in AllText
  <2>1. CASE Overflows(packed, part)
    <3>1. <<part>> \in Seq(UnderText) /\ Join(<<part>>) = part
      BY <1>3, <1>5, Zenon DEF Joins
    <3>2. <<part>> # <<>> /\ now = <<part>>
      BY <2>1, Single, NotEmpty
    <3> HIDE DEF now
    <3> QED
      BY <1>5, <3>1, <3>2
  <2>2. CASE ~Overflows(packed, part)
    <3>1. Append(packed, part) \in Seq(UnderText) /\ Join(Append(packed, part)) \in UnderText
      BY <1>3, <1>4, <1>5, Zenon DEF Joins
    <3>2. Append(packed, part) # <<>> /\ now = Append(packed, part)
      BY <1>4, <2>2
    <3> HIDE DEF now
    <3> QED
      BY <1>3, <3>1, <3>2
  <2> QED
    BY <2>1, <2>2
<1> DEFINE s == fresh \o ended
<1>9. /\ s \in Seq(V) /\ chunks \o s \in Seq(V) /\ MadeText(chunks \o s) \in AllText
      /\ Cat(MadeText(chunks \o s), Join(now)) = Cat(Cat(MadeText(Made), Join(packed)), part)
      /\ Len(ended) \in Nat
  <2>1. CASE Overflows(packed, part)
    <3>1. packed # <<>> /\ now = <<part>>
      BY <2>1 DEF Overflows
    <3>2. PICK c : c = MadeFrom(packed, 0)
      OBVIOUS
    <3>3. c \in V /\ c.parts = packed
      BY <1>2, <1>4, <3>1, <3>2, ChunkMade DEF V
    <3>4. s = fresh \o <<c>> /\ Len(ended) = 1
      BY <2>1, <3>2
    <3> HIDE DEF s, now, ended
    <3>5. s \in Seq(V) /\ chunks \o s = Append(Made, c)
      BY <1>7, <3>3, <3>4, OneChunkMore DEF Made
    <3>6. Append(Made, c) \in Seq(V) /\ MadeText(Append(Made, c)) = Cat(MadeText(Made), Join(packed))
      BY <1>3, <3>3, Zenon DEF Makes, V
    <3>7. Join(now) = part
      BY <1>3, <1>5, <3>1, Zenon DEF Joins
    <3>8. MadeText(Append(Made, c)) \in AllText
      BY <1>3, <3>6, Zenon DEF Makes, V
    <3>9. Len(ended) \in Nat
      BY <3>4
    <3>10. PICK w : w = chunks \o s
      OBVIOUS
    <3>11. w = Append(Made, c)
      BY <3>5, <3>10
    <3>12. w \in Seq(V) /\ MadeText(w) \in AllText /\ MadeText(w) = Cat(MadeText(Made), Join(packed))
      BY <3>6, <3>8, <3>11
    <3> QED
      BY <3>5, <3>7, <3>9, <3>10, <3>12
  <2>2. CASE ~Overflows(packed, part)
    <3>1. ended = <<>> /\ now = Append(packed, part)
      BY <2>2
    <3>2. Join(now) = Cat(Join(packed), part)
      BY <1>3, <1>4, <1>5, <3>1, Zenon DEF Joins
    <3> HIDE DEF now, ended
    <3>3. IsSeq(fresh)
      BY <1>7 DEF IsSeq
    <3>4. s = fresh /\ Len(ended) = 0
      BY <3>1, <3>3, AppendedIsJoined
    <3> HIDE DEF s
    <3>5. chunks \o s = Made
      BY <3>4 DEF Made
    <3>6. Cat(Cat(MadeText(Made), Join(packed)), part) = Cat(MadeText(Made), Cat(Join(packed), part))
      BY <1>3, <1>4, <1>5, Regroup
    <3> QED
      BY <1>3, <1>7, <3>2, <3>4, <3>5, <3>6
  <2> QED
    BY <2>1, <2>2
<1> HIDE DEF now, ended
<1>10. CASE /\ fresh' = fresh \o ended \o <<MadeFrom(now, Len(ended))>>
            /\ packed' = <<>>
  <2>1. PICK c : c = MadeFrom(now, Len(ended))
    OBVIOUS
  <2>2. c \in V /\ c.parts = now
    BY <1>2, <1>8, <1>9, <2>1, ChunkMade DEF V
  <2>3. fresh' = s \o <<c>>
    BY <1>10, <2>1
  <2> HIDE DEF s
  <2>4. fresh' \in Seq(V) /\ Made' = Append(chunks \o s, c)
    BY <1>1, <1>7, <1>9, <2>2, <2>3, OneChunkMore DEF Made
  <2>5. /\ Append(chunks \o s, c) \in Seq(V)
        /\ MadeText(Append(chunks \o s, c)) = Cat(MadeText(chunks \o s), Join(now))
    BY <1>3, <1>9, <2>2, Zenon DEF Makes, V
  <2>6. MadeText(Append(chunks \o s, c)) \in AllText
    BY <1>3, <2>5, Zenon DEF Makes, V
  <2> QED
    BY <1>1, <1>5, <1>6, <1>9, <1>10, <2>4, <2>5, <2>6 DEF part, V
<1>11. CASE fresh' = fresh \o ended /\ packed' = now
  <2>1. Made' = chunks \o s /\ fresh' = s
    BY <1>1, <1>11 DEF Made
  <2> HIDE DEF s
  <2> QED
    BY <1>1, <1>5, <1>8, <1>9, <1>11, <2>1 DEF part, V
<1> QED
  BY <1>1, <1>10, <1>11

LEMMA PartPacked ==
    ASSUME TInv, Pack
    PROVE  TInv'
<1>1. /\ phase = "pack" /\ phase' = "pack" /\ parts # <<>> /\ parts' = Tail(parts)
      /\ UNCHANGED <<doc, line, fence, path, buffer, inner, current, blocks, sections, pieces, open,
                     items, chunks>>
  BY DEF Pack, parsing, building, splitting
<1>2. PInv /\ ~Parses /\ ~Parses' /\ Here' = Here
  BY <1>1 DEF TInv, Parses, Here
<1>3. /\ pieces = <<>> /\ open = <<>> /\ items = <<>> /\ blocks = <<>> /\ sections # <<>>
      /\ Behind \in AllText
  BY <1>1, <1>2, Texts4 DEF InSection
<1>4. /\ parts \in Seq(UnderText) /\ Join(packed) \in AllText /\ Join(parts) \in AllText
      /\ pieces \in Seq(UnderText) /\ open \in Seq(UnderText) /\ items \in Seq(UnderText)
  BY <1>2, Texts1
<1>5. /\ Joins(Seq(UnderText), UnderText, <<>>) /\ Texted(AllText, <<>>) /\ UnderText \subseteq AllText
      /\ MadeText(Made) \in AllText
  BY <1>2, Texts0
<1>6. /\ Tail(parts) \in Seq(UnderText) /\ Join(parts) = Cat(Head(parts), Join(Tail(parts)))
      /\ Join(Tail(parts)) \in UnderText
  BY <1>1, <1>4, <1>5, Zenon DEF Joins
<1>7. /\ fresh' \in Seq(ChunksOf(doc)) /\ packed' \in Seq(UnderText)
      /\ MadeText(Made') \in AllText /\ Join(packed') \in AllText /\ Head(parts) \in AllText
      /\ Cat(MadeText(Made'), Join(packed')) = Cat(Cat(MadeText(Made), Join(packed)), Head(parts))
  BY <1>1, <1>2, PartTaken
<1>8. Fields'
  <2>1. phase' \in Phases
    BY <1>1 DEF Phases
  <2>2. /\ blocks' \in Seq(BlocksOf(doc, Under(doc, Here))) /\ sections' \in Seq(SectionsOf(doc))
        /\ chunks' \in Seq(ChunksOf(doc))
    BY <1>1, <1>2, Texts4
  <2>3. /\ pieces' \in Seq(UnderText) /\ open' \in Seq(UnderText) /\ items' \in Seq(UnderText)
        /\ parts' \in Seq(UnderText)
    BY <1>1, <1>4, <1>6
  <2> QED
    BY <1>1, <1>2, <1>7, <2>1, <2>2, <2>3, MovesOn
<1>9. Idle'
  BY <1>1, <1>2, <1>3 DEF Idle, InSection
<1>10. Conserved'
  <2> DEFINE m == MadeText(Made)
             k == Join(packed)
             x == Head(parts)
             p1 == Join(Tail(parts))
             m1 == MadeText(Made')
             k1 == Join(packed')
             Z == Behind
  <2>1. Whole' = Whole /\ Behind' = Behind
    BY <1>1 DEF Whole, Behind
  <2>2. Cat(m, Cat(k, Cat(Cat(x, p1), Z))) = Whole
    BY <1>1, <1>6 DEF TInv, Conserved, Behind
  <2>3. Cat(m1, k1) = Cat(Cat(m, k), x)
    BY <1>7
  <2>4. /\ m \in AllText /\ k \in AllText /\ x \in AllText /\ p1 \in AllText /\ m1 \in AllText
        /\ k1 \in AllText /\ Z \in AllText
    BY <1>3, <1>4, <1>5, <1>6, <1>7
  <2> HIDE DEF m, k, x, p1, m1, k1, Z
  <2>5. Cat(m, Cat(k, Cat(Cat(x, p1), Z))) = Cat(m1, Cat(k1, Cat(p1, Z)))
    <3>1. PICK e : e = <<>>
      OBVIOUS
    <3>2. Texted(AllText, e)
      BY <1>5, <3>1
    <3>3. Cat(m, Cat(k, Cat(Cat(x, p1), Z))) = Cat(Cat(Cat(m, k), x), Cat(p1, Z))
      BY <2>4, <3>2, Moved
    <3>4. Cat(Cat(m1, k1), Cat(p1, Z)) = Cat(m1, Cat(k1, Cat(p1, Z)))
      BY <2>4, <3>2, Moved
    <3> QED
      BY <2>3, <3>3, <3>4
  <2>6. Cat(MadeText(Made'), Cat(Join(packed'), Cat(Join(parts'), Behind'))) = Whole'
    BY <1>1, <2>1, <2>2, <2>5 DEF p1, m1, k1, Z
  <2> QED
    BY <1>1, <2>6 DEF Conserved, Behind
<1> QED
  BY <1>2, <1>8, <1>9, <1>10 DEF TInv, PInv

LEMMA SectionEnded ==
    ASSUME TInv, EndSection
    PROVE  TInv'
<1> DEFINE last == IF packed = <<>> THEN <<>> ELSE <<MadeFrom(packed, 0)>>
           V == ChunksOf(doc)
<1>1. /\ phase = "pack" /\ phase' = "section" /\ parts = <<>>
      /\ chunks' = chunks \o fresh \o last /\ packed' = <<>> /\ fresh' = <<>>
      /\ sections' = Tail(sections)
      /\ UNCHANGED <<doc, line, fence, path, buffer, inner, current, blocks, pieces, open, items, parts>>
  BY DEF EndSection, parsing, building, splitting
<1>2. PInv /\ ~Parses /\ ~Parses'
  BY <1>1 DEF TInv, Parses
<1>3. /\ pieces = <<>> /\ open = <<>> /\ items = <<>> /\ blocks = <<>> /\ sections # <<>>
      /\ Behind \in AllText
  BY <1>1, <1>2, Texts4 DEF InSection
<1>4. /\ packed \in Seq(UnderText) /\ Join(packed) \in AllText
  BY <1>2, Texts1
<1>5. /\ Joins(Seq(UnderText), UnderText, <<>>) /\ Texted(AllText, <<>>)
      /\ Makes(doc, Seq(V), AllText, <<>>) /\ Made \in Seq(V) /\ MadeText(Made) \in AllText
      /\ Join(<<>>) = <<>>
  BY <1>2, Texts0 DEF Joins
<1> HIDE DEF V
<1>6. Made' = chunks' /\ chunks' \in Seq(V) /\ MadeText(chunks') = Cat(MadeText(Made), Join(packed))
  <2>1. chunks' \in Seq(V) /\ MadeText(chunks') = Cat(MadeText(Made), Join(packed))
    <3>1. CASE packed = <<>>
      <4>1. last = <<>>
        BY <3>1
      <4>2. IsSeq(Made)
        BY <1>5 DEF IsSeq
      <4> HIDE DEF last
      <4>3. chunks' = Made
        <5>1. Made \o <<>> = Made
          BY <4>2, AppendedIsJoined
        <5> QED
          BY <1>1, <4>1, <5>1 DEF Made
      <4>4. Cat(MadeText(Made), <<>>) = MadeText(Made)
        BY <1>5, Zenon DEF Texted
      <4> QED
        BY <1>5, <3>1, <4>3, <4>4
    <3>2. CASE packed # <<>>
      <4>1. PICK c : c = MadeFrom(packed, 0)
        OBVIOUS
      <4>2. c \in V /\ c.parts = packed
        BY <1>2, <1>3, <1>4, <3>2, <4>1, ChunkMade DEF V
      <4>3. last = <<c>>
        BY <3>2, <4>1
      <4>4. IsSeq(Made)
        BY <1>5 DEF IsSeq
      <4> HIDE DEF last
      <4>5. chunks' = Append(Made, c)
        <5>1. Made \o <<c>> = Append(Made, c)
          BY <4>4, AppendedIsJoined
        <5> QED
          BY <1>1, <4>3, <5>1 DEF Made
      <4>6. Append(Made, c) \in Seq(V) /\ MadeText(Append(Made, c)) = Cat(MadeText(Made), Join(packed))
        BY <1>5, <4>2, Zenon DEF Makes, V
      <4> QED
        BY <4>5, <4>6
    <3> QED
      BY <3>1, <3>2
  <2>2. Made' = chunks' \o <<>>
    BY <1>1 DEF Made
  <2>3. IsSeq(chunks')
    BY <2>1 DEF IsSeq
  <2>4. chunks' \o <<>> = chunks'
    <3>1. PICK w : w = chunks'
      OBVIOUS
    <3>2. w \o <<>> = w
      BY <2>3, <3>1, AppendedIsJoined
    <3> QED
      BY <3>1, <3>2
  <2> QED
    BY <2>1, <2>2, <2>4
<1>7. Tail(sections) \in Seq(SectionsOf(doc))
  BY <1>2, <1>3, Texts3
<1>8. Fields'
  <2>1. \A U : <<>> \in Seq(U)
    OBVIOUS
  <2>2. phase' \in Phases
    BY <1>1 DEF Phases
  <2>3. /\ blocks' = <<>> /\ pieces' = <<>> /\ open' = <<>> /\ items' = <<>> /\ parts' = <<>>
        /\ packed' = <<>> /\ fresh' = <<>>
    BY <1>1, <1>3
  <2>4. sections' \in Seq(SectionsOf(doc')) /\ chunks' \in Seq(ChunksOf(doc'))
    BY <1>1, <1>6, <1>7 DEF V
  <2> QED
    BY <1>1, <1>2, <2>1, <2>2, <2>3, <2>4 DEF PInv, Fields
<1>9. Idle'
  BY <1>1, <1>2, <1>3 DEF Idle, InSection
<1>10. Conserved'
  <2>1. Whole' = Whole /\ SectionsText(doc', sections') = Behind
    BY <1>1 DEF Whole, Behind
  <2>2. Cat(MadeText(Made), Cat(Join(packed), Cat(<<>>, Behind))) = Whole
    BY <1>1, <1>5 DEF TInv, Conserved, Behind
  <2>3. Cat(<<>>, Behind) = Behind
    BY <1>3, <1>5, Zenon DEF Texted
  <2>4. Cat(Cat(MadeText(Made), Join(packed)), Behind) = Cat(MadeText(Made), Cat(Join(packed), Behind))
    BY <1>3, <1>4, <1>5, Regroup
  <2>5. Cat(MadeText(Made'), SectionsText(doc', sections')) = Whole'
    BY <1>6, <2>1, <2>2, <2>3, <2>4
  <2> QED
    BY <1>1, <2>5 DEF Conserved
<1> QED
  BY <1>2, <1>8, <1>9, <1>10 DEF TInv, PInv

\* Linking changes nothing but the links.
LEMMA LinkedFacts ==
    ASSUME PInv, Link
    PROVE  /\ chunks' \in Seq(ChunksOf(doc)) /\ DOMAIN chunks = 1 .. Len(chunks)
           /\ DOMAIN chunks' = 1 .. Len(chunks) /\ Len(chunks') = Len(chunks)
           /\ \A i \in 1 .. Len(chunks) :
                 chunks'[i].path = chunks[i].path /\ chunks'[i].parts = chunks[i].parts
<1> DEFINE V == ChunksOf(doc)
           n == Len(chunks)
           P(i) == IF Before(i) = {} THEN NoLink ELSE chunks[Max(Before(i))].order
           N(i) == IF After(i) = {} THEN NoLink ELSE chunks[Min(After(i))].order
           C(i) == [chunks[i] EXCEPT !.previous = P(i), !.next = N(i)]
<1>1. /\ phase = "section" /\ phase' = "done" /\ sections = <<>>
      /\ UNCHANGED <<doc, line, fence, path, buffer, inner, current, blocks, sections, pieces, open,
                     items, parts, packed, fresh>>
      /\ chunks' = [i \in DOMAIN chunks |-> C(i)]
  BY DEF Link, Before, After, parsing, building, splitting, packing
<1>2. PInv /\ ~Parses
  BY <1>1 DEF Parses
<1>3. /\ pieces = <<>> /\ open = <<>> /\ items = <<>> /\ parts = <<>> /\ packed = <<>> /\ fresh = <<>>
      /\ blocks = <<>> /\ chunks \in Seq(V)
  BY <1>1, <1>2, Texts4
<1> HIDE DEF V
<1>4. n \in Nat /\ DOMAIN chunks = 1 .. n /\ \A i \in 1 .. n : chunks[i] \in V
  BY <1>3
<1>5. ASSUME NEW i \in 1 .. n
      PROVE  P(i) \in Nat \cup {NoLink} /\ N(i) \in Nat \cup {NoLink}
  <2>1. \A k \in 1 .. n : chunks[k].order \in Nat
    BY <1>2, <1>4, Texts0, ChunkFacts DEF V
  <2>2. Before(i) \in SUBSET (1 .. n) /\ After(i) \in SUBSET (1 .. n)
    BY <1>4 DEF Before, After, Siblings
  <2>3. ASSUME Before(i) # {} PROVE Max(Before(i)) \in 1 .. n
    <3>1. Before(i) \in SUBSET (0 .. n)
      BY <1>4, <2>2
    <3> QED
      BY <1>4, <2>2, <2>3, <3>1, Greatest
  <2>4. ASSUME After(i) # {} PROVE Min(After(i)) \in 1 .. n
    <3>1. After(i) \in SUBSET Nat
      BY <1>4, <2>2
    <3>2. Min(After(i)) \in After(i)
      BY <2>4, <3>1, Smallest
    <3> QED
      BY <2>2, <3>2
  <2>5. P(i) \in Nat \cup {NoLink}
    BY <2>1, <2>3
  <2>6. N(i) \in Nat \cup {NoLink}
    BY <2>1, <2>4
  <2> QED
    BY <2>5, <2>6
<1> HIDE DEF P, N, n
<1>6. ASSUME NEW i \in 1 .. n
      PROVE  C(i) \in V /\ C(i).path = chunks[i].path /\ C(i).parts = chunks[i].parts
  <2>1. /\ IsChunk(chunks[i]) /\ chunks[i].path \in Seq(LinesOf(doc)) /\ chunks[i].order \in Nat
        /\ chunks[i].parts \in Seq(Seq(Words(Under(doc, chunks[i].path)))) \ {<<>>}
    BY <1>2, <1>4, Texts0, ChunkFacts DEF V
  <2>2. PICK c : c = chunks[i]
    OBVIOUS
  <2>3. PICK a : a = P(i)
    OBVIOUS
  <2>4. PICK b : b = N(i)
    OBVIOUS
  <2>5. [c EXCEPT !.previous = a, !.next = b]
            = [path |-> c.path, parts |-> c.parts, order |-> c.order, previous |-> a, next |-> b]
    BY <2>1, <2>2, Relinked
  <2>6. PICK r : r = C(i)
    OBVIOUS
  <2>7. r = [path |-> c.path, parts |-> c.parts, order |-> c.order, previous |-> a, next |-> b]
    BY <2>2, <2>3, <2>4, <2>5, <2>6
  <2>8. a \in Nat \cup {NoLink} /\ b \in Nat \cup {NoLink}
    BY <1>5, <2>3, <2>4
  <2> DEFINE S(p) == [path : {p}, parts : Seq(Seq(Words(Under(doc, p)))) \ {<<>>}, order : Nat,
                      previous : Nat \cup {NoLink}, next : Nat \cup {NoLink}]
  <2>9. r \in S(c.path)
    BY <2>1, <2>2, <2>7, <2>8
  <2>10. r \in V
    <3>1. r \in UNION {S(p) : p \in Seq(LinesOf(doc))}
      <4> HIDE DEF S
      <4> QED
        BY <2>1, <2>2, <2>9
    <3> QED
      BY <3>1 DEF ChunksOf, V
  <2>11. r.path = c.path /\ r.parts = c.parts
    BY <2>7
  <2> HIDE DEF C
  <2> QED
    BY <2>2, <2>6, <2>10, <2>11
<1> HIDE DEF C
<1>7. /\ chunks' \in Seq(V) /\ DOMAIN chunks' = 1 .. n /\ Len(chunks') = n
      /\ \A i \in 1 .. n : chunks'[i] = C(i)
  <2>1. chunks' = [i \in 1 .. n |-> C(i)]
    BY <1>1, <1>4
  <2>2. chunks' \in [1 .. n -> V]
    BY <1>6, <2>1
  <2> QED
    BY <1>4, <2>1, <2>2 DEF n
<1> QED
  BY <1>4, <1>6, <1>7 DEF V, n

LEMMA ChunksLinked ==
    ASSUME TInv, Link
    PROVE  TInv'
<1>1. /\ phase = "section" /\ phase' = "done" /\ sections = <<>>
      /\ UNCHANGED <<doc, line, fence, path, buffer, inner, current, blocks, sections, pieces, open,
                     items, parts, packed, fresh>>
  BY DEF Link, parsing, building, splitting, packing
<1>2. PInv /\ ~Parses /\ ~Parses' /\ Here' = Here
  BY <1>1 DEF TInv, Parses, Here
<1>3. /\ pieces = <<>> /\ open = <<>> /\ items = <<>> /\ parts = <<>> /\ packed = <<>> /\ fresh = <<>>
      /\ blocks = <<>> /\ chunks \in Seq(ChunksOf(doc))
  BY <1>1, <1>2, Texts4
<1>4. /\ chunks' \in Seq(ChunksOf(doc)) /\ DOMAIN chunks = 1 .. Len(chunks)
      /\ DOMAIN chunks' = 1 .. Len(chunks)
      /\ \A i \in 1 .. Len(chunks) : chunks'[i].parts = chunks[i].parts
  BY <1>2, LinkedFacts
<1>5. Made = chunks /\ Made' = chunks'
  <2>1. IsSeq(chunks) /\ IsSeq(chunks')
    BY <1>3, <1>4 DEF IsSeq
  <2>2. \A m : IsSeq(m) => m \o <<>> = m
    BY AppendedIsJoined
  <2> QED
    BY <1>1, <1>3, <2>1, <2>2 DEF Made
<1>6. MadeText(Made') = MadeText(Made)
  <2>1. [i \in DOMAIN chunks' |-> Join(chunks'[i].parts)] = [i \in DOMAIN chunks |-> Join(chunks[i].parts)]
    BY <1>4
  <2> QED
    BY <1>5, <2>1 DEF MadeText
<1>7. Fields'
  <2>1. phase' \in Phases
    BY <1>1 DEF Phases
  <2>2. /\ blocks' \in Seq(BlocksOf(doc, Under(doc, Here))) /\ sections' \in Seq(SectionsOf(doc))
        /\ fresh' \in Seq(ChunksOf(doc))
    BY <1>1, <1>2, Texts4
  <2>3. /\ pieces' \in Seq(UnderText) /\ open' \in Seq(UnderText) /\ items' \in Seq(UnderText)
        /\ parts' \in Seq(UnderText) /\ packed' \in Seq(UnderText)
    BY <1>1, <1>2, Texts1
  <2> QED
    BY <1>1, <1>2, <1>4, <2>1, <2>2, <2>3, MovesOn
<1>8. Idle'
  BY <1>1, <1>2, <1>3 DEF Idle, InSection
<1>9. Conserved'
  <2>1. Cat(MadeText(Made), SectionsText(doc, sections)) = Whole
    BY <1>1 DEF TInv, Conserved
  <2>2. Cat(MadeText(Made'), SectionsText(doc', sections')) = Whole'
    BY <1>1, <1>6, <2>1 DEF Whole
  <2> QED
    BY <1>1, <2>2 DEF Conserved
<1> QED
  BY <1>2, <1>7, <1>8, <1>9 DEF TInv, PInv

LEMMA NothingDone ==
    ASSUME TInv, UNCHANGED vars
    PROVE  TInv'
<1>1. UNCHANGED <<doc, phase, line, fence, path, buffer, inner, current, blocks, sections, pieces, open,
                  items, parts, packed, fresh, chunks>>
  BY DEF vars, parsing, building, splitting, packing
<1>2. Here' = Here /\ Made' = Made /\ Turn' = Turn /\ (Parses' <=> Parses) /\ Whole' = Whole
  BY <1>1 DEF Here, Made, Turn, Parses, Whole
<1>3. Place' = Place /\ Start' = Start /\ (AtHeading' <=> AtHeading) /\ (AtEnd' <=> AtEnd)
  BY <1>1, <1>2 DEF Place, Start, AtHeading, AtEnd, Is
<1>4. Fields'
  BY <1>1, <1>2, <1>3 DEF TInv, PInv, Fields
<1>5. Idle'
  BY <1>1, <1>2 DEF TInv, PInv, Idle, InSection
<1>6. Parses => Scanned'
  BY <1>1, <1>2, <1>3 DEF TInv, PInv, Scanned
<1>7. Parses => Filed'
  BY <1>1, <1>2, <1>3 DEF TInv, PInv, Filed
<1>8. Conserved'
  BY <1>1, <1>2 DEF TInv, Conserved
<1> QED
  BY <1>2, <1>4, <1>5, <1>6, <1>7, <1>8 DEF TInv, PInv

LEMMA NextText ==
    ASSUME TInv, [Next]_vars
    PROVE  TInv'
<1>1. CASE EndCut \/ EndSplit \/ Refuse
  <2>1. UNCHANGED <<doc, line, fence, path, buffer, inner, current, blocks, sections>>
    BY <1>1 DEF EndCut, EndSplit, Refuse, parsing, building
  <2>2. UNCHANGED <<pieces, open, items, parts, packed, fresh, chunks>>
    BY <1>1 DEF EndCut, EndSplit, Refuse, splitting, packing
  <2>3. \/ phase = "cut" /\ items = <<>> /\ phase' = "split"
        \/ phase = "split" /\ blocks = <<>> /\ phase' = "pack"
        \/ phase \in {"cut", "pack"} /\ phase' = "refused"
    BY <1>1 DEF EndCut, EndSplit, Refuse
  <2> QED
    BY <2>1, <2>2, <2>3, PhaseOnly
<1> QED
  BY <1>1, TextParsed, AllParsed, SectionStarted, BlockSplit, PieceGrouped, GroupEnded, ItemKept, ItemCut,
     PartPacked, SectionEnded, ChunksLinked, NothingDone DEF Next

-----------------------------------------------------------------------------
(* The theorems.                                                           *)

LEMMA FencedSame == Fenced = FencedIn(doc)
BY Zenon DEF Fenced, FencedIn, FencedBy, Opens, Is, KindOf, Closes, ClosesIn, LineOf

\* What the properties say of a line, for the document.
LEMMA LineFacts ==
    ASSUME doc \in Documents
    PROVE  /\ LineOf = LinesOf(doc)
           /\ \A l \in LineOf : (Title(l) <=> TitleIn(doc, l)) /\ (Contents(l) <=> ContentsIn(doc, l))
           /\ \A l \in LineOf : Enclosing(l) = EnclosingIn(doc, l)
<1>1. LineOf = LinesOf(doc) /\ LinesOf(doc) = 1 .. Len(doc) /\ Len(doc) \in Nat
  BY DocumentFacts DEF LineOf, LinesOf
<1>2. \A l : Title(l) <=> TitleIn(doc, l)
  BY FencedSame, Zenon DEF Title, TitleIn, Is, KindOf
<1>3. ASSUME NEW l \in LineOf PROVE Alone(l) <=> EndedBefore(doc, l) /\ EndsAt(doc, l + 1)
  <2>1. (l + 1) - 1 = l /\ (l + 1 = Len(doc) + 1 <=> l = Len(doc))
    BY <1>1
  <2> QED
    BY <1>2, <2>1, FencedSame, Zenon DEF Alone, EndedBefore, EndsAt, Is, KindOf
<1>4. \A l \in LineOf : Contents(l) <=> ContentsIn(doc, l)
  BY <1>2, <1>3, FencedSame, Zenon DEF Contents, ContentsIn, Is, KindOf
<1>5. \A l \in LineOf : Enclosing(l) = EnclosingIn(doc, l)
  <2> TAKE l \in LineOf
  <2>1. {h \in 1 .. l - 1 : Title(h) /\ \A g \in h + 1 .. l - 1 : Title(g) => doc[g].level > doc[h].level}
            = Above(doc, l)
    BY <1>2 DEF Above
  <2> QED
    BY <2>1 DEF Enclosing, EnclosingIn
<1> QED
  BY <1>1, <1>2, <1>4, <1>5

\* The state has its shape: in particular every section kept has a block, every
\* block a line, and every chunk a part.
THEOREM ChunkerTypeOK == Spec => []TypeOK
<1>1. ASSUME TInv PROVE TypeOK
  <2>1. /\ doc \in Documents /\ phase \in Phases
        /\ line \in 1 .. Len(doc) + 1 /\ fence \in 0 .. Len(doc) /\ inner \in 0 .. Len(doc)
    BY <1>1 DEF TInv, PInv, Fields
  <2>2. LineOf = LinesOf(doc) /\ Texts = AllText
    BY <2>1, LineFacts DEF Texts, AllText, Words
  <2>3. path \in Seq(LineOf) /\ buffer \in Seq(LineOf) /\ current \in Seq(LineOf)
    BY <1>1, <2>2 DEF TInv, PInv, Fields
  <2>4. \A p : BlocksOf(doc, Under(doc, p)) \subseteq Block
    <3> TAKE p
    <3>1. Under(doc, p) \in SUBSET LinesOf(doc)
      BY UnderLines
    <3>2. Seq(Under(doc, p)) \subseteq Seq(LinesOf(doc))
      BY <3>1, Wider
    <3> QED
      BY <2>2, <3>2 DEF BlocksOf, Block
  <2>5. \A p : Seq(BlocksOf(doc, Under(doc, p))) \subseteq Seq(Block)
    BY <2>4, Wider
  <2>6. blocks \in Seq(Block)
    BY <1>1, <2>5 DEF TInv, PInv, Fields
  <2>7. sections \in Seq([path : Seq(LineOf), blocks : Seq(Block) \ {<<>>}])
    <3> DEFINE S == [path : Seq(LineOf), blocks : Seq(Block) \ {<<>>}]
    <3>1. SectionsOf(doc) \subseteq S
      BY <2>2, <2>5 DEF SectionsOf
    <3>2. sections \in Seq(SectionsOf(doc))
      BY <1>1 DEF TInv, PInv, Fields
    <3> HIDE DEF S
    <3>3. sections \in Seq(S)
      BY <3>1, <3>2, Wider
    <3> QED
      BY <3>3 DEF S
  <2>8. /\ pieces \in Seq(Texts) /\ open \in Seq(Texts) /\ items \in Seq(Texts)
        /\ parts \in Seq(Texts) /\ packed \in Seq(Texts)
    BY <1>1, <2>2, Texts0, Texts1 DEF TInv
  <2>9. ChunksOf(doc) \subseteq Chunk
    <3>1. \A p : Seq(Seq(Words(Under(doc, p)))) \subseteq Seq(Texts)
      <4> TAKE p
      <4>1. Seq(Words(Under(doc, p))) \subseteq Texts
        BY <2>2, UnderLines, Wider DEF AllText
      <4> QED
        BY <4>1, Wider
    <3> QED
      BY <2>2, <3>1 DEF ChunksOf, Chunk
  <2>10. fresh \in Seq(Chunk) /\ chunks \in Seq(Chunk)
    <3>1. fresh \in Seq(ChunksOf(doc)) /\ chunks \in Seq(ChunksOf(doc))
      BY <1>1 DEF TInv, PInv, Fields
    <3> QED
      BY <2>9, <3>1, Wider
  <2> QED
    BY <2>1, <2>3, <2>6, <2>7, <2>8, <2>10, Zenon DEF TypeOK
<1> QED
  BY <1>1, TextInit, NextText, PTL DEF Spec

\* No text of a document is lost, repeated or moved: its chunks hold the text
\* of its lines, in their order, but for the headings and the
\* table-of-contents markers, whatever the fences, the splits and the packing.
THEOREM AllTextKept == Spec => []TextKept
<1>1. ASSUME TInv PROVE TextKept
  <2> SUFFICES ASSUME phase = "done"
               PROVE  FlattenSeq([i \in DOMAIN chunks |-> Join(chunks[i].parts)])
                          = Text(Among(Len(doc), {l \in LineOf : Contents(l)}))
    BY DEF TextKept
  <2>1. doc \in Documents /\ sections = <<>> /\ fresh = <<>> /\ chunks \in Seq(ChunksOf(doc))
    BY <1>1 DEF TInv, PInv, Fields, Idle
  <2>2. MadeText(chunks) = Whole
    <3>1. Made = chunks
      <4>1. IsSeq(chunks)
        BY <2>1 DEF IsSeq
      <4> QED
        BY <2>1, <4>1, AppendedIsJoined DEF Made
    <3>2. Cat(MadeText(Made), <<>>) = Whole
      BY <1>1, <2>1, Texts3 DEF TInv, Conserved
    <3>3. Cat(MadeText(Made), <<>>) = MadeText(Made)
      BY <1>1, Texts0, Zenon DEF TInv, Texted
    <3> QED
      BY <3>1, <3>2, <3>3
  <2>3. {l \in LineOf : Contents(l)} = ContentsOf(doc)
    BY <2>1, LineFacts DEF ContentsOf
  <2>4. \A ls : Text(ls) = TextIn(doc, ls)
    BY DEF Text, Units, TextIn, EachIn, UnitsIn
  <2> QED
    BY <2>2, <2>3, <2>4 DEF MadeText, Whole, Covered
<1> QED
  BY <1>1, TextInit, NextText, PTL DEF Spec

\* Every chunk has the headings that its lines are under: the stack of
\* _parse_sections, kept while it reads, is right for every line, also behind
\* code that looks like a heading, and no part is packed under another path.
THEOREM HeadingsAreRight == Spec => []HeadingsRight
<1>1. ASSUME TInv PROVE HeadingsRight
  <2> SUFFICES ASSUME NEW i \in DOMAIN chunks, NEW p \in DOMAIN chunks[i].parts,
                      NEW u \in DOMAIN chunks[i].parts[p]
               PROVE  chunks[i].path = Enclosing(chunks[i].parts[p][u][1])
    BY DEF HeadingsRight
  <2>1. doc \in Documents /\ chunks \in Seq(ChunksOf(doc))
    BY <1>1 DEF TInv, PInv, Fields
  <2>2. chunks[i] \in ChunksOf(doc)
    <3> DEFINE V == ChunksOf(doc)
    <3> HIDE DEF V
    <3>1. chunks \in Seq(V)
      BY <2>1 DEF V
    <3>2. chunks[i] \in V
      BY <3>1
    <3> QED
      BY <3>2 DEF V
  <2> DEFINE L == Under(doc, chunks[i].path)
             W == Words(L)
  <2>3. chunks[i].parts \in Seq(Seq(W))
    BY <2>1, <2>2, ChunkFacts
  <2> HIDE DEF W
  <2>4. chunks[i].parts[p] \in Seq(W)
    <3> DEFINE V == Seq(W)
    <3> HIDE DEF V
    <3>1. chunks[i].parts \in Seq(V)
      BY <2>3 DEF V
    <3>2. chunks[i].parts[p] \in V
      BY <3>1
    <3> QED
      BY <3>2 DEF V
  <2>5. chunks[i].parts[p][u] \in W
    BY <2>4
  <2>6. chunks[i].parts[p][u][1] \in L
    BY <2>5 DEF W, Words
  <2>7. L \in SUBSET LinesOf(doc) /\ \A l \in L : EnclosingIn(doc, l) = chunks[i].path
    BY UnderLines DEF Under
  <2> HIDE DEF L
  <2> QED
    BY <2>1, <2>6, <2>7, LineFacts
<1> QED
  BY <1>1, TextInit, NextText, PTL DEF Spec

-----------------------------------------------------------------------------
(* No chunk without text.                                                  *)

\* What keeps the end of a list of texts from being empty.
Solids(L, S, e) ==
    /\ Solid(e) /\ \A a, b \in S : b # e => Cat(a, b) # e
    /\ \A s \in L : \A x \in S : x # e => Solid(Append(s, x)) /\ Solid(s \o <<x>>)
    /\ \A s \in L : s # e /\ Solid(s) => Solid(Tail(s)) /\ (Tail(s) = e => Head(s) # e)
    /\ \A s \in L : \A x \in S :
          s # e /\ Solid(s) /\ (Tail(s) = e => x # e) => Solid(<<x>> \o Tail(s))

LEMMA SolidFacts == ASSUME NEW U PROVE Solids(Seq(Seq(U)), Seq(U), <<>>)
<1> DEFINE S == Seq(U)
           L == Seq(S)
<1>1. ASSUME NEW a \in S, NEW b \in S, b # <<>> PROVE Cat(a, b) # <<>>
  <2>1. IsSeq(a) /\ IsSeq(b)
    BY DEF IsSeq
  <2>2. IsSeq(a \o b) /\ Len(a \o b) = Len(a) + Len(b)
    BY <2>1, Both
  <2>3. Len(a) \in Nat /\ Len(b) \in Nat /\ Len(b) # 0
    BY <1>1, <2>1, NotEmpty
  <2>4. Len(a \o b) # 0
    BY <2>2, <2>3
  <2> QED
    BY <2>2, <2>4, NotEmpty DEF Cat
<1> HIDE DEF S
<1>2. ASSUME NEW s \in L, NEW x \in S, x # <<>> PROVE Solid(Append(s, x)) /\ Solid(s \o <<x>>)
  <2>1. IsSeq(s)
    BY DEF IsSeq
  <2>2. s \o <<x>> = Append(s, x)
    BY <2>1, AppendedIsJoined
  <2>3. PICK c : c = Append(s, x)
    OBVIOUS
  <2>4. Len(s) \in Nat /\ Len(c) = Len(s) + 1 /\ c[Len(s) + 1] = x
    BY <2>1, <2>3, Appended
  <2>5. Solid(c)
    BY <1>2, <2>4 DEF Solid
  <2> QED
    BY <2>2, <2>3, <2>5
<1>3. ASSUME NEW s \in L, s # <<>>, Solid(s)
      PROVE  Solid(Tail(s)) /\ (Tail(s) = <<>> => Head(s) # <<>>)
  <2>1. IsSeq(s)
    BY DEF IsSeq
  <2>2. /\ IsSeq(Tail(s)) /\ Len(s) \in Nat /\ Len(Tail(s)) = Len(s) - 1
        /\ \A k \in 1 .. Len(s) - 1 : Tail(s)[k] = s[k + 1]
    BY <1>3, <2>1, Rest
  <2>3. Len(s) # 0 /\ s[Len(s)] # <<>> /\ Head(s) = s[1]
    BY <1>3, <2>1, NotEmpty DEF Solid
  <2>4. PICK t : t = Tail(s)
    OBVIOUS
  <2>5. t # <<>> => t[Len(t)] = s[Len(s)]
    <3>1. t # <<>> => Len(t) # 0
      BY <2>2, <2>4, NotEmpty
    <3> QED
      BY <2>2, <2>3, <2>4, <3>1
  <2>6. t = <<>> => Len(s) = 1
    <3>1. t = <<>> => Len(t) = 0
      BY <2>2, <2>4, NotEmpty
    <3> QED
      BY <2>2, <2>3, <2>4, <3>1
  <2> QED
    BY <2>3, <2>4, <2>5, <2>6 DEF Solid
<1>4. ASSUME NEW s \in L, NEW x \in S, s # <<>>, Solid(s), Tail(s) = <<>> => x # <<>>
      PROVE  Solid(<<x>> \o Tail(s))
  <2>1. IsSeq(s)
    BY DEF IsSeq
  <2>2. IsSeq(Tail(s)) /\ Len(Tail(s)) \in Nat
    BY <1>4, <2>1, Rest, NotEmpty
  <2>3. PICK t : t = Tail(s)
    OBVIOUS
  <2>4. PICK o : o = <<x>>
    OBVIOUS
  <2>5. IsSeq(o) /\ Len(o) = 1 /\ o[1] = x
    BY <2>4, Single
  <2>6. /\ Len(o \o t) = Len(o) + Len(t)
        /\ \A k \in 1 .. Len(o) + Len(t) : (o \o t)[k] = IF k <= Len(o) THEN o[k] ELSE t[k - Len(o)]
    BY <2>2, <2>3, <2>5, Both
  <2>7. PICK c : c = o \o t
    OBVIOUS
  <2>8. Len(t) \in Nat /\ Len(c) = 1 + Len(t) /\ (1 + Len(t)) - 1 = Len(t) /\ (Len(t) # 0 => ~(1 + Len(t) <= 1))
    BY <2>2, <2>3, <2>5, <2>6, <2>7
  <2>9. c[1 + Len(t)] = IF Len(t) = 0 THEN x ELSE t[Len(t)]
    <3>1. 1 + Len(t) \in 1 .. Len(o) + Len(t)
      BY <2>5, <2>8
    <3> QED
      BY <2>5, <2>6, <2>7, <2>8, <3>1
  <2>10. c[Len(c)] # <<>>
    <3>1. CASE Len(t) = 0
      <4>1. t = <<>>
        BY <2>2, <2>3, <3>1, NotEmpty
      <4> QED
        BY <1>4, <2>3, <2>8, <2>9, <3>1, <4>1
    <3>2. CASE Len(t) # 0
      <4>1. t # <<>>
        BY <2>2, <2>3, <3>2, NotEmpty
      <4>2. Solid(t)
        BY <1>3, <1>4, <2>3
      <4> QED
        BY <2>8, <2>9, <3>2, <4>1, <4>2 DEF Solid
    <3> QED
      BY <3>1, <3>2
  <2> QED
    BY <2>3, <2>4, <2>7, <2>10 DEF Solid
<1>5. Solid(<<>>)
  BY DEF Solid
<1>6. \A a, b \in S : b # <<>> => Cat(a, b) # <<>>
  BY <1>1, Zenon DEF S
<1> HIDE DEF L
<1> QED
  BY <1>2, <1>3, <1>4, <1>5, <1>6, Zenon DEF Solids, S, L

\* The chunks that have text, and those whose headings alone fill a chunk.
Worded(d) == {c \in ChunksOf(d) : TokensIn(d, c.path, <<>>) < SoftLimit => Join(c.parts) # <<>>}

\* A block ends with a line that is not blank, so the last part of a section
\* has text: what is left to pack at its end is never a blank line of code.
EndsWithText ==
    /\ phase \in {"split", "group", "pack"} => Solid(parts)
    /\ phase = "group" =>
          /\ Solid(pieces)
          /\ pieces = <<>> => IF open = <<>> THEN Solid(items) ELSE Join(open) # <<>>
    /\ phase = "cut" => Solid(items) /\ (items = <<>> => Solid(parts))
    /\ phase = "pack" /\ parts = <<>> /\ packed # <<>> => Join(packed) # <<>>
    /\ fresh \in Seq(Worded(doc)) /\ chunks \in Seq(Worded(doc))

NInv == TInv /\ EndsWithText

LEMMA WordsInit ==
    ASSUME Init
    PROVE  NInv
<1>1. phase = "read" /\ fresh = <<>> /\ chunks = <<>>
  BY DEF Init
<1>2. \A U : <<>> \in Seq(U)
  OBVIOUS
<1> QED
  BY <1>1, <1>2, TextInit DEF NInv, EndsWithText

\* The texts of the section.
LEMMA SolidHere ==
    ASSUME PInv
    PROVE  /\ Solids(Seq(UnderText), UnderText, <<>>) /\ Joins(Seq(UnderText), UnderText, <<>>)
           /\ Solid(<<>>)
BY SolidFacts, Texts0 DEF UnderText, Solids

\* The steps that make no chunk and leave no list to split or pack.
LEMMA WordsElsewhere ==
    ASSUME NInv, \/ ReadLine \/ Flush \/ ReadHeading \/ EndRead \/ BuildLine \/ EndBuild
                 \/ StartSection \/ EndCut \/ EndSplit \/ Refuse
    PROVE  EndsWithText'
<1>1. TInv /\ PInv /\ Solid(<<>>) /\ fresh \in Seq(Worded(doc)) /\ chunks \in Seq(Worded(doc))
  BY SolidHere DEF NInv, TInv, EndsWithText
<1>2. UNCHANGED <<doc, fresh, chunks>>
  BY DEF ReadLine, Flush, ReadHeading, EndRead, BuildLine, EndBuild, StartSection, EndCut, EndSplit,
         Refuse, packing
<1>3. CASE ReadLine \/ Flush \/ ReadHeading \/ EndRead \/ BuildLine \/ EndBuild \/ Refuse
  <2>1. phase' \in {"read", "build", "section", "refused"}
    BY <1>3 DEF ReadLine, Flush, ReadHeading, EndRead, BuildLine, EndBuild, Refuse
  <2> QED
    BY <1>1, <1>2, <2>1 DEF EndsWithText
<1>4. CASE StartSection
  <2>1. phase' = "split" /\ parts' = parts /\ phase = "section"
    BY <1>4 DEF StartSection, packing
  <2>2. parts = <<>>
    BY <1>1, <2>1 DEF PInv, Idle
  <2> QED
    BY <1>1, <1>2, <2>1, <2>2 DEF EndsWithText
<1>5. CASE EndCut
  <2>1. phase = "cut" /\ items = <<>> /\ phase' = "split" /\ parts' = parts
    BY <1>5 DEF EndCut, packing
  <2>2. Solid(parts)
    BY <2>1 DEF NInv, EndsWithText
  <2> QED
    BY <1>1, <1>2, <2>1, <2>2 DEF EndsWithText
<1>6. CASE EndSplit
  <2>1. phase = "split" /\ phase' = "pack" /\ parts' = parts /\ packed' = packed
    BY <1>6 DEF EndSplit, packing
  <2>2. Solid(parts) /\ packed = <<>>
    BY <1>1, <2>1 DEF NInv, EndsWithText, PInv, Idle
  <2> QED
    BY <1>1, <1>2, <2>1, <2>2 DEF EndsWithText
<1> QED
  BY <1>3, <1>4, <1>5, <1>6

LEMMA WordsSplit ==
    ASSUME NInv, SplitBlock
    PROVE  EndsWithText'
<1> DEFINE b == Head(blocks)
           x == TextIn(doc, b.lines)
           L == Under(doc, Here)
<1>1. /\ phase = "split" /\ blocks # <<>> /\ UNCHANGED <<doc, fresh, chunks>>
      /\ \/ phase' = "split" /\ parts' = Append(parts, Text(b.lines))
         \/ phase' = "group" /\ pieces' = PiecesOf(b) /\ parts' = parts
  BY DEF SplitBlock, PiecesOf
<1>2. PInv /\ ~Parses /\ doc \in Documents /\ L \in SUBSET LinesOf(doc)
  BY <1>1, UnderLines DEF NInv, TInv, PInv, Fields, Parses
<1>3. Solid(parts) /\ fresh \in Seq(Worded(doc)) /\ chunks \in Seq(Worded(doc))
  BY <1>1 DEF NInv, EndsWithText
<1>4. b \in BlocksOf(doc, L) /\ x \in UnderText
  BY <1>1, <1>2, Texts2
<1>5. x # <<>> /\ Text(b.lines) = x /\ PiecesOf(b) # <<>> /\ Solid(PiecesOf(b))
  BY <1>2, <1>4, BlockFacts, PiecesFacts
<1>6. Solid(Append(parts, x))
  <2>1. parts \in Seq(UnderText)
    BY <1>2, Texts1
  <2> QED
    BY <1>2, <1>4, <1>5, <2>1, SolidHere, Zenon DEF Solids
<1> HIDE DEF x, b
<1> QED
  BY <1>1, <1>3, <1>5, <1>6 DEF EndsWithText

LEMMA WordsGrouped ==
    ASSUME NInv, GroupPiece
    PROVE  EndsWithText'
<1> DEFINE piece == Head(pieces)
           now   == IF Overflows(open, piece) THEN <<piece>> ELSE Append(open, piece)
           ended == IF Overflows(open, piece) THEN <<Join(open)>> ELSE <<>>
<1>1. /\ phase = "group" /\ phase' = "group" /\ pieces # <<>> /\ pieces' = Tail(pieces)
      /\ UNCHANGED <<doc, parts, fresh, chunks>>
      /\ \/ items' = items \o ended \o <<Join(now)>> /\ open' = <<>>
         \/ items' = items \o ended /\ open' = now
  BY DEF GroupPiece, packing
<1>2. PInv /\ pieces \in Seq(UnderText) /\ open \in Seq(UnderText) /\ items \in Seq(UnderText)
      /\ Join(open) \in UnderText
  BY Texts1 DEF NInv, TInv
<1>3. Solids(Seq(UnderText), UnderText, <<>>) /\ Joins(Seq(UnderText), UnderText, <<>>)
  BY <1>2, SolidHere
<1>4. Solid(parts) /\ Solid(pieces) /\ fresh \in Seq(Worded(doc)) /\ chunks \in Seq(Worded(doc))
  BY <1>1 DEF NInv, EndsWithText
<1>5. Solid(Tail(pieces)) /\ (Tail(pieces) = <<>> => piece # <<>>)
  BY <1>1, <1>2, <1>3, <1>4, Zenon DEF Solids
<1>6. piece \in UnderText
  BY <1>1, <1>2, <1>3, Zenon DEF Joins
<1> HIDE DEF piece
<1>7. Tail(pieces) = <<>> => Join(now) # <<>> /\ Join(now) \in UnderText /\ now # <<>>
  <2> SUFFICES ASSUME piece # <<>> PROVE Join(now) # <<>> /\ Join(now) \in UnderText /\ now # <<>>
    BY <1>5
  <2>1. CASE Overflows(open, piece)
    <3>1. now = <<piece>>
      BY <2>1
    <3>2. Join(<<piece>>) = piece
      BY <1>3, <1>6, Zenon DEF Joins
    <3>3. <<piece>> # <<>>
      BY Single, NotEmpty
    <3> HIDE DEF now
    <3> QED
      BY <1>6, <3>1, <3>2, <3>3
  <2>2. CASE ~Overflows(open, piece)
    <3>1. now = Append(open, piece)
      BY <2>2
    <3>2. Join(Append(open, piece)) = Cat(Join(open), piece) /\ Append(open, piece) \in Seq(UnderText)
      BY <1>2, <1>3, <1>6, Zenon DEF Joins
    <3>3. Cat(Join(open), piece) # <<>>
      BY <1>2, <1>3, <1>6, Zenon DEF Solids
    <3>4. Join(Append(open, piece)) \in UnderText
      BY <1>3, <3>2, Zenon DEF Joins
    <3>5. Append(open, piece) # <<>>
      BY <1>2
    <3> HIDE DEF now
    <3> QED
      BY <3>1, <3>2, <3>3, <3>4, <3>5
  <2> QED
    BY <2>1, <2>2
<1>8. items \o ended \in Seq(UnderText)
  <2>1. CASE Overflows(open, piece)
    <3>1. ended = <<Join(open)>>
      BY <2>1
    <3>2. <<Join(open)>> \in Seq(UnderText)
      BY <1>2, <1>3, Zenon DEF Joins
    <3> HIDE DEF ended
    <3> QED
      BY <1>2, <3>1, <3>2
  <2>2. CASE ~Overflows(open, piece)
    BY <1>2, <2>2
  <2> QED
    BY <2>1, <2>2
<1> HIDE DEF now, ended
<1>9. pieces' = <<>> => IF open' = <<>> THEN Solid(items') ELSE Join(open') # <<>>
  <2> SUFFICES ASSUME pieces' = <<>>
               PROVE  IF open' = <<>> THEN Solid(items') ELSE Join(open') # <<>>
    OBVIOUS
  <2>1. Join(now) # <<>> /\ Join(now) \in UnderText /\ now # <<>>
    BY <1>1, <1>7
  <2>2. Solid((items \o ended) \o <<Join(now)>>)
    BY <1>3, <1>8, <2>1, Zenon DEF Solids
  <2> QED
    BY <1>1, <2>1, <2>2
<1> QED
  BY <1>1, <1>4, <1>5, <1>9 DEF EndsWithText

LEMMA WordsGroupEnded ==
    ASSUME NInv, EndGroup
    PROVE  EndsWithText'
<1>1. /\ phase = "group" /\ phase' = "cut" /\ pieces = <<>> /\ UNCHANGED <<doc, parts, fresh, chunks>>
      /\ items' = items \o (IF open = <<>> THEN <<>> ELSE <<Join(open)>>)
  BY DEF EndGroup, packing
<1>2. PInv /\ items \in Seq(UnderText) /\ Join(open) \in UnderText
  BY Texts1 DEF NInv, TInv
<1>3. Solids(Seq(UnderText), UnderText, <<>>)
  BY <1>2, SolidHere
<1>4. /\ Solid(parts) /\ fresh \in Seq(Worded(doc)) /\ chunks \in Seq(Worded(doc))
      /\ IF open = <<>> THEN Solid(items) ELSE Join(open) # <<>>
  BY <1>1 DEF NInv, EndsWithText
<1>5. Solid(items')
  <2>1. CASE open = <<>>
    <3>1. items \o <<>> = items
      BY <1>2
    <3> QED
      BY <1>1, <1>4, <2>1, <3>1
  <2>2. CASE open # <<>>
    <3>1. Solid(items \o <<Join(open)>>)
      BY <1>2, <1>3, <1>4, <2>2, Zenon DEF Solids
    <3> QED
      BY <1>1, <2>2, <3>1
  <2> QED
    BY <2>1, <2>2
<1> QED
  BY <1>1, <1>4, <1>5 DEF EndsWithText

LEMMA PrefixFacts ==
    ASSUME NEW U, NEW text \in Seq(U), NEW e \in SafePrefixes(text)
    PROVE  /\ Len(text) \in Nat /\ DOMAIN text = 1 .. Len(text) /\ e \in 0 .. Len(text)
           /\ e # 0 => Fits(SubSeq(text, 1, e))
           /\ e # Len(text) => ~Fits(SubSeq(text, 1, e + 1))
           /\ e = Len(text) => text = <<>> \/ Fits(text)
<1>1. Len(text) \in Nat /\ DOMAIN text = 1 .. Len(text) /\ (text = <<>> <=> Len(text) = 0)
      /\ SubSeq(text, 1, Len(text)) = text
  <2>1. 0 \in Nat /\ Len(text) \in Nat
    OBVIOUS
  <2>2. SubSeq(text, 1, Len(text)) = text
    <3>1. 0 <= Len(text) /\ Len(text) <= Len(text)
      BY <2>1
    <3> QED
      BY <2>1, <3>1, SubFacts
  <2> QED
    BY <2>1, <2>2
<1>2. /\ e \in 0 .. Len(text) /\ (e # 0 => Fits(SubSeq(text, 1, e)))
      /\ e # Len(text) => ~Fits(SubSeq(text, 1, e + 1))
  BY DEF SafePrefixes
<1> QED
  BY <1>1, <1>2

LEMMA WordsCut ==
    ASSUME NInv, KeepItem \/ CutItem
    PROVE  EndsWithText'
<1> DEFINE text == Head(items)
<1>1. /\ phase = "cut" /\ phase' = "cut" /\ items # <<>> /\ UNCHANGED <<doc, fresh, chunks>>
  BY DEF KeepItem, CutItem
<1>2. PInv /\ parts \in Seq(UnderText) /\ items \in Seq(UnderText)
  BY Texts1 DEF NInv, TInv
<1>3. Solids(Seq(UnderText), UnderText, <<>>) /\ Joins(Seq(UnderText), UnderText, <<>>)
  BY <1>2, SolidHere
<1>4. Solid(items) /\ fresh \in Seq(Worded(doc)) /\ chunks \in Seq(Worded(doc))
  BY <1>1 DEF NInv, EndsWithText
<1>5. Solid(Tail(items)) /\ (Tail(items) = <<>> => text # <<>>)
  BY <1>1, <1>2, <1>3, <1>4, Zenon DEF Solids
<1>6. text \in UnderText /\ Tail(items) \in Seq(UnderText)
  BY <1>1, <1>2, <1>3, Zenon DEF Joins
<1>7. CASE KeepItem
  <2>1. parts' = Append(parts, text) /\ items' = Tail(items)
    BY <1>7 DEF KeepItem
  <2>2. text # <<>> => Solid(Append(parts, text))
    BY <1>2, <1>3, <1>6, Zenon DEF Solids
  <2> HIDE DEF text
  <2> QED
    BY <1>1, <1>4, <1>5, <2>1, <2>2 DEF EndsWithText
<1>8. CASE CutItem
  <2>1. ~Fits(text)
    BY <1>8 DEF CutItem
  <2>2. PICK e \in SafePrefixes(text) :
            \E n \in 1 .. e : items' = <<SubSeq(text, n + 1, Len(text))>> \o Tail(items)
    BY <1>8 DEF CutItem
  <2>20. PICK n \in 1 .. e : items' = <<SubSeq(text, n + 1, Len(text))>> \o Tail(items)
    BY <2>2
  <2>3. e \in 0 .. Len(text) /\ e # Len(text) /\ Len(text) \in Nat
    <3>1. e \in 0 .. Len(text) /\ Len(text) \in Nat
      BY <1>6, <2>2, PrefixFacts DEF UnderText
    <3>2. e = Len(text) => text = <<>>
      BY <1>6, <2>1, <2>2, PrefixFacts DEF UnderText
    <3>3. e # 0
      BY <2>20, <3>1
    <3>4. Len(<<>>) = 0
      OBVIOUS
    <3> HIDE DEF text
    <3> QED
      BY <3>1, <3>2, <3>3, <3>4
  <2>4. n \in Nat /\ n < Len(text)
    BY <2>3
  <2>5. PICK y : y = SubSeq(text, n + 1, Len(text))
    OBVIOUS
  <2> HIDE DEF text
  <2>6. y \in UnderText /\ y # <<>>
    <3>1. PICK b : b = Len(text)
      OBVIOUS
    <3>2. b \in Nat /\ n <= b /\ b <= Len(text) /\ n # b
      BY <2>3, <2>4, <3>1
    <3>3. PICK W : W = Words(Under(doc, Here))
      OBVIOUS
    <3>4. text \in Seq(W)
      BY <1>6, <3>3 DEF UnderText
    <3>5. SubSeq(text, n + 1, b) \in Seq(W) /\ (SubSeq(text, n + 1, b) = <<>> <=> n = b)
      BY <2>4, <3>2, <3>4, SubFacts
    <3> QED
      BY <2>5, <3>1, <3>2, <3>3, <3>5 DEF UnderText
  <2>7. items' = <<y>> \o Tail(items)
    BY <2>20, <2>5
  <2>8. Solid(<<y>> \o Tail(items))
    BY <1>1, <1>2, <1>3, <1>4, <2>6, Zenon DEF Solids
  <2>9. <<y>> \o Tail(items) # <<>>
    <3>1. PICK o : o = <<y>>
      OBVIOUS
    <3>2. IsSeq(o) /\ Len(o) = 1 /\ IsSeq(Tail(items))
      BY <1>6, <3>1, Single DEF IsSeq
    <3>3. PICK t : t = Tail(items)
      OBVIOUS
    <3>4. IsSeq(o \o t) /\ Len(o \o t) = 1 + Len(t) /\ Len(t) \in Nat
      BY <3>2, <3>3, Both, NotEmpty
    <3>5. Len(o \o t) # 0
      BY <3>4
    <3> QED
      BY <3>1, <3>3, <3>4, <3>5, NotEmpty
  <2> QED
    BY <1>1, <1>4, <2>7, <2>8, <2>9 DEF EndsWithText
<1> QED
  BY <1>7, <1>8

LEMMA WordedMade ==
    ASSUME PInv, ~Parses, sections # <<>>, NEW texts \in Seq(UnderText), texts # <<>>, NEW k \in Nat,
           TokensIn(doc, Here, <<>>) < SoftLimit => Join(texts) # <<>>
    PROVE  MadeFrom(texts, k) \in Worded(doc)
<1>1. MadeFrom(texts, k) \in ChunksOf(doc) /\ MadeFrom(texts, k).parts = texts
  BY ChunkMade
<1>2. MadeFrom(texts, k).path = Here
  BY DEF MadeFrom
<1> QED
  BY <1>1, <1>2 DEF Worded

\* A chunk closed by a part that does not fit has text, or the part would not
\* fit by itself, and then this step is not taken.
LEMMA WordsPacked ==
    ASSUME NInv, Pack, CountsTokens
    PROVE  EndsWithText'
<1> DEFINE part  == Head(parts)
           now   == IF Overflows(packed, part) THEN <<part>> ELSE Append(packed, part)
           ended == IF Overflows(packed, part) THEN <<MadeFrom(packed, 0)>> ELSE <<>>
<1>1. /\ phase = "pack" /\ phase' = "pack" /\ parts # <<>> /\ parts' = Tail(parts)
      /\ UNCHANGED <<doc, chunks>>
      /\ \/ /\ Full(Join(now)) /\ Fits(Join(now))
            /\ fresh' = fresh \o ended \o <<MadeFrom(now, Len(ended))>> /\ packed' = <<>>
         \/ ~Full(Join(now)) /\ fresh' = fresh \o ended /\ packed' = now
  BY DEF Pack
<1>2. PInv /\ ~Parses
  BY <1>1 DEF NInv, TInv, Parses
<1>3. sections # <<>> /\ parts \in Seq(UnderText) /\ packed \in Seq(UnderText)
  BY <1>1, <1>2, Texts1, Texts4 DEF InSection
<1>4. Solids(Seq(UnderText), UnderText, <<>>) /\ Joins(Seq(UnderText), UnderText, <<>>)
  BY <1>2, SolidHere
<1>5. Solid(parts) /\ fresh \in Seq(Worded(doc)) /\ chunks \in Seq(Worded(doc))
  BY <1>1 DEF NInv, EndsWithText
<1>6. Solid(Tail(parts)) /\ (Tail(parts) = <<>> => part # <<>>)
  BY <1>1, <1>3, <1>4, <1>5, Zenon DEF Solids
<1>7. part \in UnderText
  BY <1>1, <1>3, <1>4, Zenon DEF Joins
<1>8. Join(packed) \in UnderText /\ Join(Append(packed, part)) = Cat(Join(packed), part)
  BY <1>3, <1>4, <1>7, Zenon DEF Joins
<1>9. now \in Seq(UnderText) /\ now # <<>>
  <2> HIDE DEF part
  <2>1. CASE Overflows(packed, part)
    <3>1. now = <<part>> /\ <<part>> # <<>>
      BY <2>1, Single, NotEmpty
    <3> HIDE DEF now
    <3> QED
      BY <1>7, <3>1
  <2>2. CASE ~Overflows(packed, part)
    <3>1. now = Append(packed, part)
      BY <2>2
    <3> HIDE DEF now
    <3> QED
      BY <1>3, <1>7, <3>1
  <2> QED
    BY <2>1, <2>2
<1>10. part # <<>> => Join(now) # <<>>
  <2> HIDE DEF part
  <2>1. CASE Overflows(packed, part)
    <3>1. now = <<part>>
      BY <2>1
    <3>2. Join(<<part>>) = part
      BY <1>4, <1>7, Zenon DEF Joins
    <3> HIDE DEF now
    <3> QED
      BY <3>1, <3>2
  <2>2. CASE ~Overflows(packed, part)
    <3>1. now = Append(packed, part)
      BY <2>2
    <3>2. part # <<>> => Cat(Join(packed), part) # <<>>
      BY <1>4, <1>7, <1>8, Zenon DEF Solids
    <3> HIDE DEF now
    <3> QED
      BY <1>8, <3>1, <3>2
  <2> QED
    BY <2>1, <2>2
<1>11. Overflows(packed, part) => packed # <<>> /\ Join(packed) # <<>>
  <2> HIDE DEF part
  <2> SUFFICES ASSUME Overflows(packed, part) PROVE packed # <<>> /\ Join(packed) # <<>>
    OBVIOUS
  <2>1. packed # <<>> /\ ~Fits(Join(Append(packed, part)))
    BY DEF Overflows
  <2>2. now = <<part>>
    OBVIOUS
  <2>3. Join(<<part>>) = part
    BY <1>4, <1>7, Zenon DEF Joins
  <2>4. Join(packed) = <<>> => Cat(Join(packed), part) = part
    BY <1>2, <1>7, Texts0, Zenon DEF Texted
  <2>5. Full(part) => Fits(part)
    BY <1>1, <2>2, <2>3
  <2>6. ~Full(part) => Fits(part)
    <3>1. Tokens(Here, part) \in Int
      BY DEF CountsTokens, Tokens
    <3> QED
      BY <3>1, LimitAssumption DEF Full, Fits
  <2> QED
    BY <1>8, <2>1, <2>4, <2>5, <2>6
<1>12. fresh' \in Seq(Worded(doc))
  <2> DEFINE W == Worded(doc)
  <2>1. ended \in Seq(W) /\ Len(ended) \in Nat
    <3>1. CASE Overflows(packed, part)
      <4>1. PICK c : c = MadeFrom(packed, 0)
        OBVIOUS
      <4>2. c \in W
        BY <1>2, <1>3, <1>11, <3>1, <4>1, WordedMade
      <4>3. ended = <<c>>
        BY <3>1, <4>1
      <4> HIDE DEF ended, W
      <4> QED
        BY <4>2, <4>3
    <3>2. CASE ~Overflows(packed, part)
      BY <3>2
    <3> QED
      BY <3>1, <3>2
  <2> HIDE DEF ended
  <2>2. Full(Join(now)) => MadeFrom(now, Len(ended)) \in W
    <3> HIDE DEF now
    <3>1. Full(Join(now)) /\ TokensIn(doc, Here, <<>>) < SoftLimit => Join(now) # <<>>
      <4>1. PICK e : e = <<>>
        OBVIOUS
      <4>2. TokensIn(doc, Here, e) \in Int
        BY DEF CountsTokens, TokensIn
      <4> QED
        BY <4>1, <4>2, LimitAssumption DEF Full, Tokens, TokensIn
    <3> QED
      BY <1>2, <1>3, <1>9, <2>1, <3>1, WordedMade
  <2> HIDE DEF now, W
  <2>3. fresh \in Seq(W)
    BY <1>5 DEF W
  <2>4. PICK c : c = MadeFrom(now, Len(ended))
    OBVIOUS
  <2>5. fresh \o ended \in Seq(W)
    BY <2>1, <2>3
  <2>6. c \in W => fresh \o ended \o <<c>> \in Seq(W)
    BY <2>5
  <2>7. fresh' \in Seq(W)
    BY <1>1, <2>2, <2>4, <2>5, <2>6
  <2> QED
    BY <2>7 DEF W
<1>13. parts' = <<>> /\ packed' # <<>> => Join(packed') # <<>>
  <2> HIDE DEF part, now, ended
  <2> QED
    BY <1>1, <1>6, <1>10
<1> HIDE DEF part, now, ended
<1> QED
  BY <1>1, <1>5, <1>6, <1>12, <1>13 DEF EndsWithText

LEMMA WordsSectionEnded ==
    ASSUME NInv, EndSection
    PROVE  EndsWithText'
<1> DEFINE last == IF packed = <<>> THEN <<>> ELSE <<MadeFrom(packed, 0)>>
           W == Worded(doc)
<1>1. /\ phase = "pack" /\ phase' = "section" /\ parts = <<>> /\ doc' = doc
      /\ chunks' = chunks \o fresh \o last /\ fresh' = <<>>
  BY DEF EndSection
<1>2. PInv /\ ~Parses
  BY <1>1 DEF NInv, TInv, Parses
<1>3. sections # <<>> /\ packed \in Seq(UnderText)
  BY <1>1, <1>2, Texts1, Texts4 DEF InSection
<1>4. /\ fresh \in Seq(Worded(doc)) /\ chunks \in Seq(Worded(doc))
      /\ packed # <<>> => Join(packed) # <<>>
  BY <1>1 DEF NInv, EndsWithText
<1>5. last \in Seq(W)
  <2>1. CASE packed = <<>>
    BY <2>1
  <2>2. CASE packed # <<>>
    <3>1. PICK c : c = MadeFrom(packed, 0)
      OBVIOUS
    <3>2. c \in W
      BY <1>2, <1>3, <1>4, <2>2, <3>1, WordedMade
    <3>3. last = <<c>>
      BY <2>2, <3>1
    <3> HIDE DEF last, W
    <3> QED
      BY <3>2, <3>3
  <2> QED
    BY <2>1, <2>2
<1>6. chunks \in Seq(W) /\ fresh \in Seq(W)
  BY <1>4
<1> HIDE DEF last, W
<1>7. chunks' \in Seq(W) /\ fresh' \in Seq(W)
  BY <1>1, <1>5, <1>6
<1> QED
  BY <1>1, <1>7 DEF EndsWithText, W

LEMMA WordsLinked ==
    ASSUME NInv, Link
    PROVE  EndsWithText'
<1>1. phase' = "done" /\ doc' = doc /\ fresh' = fresh
  BY DEF Link, packing
<1>2. fresh \in Seq(Worded(doc)) /\ chunks \in Seq(Worded(doc))
  BY DEF NInv, EndsWithText
<1>3. /\ chunks' \in Seq(ChunksOf(doc)) /\ DOMAIN chunks = 1 .. Len(chunks)
      /\ DOMAIN chunks' = 1 .. Len(chunks) /\ Len(chunks') = Len(chunks)
      /\ \A i \in 1 .. Len(chunks) :
            chunks'[i].path = chunks[i].path /\ chunks'[i].parts = chunks[i].parts
  BY LinkedFacts DEF NInv, TInv
<1>4. \A i \in DOMAIN chunks' : chunks'[i] \in Worded(doc)
  <2> TAKE i \in DOMAIN chunks'
  <2>1. chunks[i] \in Worded(doc)
    <3> DEFINE W == Worded(doc)
    <3> HIDE DEF W
    <3>1. chunks \in Seq(W)
      BY <1>2 DEF W
    <3>2. chunks[i] \in W
      BY <1>3, <3>1
    <3> QED
      BY <3>2 DEF W
  <2>2. chunks'[i] \in ChunksOf(doc)
    <3> DEFINE V == ChunksOf(doc)
    <3> HIDE DEF V
    <3>1. chunks' \in Seq(V)
      BY <1>3 DEF V
    <3>2. chunks'[i] \in V
      BY <3>1
    <3> QED
      BY <3>2 DEF V
  <2> QED
    BY <1>3, <2>1, <2>2 DEF Worded
<1>5. chunks' \in Seq(Worded(doc))
  BY <1>3, <1>4, Within
<1> QED
  BY <1>1, <1>2, <1>5 DEF EndsWithText

LEMMA NextWords ==
    ASSUME NInv, [Next]_vars, CountsTokens
    PROVE  NInv'
<1>1. TInv'
  BY NextText DEF NInv
<1>2. CASE \/ ReadLine \/ Flush \/ ReadHeading \/ EndRead \/ BuildLine \/ EndBuild
           \/ StartSection \/ EndCut \/ EndSplit \/ Refuse
  BY <1>1, <1>2, WordsElsewhere DEF NInv
<1>3. CASE SplitBlock
  BY <1>1, <1>3, WordsSplit DEF NInv
<1>4. CASE GroupPiece
  BY <1>1, <1>4, WordsGrouped DEF NInv
<1>5. CASE EndGroup
  BY <1>1, <1>5, WordsGroupEnded DEF NInv
<1>6. CASE KeepItem \/ CutItem
  BY <1>1, <1>6, WordsCut DEF NInv
<1>7. CASE Pack
  BY <1>1, <1>7, WordsPacked DEF NInv
<1>8. CASE EndSection
  BY <1>1, <1>8, WordsSectionEnded DEF NInv
<1>9. CASE Link
  BY <1>1, <1>9, WordsLinked DEF NInv
<1>10. CASE UNCHANGED vars
  <2>1. UNCHANGED <<doc, phase, pieces, open, items, parts, packed, fresh, chunks>>
    BY <1>10 DEF vars, splitting, packing
  <2>2. EndsWithText'
    BY <2>1 DEF NInv, EndsWithText
  <2> QED
    BY <1>1, <2>2 DEF NInv
<1> QED
  BY <1>2, <1>3, <1>4, <1>5, <1>6, <1>7, <1>8, <1>9, <1>10 DEF Next

\* No chunk without text is made, whatever blank lines of code are split off
\* and packed, unless a heading path alone reaches the soft limit.
THEOREM NoEmptyChunks ==
    ASSUME CountsTokens
    PROVE  Spec => []NoEmptyChunk
<1>1. ASSUME NInv PROVE NoEmptyChunk
  <2> SUFFICES ASSUME NEW i \in DOMAIN chunks, Tokens(chunks[i].path, <<>>) < SoftLimit
               PROVE  Join(chunks[i].parts) # <<>>
    BY DEF NoEmptyChunk
  <2> DEFINE W == Worded(doc)
  <2> HIDE DEF W
  <2>1. chunks \in Seq(W)
    BY <1>1 DEF NInv, EndsWithText, W
  <2>2. chunks[i] \in W
    BY <2>1
  <2> QED
    BY <2>2 DEF W, Worded, Tokens, TokensIn
<1> QED
  BY <1>1, WordsInit, NextWords, PTL DEF Spec

-----------------------------------------------------------------------------
(* Refusals.                                                               *)

\* The units that contents of document d have.
UnitsOf(d) == {w \in Words(ContentsOf(d)) : w[2] <= d[w[1]].size}

\* The texts of lines under headings h that fit below them.
FittingIn(d, h) == {t \in Seq(Words(Under(d, h))) : TokensIn(d, h, t) <= HardLimit}

\* What Shrinks says, for text w of document d.
ShrinksIn(d, h, w) ==
    \E i, n, m \in DOMAIN w :
        /\ i <= n /\ n < m
        /\ \A k \in i .. m : EnclosingIn(d, w[k][1]) = h
        /\ TokensIn(d, h, SubSeq(w, i, n)) > HardLimit
        /\ TokensIn(d, h, SubSeq(w, i, m)) <= HardLimit

\* A unit under headings h that does not fit below them.
TooLong(d, h) == \E l \in Under(d, h) : \E u \in 1 .. d[l].size : TokensIn(d, h, <<<<l, u>>>>) > HardLimit

\* Every part fits, and a section is given up for lack of room only, unless
\* counts shrink in it.
PartsFit ==
    /\ InSection => ShrinksIn(doc, Here, Whole) \/ parts \in Seq(FittingIn(doc, Here))
    /\ phase = "refused" =>
          /\ sections # <<>>
          /\ TokensIn(doc, Here, <<>>) >= HardLimit \/ TooLong(doc, Here) \/ ShrinksIn(doc, Here, Whole)

RInv == TInv /\ PartsFit

\* A text within another one.
LEMMA Segment ==
    ASSUME NEW U, NEW a \in Seq(U), NEW t \in Seq(U), NEW b \in Seq(U), NEW w, w = a \o (t \o b),
           NEW n \in 1 .. Len(t)
    PROVE  /\ Len(a) \in Nat /\ Len(t) \in Nat /\ DOMAIN w = 1 .. Len(w)
           /\ Len(a) + n \in DOMAIN w /\ w[Len(a) + n] = t[n]
           /\ SubSeq(w, Len(a) + 1, Len(a) + n) = SubSeq(t, 1, n)
<1> DEFINE p == Len(a)
           q == Len(t)
<1>1. IsSeq(a) /\ IsSeq(t) /\ IsSeq(b) /\ p \in Nat /\ q \in Nat /\ Len(b) \in Nat
  BY DEF IsSeq
<1>2. PICK c : c = t \o b
  OBVIOUS
<1>3. /\ IsSeq(c) /\ Len(c) = q + Len(b)
      /\ \A k \in 1 .. q + Len(b) : c[k] = IF k <= q THEN t[k] ELSE b[k - q]
  BY <1>1, <1>2, Both
<1>4. /\ IsSeq(w) /\ Len(w) = p + Len(c)
      /\ \A k \in 1 .. p + Len(c) : w[k] = IF k <= p THEN a[k] ELSE c[k - p]
  BY <1>1, <1>2, <1>3, Both
<1>5. c \in Seq(U) /\ w \in Seq(U)
  BY <1>2
<1> HIDE DEF p, q
<1>6. ASSUME NEW k \in 1 .. q PROVE p + k \in 1 .. Len(w) /\ w[p + k] = t[k]
  <2>1. p + k \in 1 .. p + Len(c) /\ ~(p + k <= p) /\ (p + k) - p = k /\ k \in 1 .. q + Len(b) /\ k <= q
    BY <1>1, <1>3
  <2> QED
    BY <1>3, <1>4, <2>1
<1>7. /\ n \in Nat /\ p <= p + n /\ p + n <= Len(w) /\ 0 <= n /\ n <= q /\ 0 \in Nat /\ p + n \in Nat
      /\ (p + n) - p = n /\ n - 0 = n
  BY <1>1, <1>6 DEF q
<1>8. /\ SubSeq(w, p + 1, p + n) \in Seq(U) /\ Len(SubSeq(w, p + 1, p + n)) = n
      /\ \A k \in 1 .. n : SubSeq(w, p + 1, p + n)[k] = w[p + k]
  <2>1. PICK r : r = p + n
    OBVIOUS
  <2>2. r \in Nat /\ p <= r /\ r <= Len(w) /\ r - p = n
    BY <1>7, <2>1
  <2>3. /\ SubSeq(w, p + 1, r) \in Seq(U) /\ Len(SubSeq(w, p + 1, r)) = r - p
        /\ \A k \in 1 .. r - p : SubSeq(w, p + 1, r)[k] = w[p + k]
    <3>1. PICK g : g = p
      OBVIOUS
    <3>2. PICK v : v = w
      OBVIOUS
    <3>3. v \in Seq(U) /\ g \in Nat /\ r \in Nat /\ g <= r /\ r <= Len(v)
      BY <1>1, <1>5, <2>2, <3>1, <3>2
    <3>4. /\ SubSeq(v, g + 1, r) \in Seq(U) /\ Len(SubSeq(v, g + 1, r)) = r - g
          /\ \A k \in 1 .. r - g : SubSeq(v, g + 1, r)[k] = v[g + k]
      BY <3>3, SubFacts
    <3> QED
      BY <3>1, <3>2, <3>4
  <2> QED
    BY <2>1, <2>2, <2>3
<1>9. /\ SubSeq(t, 1, n) \in Seq(U) /\ Len(SubSeq(t, 1, n)) = n
      /\ \A k \in 1 .. n : SubSeq(t, 1, n)[k] = t[k]
  BY <1>7 DEF q
<1>10. PICK x : x = SubSeq(w, p + 1, p + n)
  OBVIOUS
<1>11. PICK y : y = SubSeq(t, 1, n)
  OBVIOUS
<1>12. x = y
  <2>1. IsSeq(x) /\ IsSeq(y) /\ Len(x) = n /\ Len(y) = n
    BY <1>8, <1>9, <1>10, <1>11 DEF IsSeq
  <2>2. \A k \in 1 .. n : x[k] = y[k]
    <3> TAKE k \in 1 .. n
    <3>1. k \in 1 .. q
      BY <1>1, <1>7
    <3>2. x[k] = w[p + k] /\ y[k] = t[k] /\ w[p + k] = t[k]
      BY <1>6, <1>8, <1>9, <1>10, <1>11, <3>1
    <3> QED
      BY <3>2
  <2> QED
    BY <2>1, <2>2, Same
<1>13. n \in 1 .. q
  BY DEF q
<1>14. DOMAIN w = 1 .. Len(w)
  BY <1>5
<1> QED
  BY <1>1, <1>6, <1>10, <1>11, <1>12, <1>13, <1>14 DEF p, q

\* The text of a document is made of its units.
LEMMA WholeUnits ==
    ASSUME NEW d \in Documents
    PROVE  Covered(d, Len(d)) \in Seq(UnitsOf(d))
<1> DEFINE C == ContentsOf(d)
           T == UnitsOf(d)
<1>1. Len(d) \in Nat /\ C \in SUBSET LinesOf(d)
  BY DocumentFacts, UnderLines
<1>2. Lists(Among(Len(d), C), Len(d), C)
  BY <1>1, AmongLists
<1>3. PICK ls : ls = Among(Len(d), C)
  OBVIOUS
<1>4. ls \in Seq(Nat) /\ \A k \in 1 .. Len(ls) : ls[k] \in C
  BY <1>2, <1>3 DEF Lists
<1>5. \A l \in C : UnitsIn(d, l) \in Seq(T)
  <2> TAKE l \in C
  <2>1. d[l].size \in Nat
    BY <1>1, DocumentFacts
  <2>2. \A i \in 1 .. d[l].size : <<l, i>> \in T
    BY <2>1 DEF UnitsOf, Words
  <2> HIDE DEF T, C
  <2> QED
    BY <2>1, <2>2 DEF UnitsIn
<1> HIDE DEF C, T
<1>6. EachIn(d, ls) \in Seq(Seq(T))
  <2>1. Len(ls) \in Nat /\ DOMAIN ls = 1 .. Len(ls)
    BY <1>4
  <2>2. \A k \in 1 .. Len(ls) : UnitsIn(d, ls[k]) \in Seq(T)
    BY <1>4, <1>5
  <2>3. PICK S : S = Seq(T)
    OBVIOUS
  <2>4. \A k \in 1 .. Len(ls) : UnitsIn(d, ls[k]) \in S
    BY <2>2, <2>3
  <2>5. EachIn(d, ls) \in Seq(S)
    BY <2>1, <2>4 DEF EachIn
  <2> QED
    BY <2>3, <2>5
<1>7. FlattenSeq(EachIn(d, ls)) \in Seq(T)
  BY <1>6, FlattenType
<1> QED
  BY <1>3, <1>7 DEF Covered, TextIn, C, T

\* The text that is being cut, where it stands in the text of the document.
LEMMA ItemPlaced ==
    ASSUME TInv, phase = "cut", items # <<>>
    PROVE  \E a, b \in AllText : Whole = a \o (Head(items) \o b)
<1>1. PInv /\ ~Parses /\ InSection /\ sections # <<>>
  <2>1. PInv /\ ~Parses /\ InSection
    BY DEF TInv, Parses, InSection
  <2> QED
    BY <2>1 DEF PInv, Idle
<1> DEFINE M == MadeText(Made)
           P == Join(parts)
           t == Head(items)
           j == Join(Tail(items))
           B == BlocksText(doc, blocks)
           Z == SectionsText(doc, Tail(sections))
<1>2. Cat(M, Cat(P, Cat(Join(items), Cat(B, Z)))) = Whole
  BY DEF TInv, Conserved
<1>3. Texted(AllText, <<>>) /\ M \in AllText /\ P \in AllText /\ B \in AllText /\ Z \in AllText
  BY <1>1, Texts0, Texts1, Texts2, Texts3
<1>4. t \in AllText /\ j \in AllText /\ Join(items) = Cat(t, j)
  <2>1. t \in UnderText /\ Tail(items) \in Seq(UnderText) /\ Join(items) = Cat(t, j)
    BY <1>1, Texts0, Texts1, Zenon DEF Joins
  <2>2. j \in UnderText
    BY <1>1, <2>1, Texts0, Zenon DEF Joins
  <2> QED
    BY <1>1, <2>1, <2>2, Texts0
<1> HIDE DEF M, P, t, j, B, Z
<1>5. Cat(B, Z) \in AllText /\ Cat(j, Cat(B, Z)) \in AllText /\ Cat(M, P) \in AllText
      /\ Cat(t, Cat(j, Cat(B, Z))) \in AllText
  BY <1>3, <1>4, Zenon DEF Texted
<1>6. Cat(Cat(t, j), Cat(B, Z)) = Cat(t, Cat(j, Cat(B, Z)))
  BY <1>3, <1>4, <1>5, Regroup
<1>7. Cat(M, Cat(P, Cat(t, Cat(j, Cat(B, Z))))) = Cat(Cat(M, P), Cat(t, Cat(j, Cat(B, Z))))
  BY <1>3, <1>5, Zenon DEF Texted
<1>8. Whole = Cat(Cat(M, P), Cat(t, Cat(j, Cat(B, Z))))
  BY <1>2, <1>4, <1>6, <1>7
<1> QED
  BY <1>5, <1>8 DEF Cat, t

\* A text is cut where it fits, unless the counts of its section shrink.
LEMMA CutFits ==
    ASSUME TInv, CountsTokens, phase = "cut", items # <<>>,
           NEW e \in SafePrefixes(Head(items)), NEW n \in 1 .. e
    PROVE  ShrinksIn(doc, Here, Whole) \/ SubSeq(Head(items), 1, n) \in FittingIn(doc, Here)
<1> DEFINE N(t) == TokensIn(doc, Here, t)
           W == Words(Under(doc, Here))
<1>1. PICK t : t = Head(items)
  OBVIOUS
<1>2. PInv /\ doc \in Documents /\ t \in UnderText /\ t \in Seq(W) /\ t \in AllText
  <2>1. PInv
    BY DEF TInv
  <2>2. Head(items) \in UnderText
    BY <2>1, Texts0, Texts1, Zenon DEF Joins
  <2> QED
    BY <1>1, <2>1, <2>2, Texts0 DEF UnderText
<1>3. \A x : N(x) \in Int /\ (Fits(x) <=> N(x) <= HardLimit)
  BY DEF CountsTokens, Fits, Tokens, TokensIn
<1>4. \A k \in DOMAIN t : EnclosingIn(doc, t[k][1]) = Here
  <2> TAKE k \in DOMAIN t
  <2>1. t[k] \in W
    BY <1>2
  <2> QED
    BY <2>1 DEF W, Words, Under
<1> HIDE DEF N, W
<1>5. /\ Len(t) \in Nat /\ DOMAIN t = 1 .. Len(t) /\ e \in 0 .. Len(t) /\ (e # 0 => Fits(SubSeq(t, 1, e)))
  BY <1>1, <1>2, PrefixFacts
<1>6. /\ e \in 1 .. Len(t) /\ n \in 1 .. Len(t) /\ n <= e /\ e # 0 /\ n \in Nat /\ 1 \in 1 .. Len(t)
      /\ (n # e => n < e)
  BY <1>5
<1>7. SubSeq(t, 1, n) \in Seq(W)
  BY <1>2, <1>5, <1>6
<1>8. CASE N(SubSeq(t, 1, n)) <= HardLimit
  BY <1>1, <1>7, <1>8 DEF FittingIn, N, W
<1>9. CASE ~(N(SubSeq(t, 1, n)) <= HardLimit)
  <2>1. n < e /\ N(SubSeq(t, 1, n)) > HardLimit /\ N(SubSeq(t, 1, e)) <= HardLimit
    <3>1. n # e
      BY <1>3, <1>5, <1>6, <1>9
    <3>2. HardLimit \in Int /\ N(SubSeq(t, 1, n)) \in Int
      BY <1>3, LimitAssumption
    <3>3. N(SubSeq(t, 1, n)) > HardLimit
      BY <1>9, <3>2
    <3> QED
      BY <1>3, <1>5, <1>6, <3>1, <3>3
  <2>2. PICK a \in AllText, b \in AllText : Whole = a \o (t \o b)
    BY <1>1, ItemPlaced
  <2>3. PICK w : w = Whole
    OBVIOUS
  <2>4. PICK p : p = Len(a)
    OBVIOUS
  <2>5. PICK U : U = Words(LinesOf(doc))
    OBVIOUS
  <2>6. a \in Seq(U) /\ t \in Seq(U) /\ b \in Seq(U) /\ w = a \o (t \o b)
    BY <1>2, <2>2, <2>3, <2>5 DEF AllText
  <2>7. \A k \in 1 .. Len(t) : /\ p \in Nat /\ p + k \in DOMAIN w /\ w[p + k] = t[k]
                               /\ SubSeq(w, p + 1, p + k) = SubSeq(t, 1, k)
    BY <2>4, <2>6, Segment
  <2>8. p + 1 <= p + n /\ p + n < p + e
    BY <1>6, <2>1, <2>7
  <2>9. \A k \in p + 1 .. p + e : EnclosingIn(doc, w[k][1]) = Here
    <3> TAKE k \in p + 1 .. p + e
    <3>1. k - p \in 1 .. Len(t) /\ p + (k - p) = k
      <4>1. p \in Nat /\ e \in Nat /\ Len(t) \in Nat /\ e <= Len(t)
        BY <1>5, <1>6, <2>7
      <4>2. k \in Nat /\ p + 1 <= k /\ k <= p + e
        BY <4>1
      <4> QED
        BY <4>1, <4>2
    <3>2. w[k] = t[k - p]
      BY <2>7, <3>1
    <3> QED
      BY <1>4, <1>5, <3>1, <3>2
  <2>10. N(SubSeq(w, p + 1, p + n)) > HardLimit /\ N(SubSeq(w, p + 1, p + e)) <= HardLimit
    BY <1>6, <2>1, <2>7
  <2>11. p + 1 \in DOMAIN w /\ p + n \in DOMAIN w /\ p + e \in DOMAIN w
    BY <1>6, <2>7
  <2>12. ShrinksIn(doc, Here, w)
    BY <2>8, <2>9, <2>10, <2>11 DEF ShrinksIn, N
  <2> QED
    BY <2>3, <2>12
<1> QED
  BY <1>8, <1>9

\* When no prefix of a text is found, its first unit does not fit.
LEMMA NonePrefix ==
    ASSUME TInv, CountsTokens, phase = "cut", items # <<>>, ~Fits(Head(items)),
           0 \in SafePrefixes(Head(items))
    PROVE  TokensIn(doc, Here, <<>>) >= HardLimit \/ TooLong(doc, Here)
<1> DEFINE N(t) == TokensIn(doc, Here, t)
<1>1. PICK t : t = Head(items)
  OBVIOUS
<1>2. PICK W : W = Words(Under(doc, Here))
  OBVIOUS
<1>3. PInv /\ doc \in Documents /\ t \in Seq(W) /\ t \in AllText
  <2>1. PInv
    BY DEF TInv
  <2>2. Head(items) \in UnderText
    BY <2>1, Texts0, Texts1, Zenon DEF Joins
  <2> QED
    BY <1>1, <1>2, <2>1, <2>2, Texts0 DEF UnderText
<1>4. \A x : N(x) \in Int /\ (Fits(x) <=> N(x) <= HardLimit)
  BY DEF CountsTokens, Fits, Tokens, TokensIn
<1> HIDE DEF N
<1>5. HardLimit \in Int /\ ~Fits(t)
  BY <1>1, LimitAssumption
<1>6. /\ Len(t) \in Nat /\ DOMAIN t = 1 .. Len(t) /\ 0 \in SafePrefixes(t)
      /\ 0 # Len(t) => ~Fits(SubSeq(t, 1, 0 + 1))
  BY <1>1, <1>3, PrefixFacts
<1>7. CASE t = <<>>
  <2>1. ~(N(<<>>) <= HardLimit) /\ N(<<>>) \in Int
    BY <1>4, <1>5, <1>7
  <2> QED
    BY <1>5, <2>1 DEF N
<1>8. CASE t # <<>>
  <2>1. 0 # Len(t) /\ 1 \in 1 .. Len(t) /\ 0 + 1 = 1 /\ 1 \in Nat
    BY <1>3, <1>6, <1>8
  <2>2. PICK w : w = t[1]
    OBVIOUS
  <2>3. w \in W /\ SubSeq(t, 1, 1) = <<w>>
    <3>1. PICK x : x = SubSeq(t, 1, 1)
      OBVIOUS
    <3>2. x \in Seq(W) /\ Len(x) = 1 /\ x[1] = w
      BY <1>3, <2>1, <2>2, <3>1
    <3>3. w \in W
      BY <1>3, <2>1, <2>2
    <3>4. x = <<w>>
      BY <3>2
    <3> QED
      BY <3>1, <3>3, <3>4
  <2>4. w \in UnitsOf(doc)
    <3>1. PICK a \in AllText, b \in AllText : Whole = a \o (t \o b)
      BY <1>1, ItemPlaced
    <3>2. PICK v : v = Whole
      OBVIOUS
    <3>3. PICK U : U = Words(LinesOf(doc))
      OBVIOUS
    <3>4. a \in Seq(U) /\ t \in Seq(U) /\ b \in Seq(U) /\ v = a \o (t \o b)
      BY <1>3, <3>1, <3>2, <3>3 DEF AllText
    <3>5. Len(a) + 1 \in DOMAIN v /\ v[Len(a) + 1] = t[1]
      BY <2>1, <3>4, Segment
    <3>6. PICK V : V = UnitsOf(doc)
      OBVIOUS
    <3>7. v \in Seq(V)
      BY <1>3, <3>2, <3>6, WholeUnits DEF Whole
    <3>8. v[Len(a) + 1] \in V
      BY <3>5, <3>7
    <3> QED
      BY <2>2, <3>5, <3>6, <3>8
  <2>5. w = <<w[1], w[2]>> /\ w[1] \in Under(doc, Here) /\ w[2] \in Nat \ {0} /\ w[2] <= doc[w[1]].size
    BY <1>2, <2>3, <2>4 DEF Words, UnitsOf
  <2>6. doc[w[1]].size \in Nat
    <3>1. w[1] \in LinesOf(doc)
      BY <2>5, UnderLines
    <3> QED
      BY <1>3, <3>1, DocumentFacts
  <2>7. w[2] \in 1 .. doc[w[1]].size
    BY <2>5, <2>6
  <2>8. N(<<w>>) > HardLimit
    <3>1. ~(N(<<w>>) <= HardLimit) /\ N(<<w>>) \in Int
      BY <1>4, <1>6, <2>1, <2>3
    <3> QED
      BY <1>5, <3>1
  <2>9. N(<<<<w[1], w[2]>>>>) > HardLimit
    BY <2>5, <2>8
  <2> QED
    BY <2>5, <2>7, <2>9 DEF TooLong, N
<1> QED
  BY <1>7, <1>8

LEMMA RoomInit ==
    ASSUME Init
    PROVE  RInv
<1>1. phase = "read"
  BY DEF Init
<1> QED
  BY <1>1, TextInit DEF RInv, PartsFit, InSection

\* A part more, or fewer.
LEMMA PartsChange ==
    ASSUME NEW S, NEW s \in Seq(S)
    PROVE  /\ \A x \in S : Append(s, x) \in Seq(S)
           /\ s # <<>> => Head(s) \in S /\ Tail(s) \in Seq(S)
OBVIOUS

LEMMA RoomNext ==
    ASSUME RInv, Next, CountsTokens
    PROVE  PartsFit'
<1> DEFINE F == FittingIn(doc, Here)
           X == ShrinksIn(doc, Here, Whole)
<1>1. PInv /\ TInv /\ (InSection => X \/ parts \in Seq(F))
  BY DEF RInv, TInv, PartsFit
<1>2. \A t \in UnderText : Fits(t) => t \in F
  BY DEF FittingIn, UnderText, Fits, Tokens, TokensIn
<1>3. ASSUME UNCHANGED <<doc, sections>>, X \/ parts' \in Seq(F), phase' # "refused" PROVE PartsFit'
  <2>1. FittingIn(doc', Here') = F /\ ShrinksIn(doc', Here', Whole') = X
    BY <1>3 DEF Here, Whole
  <2> HIDE DEF F, X
  <2> QED
    BY <1>3, <2>1 DEF PartsFit
<1>4. CASE \/ ReadLine \/ Flush \/ ReadHeading \/ EndRead \/ BuildLine \/ EndBuild
           \/ EndSection \/ Link
  <2>1. phase' \in {"read", "build", "section", "done"}
    BY <1>4 DEF ReadLine, Flush, ReadHeading, EndRead, BuildLine, EndBuild, EndSection, Link
  <2> QED
    BY <2>1 DEF PartsFit, InSection
<1> HIDE DEF F, X
<1>5. CASE StartSection
  <2>1. phase = "section" /\ phase' = "split" /\ UNCHANGED <<doc, sections, parts>>
    BY <1>5 DEF StartSection, packing
  <2>2. parts' = <<>> /\ <<>> \in Seq(F)
    BY <1>1, <2>1 DEF PInv, Idle
  <2> QED
    BY <1>3, <2>1, <2>2
<1>6. CASE GroupPiece \/ EndGroup \/ EndCut \/ EndSplit
  <2>1. InSection /\ phase' # "refused" /\ UNCHANGED <<doc, sections, parts>>
    BY <1>6 DEF GroupPiece, EndGroup, EndCut, EndSplit, packing, InSection
  <2> QED
    BY <1>1, <1>3, <2>1
<1>7. CASE SplitBlock
  <2> DEFINE t == Text(Head(blocks).lines)
  <2>1. /\ phase = "split" /\ phase' # "refused" /\ UNCHANGED <<doc, sections>> /\ blocks # <<>>
        /\ (Fits(t) /\ parts' = Append(parts, t)) \/ parts' = parts
    BY <1>7 DEF SplitBlock
  <2>2. InSection /\ ~Parses
    BY <2>1 DEF InSection, Parses
  <2>3. t \in UnderText
    <3>1. t = TextIn(doc, Head(blocks).lines)
      BY DEF Text, Units, TextIn, EachIn, UnitsIn
    <3> QED
      BY <1>1, <2>1, <2>2, <3>1, Texts2
  <2> HIDE DEF t
  <2>4. X \/ parts' \in Seq(F)
    BY <1>1, <1>2, <2>1, <2>2, <2>3, PartsChange
  <2> QED
    BY <1>3, <2>1, <2>4
<1>8. CASE KeepItem
  <2>1. /\ phase = "cut" /\ phase' = "cut" /\ UNCHANGED <<doc, sections>> /\ items # <<>>
        /\ Fits(Head(items)) /\ parts' = Append(parts, Head(items))
    BY <1>8 DEF KeepItem
  <2>2. InSection
    BY <2>1 DEF InSection
  <2>3. Head(items) \in UnderText
    BY <1>1, <2>1, Texts0, Texts1, Zenon DEF Joins
  <2>4. X \/ parts' \in Seq(F)
    BY <1>1, <1>2, <2>1, <2>2, <2>3, PartsChange
  <2> QED
    BY <1>3, <2>1, <2>4
<1>9. CASE CutItem
  <2>1. phase = "cut" /\ phase' = "cut" /\ UNCHANGED <<doc, sections>> /\ items # <<>>
    BY <1>9 DEF CutItem
  <2>2. PICK e \in SafePrefixes(Head(items)) :
            \E n \in 1 .. e : parts' = Append(parts, SubSeq(Head(items), 1, n))
    BY <1>9 DEF CutItem
  <2>3. PICK n \in 1 .. e : parts' = Append(parts, SubSeq(Head(items), 1, n))
    BY <2>2
  <2>4. InSection
    BY <2>1 DEF InSection
  <2>5. X \/ SubSeq(Head(items), 1, n) \in F
    BY <1>1, <2>1, CutFits DEF F, X
  <2>6. X \/ parts' \in Seq(F)
    BY <1>1, <2>3, <2>4, <2>5, PartsChange
  <2> QED
    BY <1>3, <2>1, <2>6
<1>10. CASE Pack
  <2>1. /\ phase = "pack" /\ phase' = "pack" /\ UNCHANGED <<doc, sections>> /\ parts # <<>>
        /\ parts' = Tail(parts)
    BY <1>10 DEF Pack
  <2>2. InSection
    BY <2>1 DEF InSection
  <2>3. X \/ parts' \in Seq(F)
    BY <1>1, <2>1, <2>2, PartsChange
  <2> QED
    BY <1>3, <2>1, <2>3
<1>11. CASE Refuse
  <2>1. phase' = "refused" /\ UNCHANGED <<doc, sections>> /\ phase \in {"cut", "pack"}
    BY <1>11 DEF Refuse
  <2>2. InSection
    BY <2>1 DEF InSection
  <2>3. sections # <<>>
    BY <1>1, <2>2 DEF PInv, Idle
  <2>4. TokensIn(doc, Here, <<>>) >= HardLimit \/ TooLong(doc, Here) \/ X
    <3>1. CASE phase = "cut"
      <4>1. /\ items # <<>> /\ ~Fits(Head(items))
            /\ Tokens(Here, <<>>) >= HardLimit \/ 0 \in SafePrefixes(Head(items))
        BY <1>11, <3>1 DEF Refuse, NoRoom
      <4>2. CASE Tokens(Here, <<>>) >= HardLimit
        BY <4>2 DEF Tokens, TokensIn
      <4>3. CASE 0 \in SafePrefixes(Head(items))
        BY <1>1, <3>1, <4>1, <4>3, NonePrefix
      <4> QED
        BY <4>1, <4>2, <4>3
    <3>2. CASE phase = "pack"
      <4>1. parts # <<>> /\ ~Fits(Head(parts))
        BY <1>11, <3>2 DEF Refuse, TooLarge
      <4>2. ~X => Head(parts) \in F
        BY <1>1, <2>2, <4>1, PartsChange
      <4>3. X
        BY <4>1, <4>2 DEF F, FittingIn, Fits, Tokens, TokensIn
      <4> QED
        BY <4>3
    <3> QED
      BY <2>1, <3>1, <3>2
  <2>5. /\ TokensIn(doc', Here', <<>>) = TokensIn(doc, Here, <<>>) /\ TooLong(doc', Here') = TooLong(doc, Here)
        /\ ShrinksIn(doc', Here', Whole') = X
    BY <2>1 DEF Here, Whole, X
  <2> QED
    BY <2>1, <2>3, <2>4, <2>5 DEF PartsFit, InSection
<1> QED
  BY <1>4, <1>5, <1>6, <1>7, <1>8, <1>9, <1>10, <1>11 DEF Next

\* Whatever the tokenizer, a document is refused only for a line that cannot be
\* split: its headings fill the chunk, or leave no room for one of its units,
\* or the beginning of a text has too many tokens where the text has not.
THEOREM RefusalsForRoom ==
    ASSUME CountsTokens
    PROVE  Spec => []RefusedForRoom
<1>1. ASSUME RInv PROVE RefusedForRoom
  <2> SUFFICES ASSUME phase = "refused" PROVE RefusedForRoom
    BY DEF RefusedForRoom
  <2>1. /\ PInv /\ sections # <<>>
        /\ TokensIn(doc, Here, <<>>) >= HardLimit \/ TooLong(doc, Here) \/ ShrinksIn(doc, Here, Whole)
    BY <1>1 DEF RInv, TInv, PartsFit
  <2>2. /\ doc \in Documents /\ sections[1].blocks \in Seq(BlocksOf(doc, Under(doc, Here)))
        /\ sections[1].blocks # <<>>
    BY <2>1, Texts0, Texts3
  <2>3. sections[1].blocks[1] \in BlocksOf(doc, Under(doc, Here))
    <3> DEFINE B == BlocksOf(doc, Under(doc, Here))
    <3> HIDE DEF B
    <3>1. PICK bs : bs = sections[1].blocks
      OBVIOUS
    <3>2. bs \in Seq(B) /\ bs # <<>>
      BY <2>2, <3>1 DEF B
    <3>3. bs[1] \in B
      BY <3>2
    <3> QED
      BY <3>1, <3>3 DEF B
  <2>4. PICK l : l = sections[1].blocks[1].lines[1]
    OBVIOUS
  <2>5. l \in Under(doc, Here)
    BY <2>2, <2>3, <2>4, UnderLines, BlockFacts
  <2>6. \A h : h \in Under(doc, Here) => h \in LineOf /\ Contents(h) /\ Enclosing(h) = Here
    <3> SUFFICES ASSUME NEW h, h \in Under(doc, Here)
                 PROVE  h \in LineOf /\ Contents(h) /\ Enclosing(h) = Here
      OBVIOUS
    <3>1. h \in LinesOf(doc) /\ ContentsIn(doc, h) /\ EnclosingIn(doc, h) = Here
      BY DEF Under, ContentsOf
    <3> QED
      BY <2>2, <3>1, LineFacts
  <2>7. CASE TokensIn(doc, Here, <<>>) >= HardLimit
    <3>1. l \in LineOf /\ Contents(l) /\ Tokens(Enclosing(l), <<>>) >= HardLimit
      BY <2>5, <2>6, <2>7 DEF Tokens, TokensIn
    <3> QED
      BY <3>1 DEF RefusedForRoom
  <2>8. CASE TooLong(doc, Here)
    <3>1. PICK h \in Under(doc, Here) : \E u \in 1 .. doc[h].size : TokensIn(doc, Here, <<<<h, u>>>>) > HardLimit
      BY <2>8 DEF TooLong
    <3>2. PICK u \in 1 .. doc[h].size : TokensIn(doc, Here, <<<<h, u>>>>) > HardLimit
      BY <3>1
    <3>3. h \in LineOf /\ Contents(h) /\ Tokens(Enclosing(h), <<<<h, u>>>>) > HardLimit
      BY <2>6, <3>1, <3>2 DEF Tokens, TokensIn
    <3> QED
      BY <3>2, <3>3 DEF RefusedForRoom
  <2>9. CASE ShrinksIn(doc, Here, Whole)
    <3>1. Text(Among(Len(doc), {h \in LineOf : Contents(h)})) = Whole
      <4>1. {h \in LineOf : Contents(h)} = ContentsOf(doc)
        BY <2>2, LineFacts DEF ContentsOf
      <4>2. \A ls : Text(ls) = TextIn(doc, ls)
        BY DEF Text, Units, TextIn, EachIn, UnitsIn
      <4> QED
        BY <4>1, <4>2 DEF Whole, Covered
    <3>2. PICK w : w = Whole
      OBVIOUS
    <3>3. PICK i \in DOMAIN w, n \in DOMAIN w, m \in DOMAIN w :
              /\ i <= n /\ n < m
              /\ \A k \in i .. m : EnclosingIn(doc, w[k][1]) = Here
              /\ TokensIn(doc, Here, SubSeq(w, i, n)) > HardLimit
              /\ TokensIn(doc, Here, SubSeq(w, i, m)) <= HardLimit
      BY <2>9, <3>2 DEF ShrinksIn
    <3>4. \A k \in i .. m : Enclosing(w[k][1]) = Here
      <4> TAKE k \in i .. m
      <4>1. PICK V : V = Words(LinesOf(doc))
        OBVIOUS
      <4>2. w \in Seq(V)
        <5>1. Len(doc) \in 0 .. Len(doc)
          BY <2>2, DocumentFacts
        <5> QED
          BY <2>2, <3>2, <4>1, <5>1, CoveredFacts DEF Whole
      <4>3. k \in DOMAIN w
        BY <4>2
      <4>4. w[k] \in V
        BY <4>2, <4>3
      <4>5. w[k][1] \in LinesOf(doc)
        BY <4>1, <4>4 DEF Words
      <4> QED
        BY <2>2, <3>3, <4>5, LineFacts
    <3>5. Shrinks(Here)
      BY <3>1, <3>2, <3>3, <3>4 DEF Shrinks, Tokens, TokensIn
    <3>6. l \in LineOf /\ Contents(l) /\ Shrinks(Enclosing(l))
      BY <2>5, <2>6, <3>5
    <3> QED
      BY <3>6 DEF RefusedForRoom
  <2> QED
    BY <2>1, <2>7, <2>8, <2>9
<1>2. ASSUME RInv, [Next]_vars PROVE RInv'
  <2>1. TInv'
    BY <1>2, NextText DEF RInv
  <2>2. CASE Next
    BY <1>2, <2>1, <2>2, RoomNext DEF RInv
  <2>3. CASE UNCHANGED vars
    <3>1. UNCHANGED <<doc, phase, sections, parts>>
      BY <2>3 DEF vars, packing
    <3>2. PartsFit'
      BY <1>2, <3>1 DEF RInv, PartsFit, InSection, Here, Whole
    <3> QED
      BY <2>1, <3>2 DEF RInv
  <2> QED
    BY <1>2, <2>2, <2>3
<1> QED
  BY <1>1, <1>2, RoomInit, PTL DEF Spec
=============================================================================
