--------------------------- MODULE Chunker_proofs ---------------------------
(***************************************************************************)
(* Proofs about Chunker, for all documents and limits: the orders and      *)
(* links of the chunks, and how they are filled.                           *)
(***************************************************************************)
EXTENDS Chunker, WellFoundedInduction, TLAPS

-----------------------------------------------------------------------------
(* Sets of numbers.                                                        *)

LEMMA Least == ASSUME NEW T \in SUBSET Nat, T # {}
               PROVE  \E x \in T : \A y \in T : x <= y
<1> DEFINE R == OpToRel(<, Nat)
<1>1. PICK x \in T : \A y \in T : ~(<<y, x>> \in R)
  <2>1. IsWellFoundedOn(R, Nat)
    BY NatLessThanWellFounded
  <2> HIDE DEF R
  <2> QED
    BY <2>1, WFMin
<1>2. \A y \in T : ~(y < x)
  BY <1>1 DEF OpToRel
<1> QED
  BY <1>2

LEMMA Greatest == ASSUME NEW n \in Nat, NEW T \in SUBSET (0 .. n), T # {}
                  PROVE  Max(T) \in T /\ \A y \in T : Max(T) >= y
<1> DEFINE U == {n - t : t \in T}
<1>0. \A t \in T : t \in 0 .. n /\ n - t \in Nat
  <2>1. \A t \in T : t \in 0 .. n
    OBVIOUS
  <2>2. \A t \in 0 .. n : n - t \in Nat
    OBVIOUS
  <2> QED
    BY <2>1, <2>2
<1>1. U \in SUBSET Nat /\ U # {}
  BY <1>0
<1>2. PICK u \in U : \A y \in U : u <= y
  BY <1>1, Least
<1>3. PICK x \in T : u = n - x
  OBVIOUS
<1>4. ASSUME NEW y \in T
      PROVE  x >= y
  <2>1. n - y \in U
    OBVIOUS
  <2>2. n - x <= n - y /\ x \in 0 .. n /\ y \in 0 .. n
    BY <1>0, <1>2, <1>3, <2>1
  <2> QED
    BY <2>2
<1> QED
  BY <1>4 DEF Max

-----------------------------------------------------------------------------
(* Sequences of whatever elements.                                         *)

IsSeq(s) == \E U : s \in Seq(U)

LEMMA EmptyIsSeq == IsSeq(<<>>) /\ Len(<<>>) = 0
<1>1. <<>> \in Seq({}) /\ Len(<<>>) = 0
  OBVIOUS
<1> QED
  BY <1>1 DEF IsSeq

LEMMA NotEmpty == ASSUME NEW s, IsSeq(s)
                  PROVE  Len(s) \in Nat /\ (s # <<>> <=> Len(s) # 0)
  BY DEF IsSeq

LEMMA Appended ==
    ASSUME NEW s, IsSeq(s), NEW x
    PROVE  LET t == Append(s, x)
           IN  /\ IsSeq(t) /\ Len(s) \in Nat /\ Len(t) = Len(s) + 1
               /\ \A k \in 1 .. Len(s) : t[k] = s[k]
               /\ t[Len(s) + 1] = x
<1>1. PICK U : s \in Seq(U)
  BY DEF IsSeq
<1> DEFINE V == U \cup {x}
<1>2. s \in Seq(V)
  <2>1. Len(s) \in Nat /\ s = [k \in 1 .. Len(s) |-> s[k]] /\ \A k \in 1 .. Len(s) : s[k] \in U
    BY <1>1
  <2>2. s \in [1 .. Len(s) -> V]
    BY <2>1
  <2> QED
    BY <2>1, <2>2
<1>3. x \in V
  OBVIOUS
<1> HIDE DEF V
<1>4. /\ Append(s, x) \in Seq(V) /\ Len(s) \in Nat /\ Len(Append(s, x)) = Len(s) + 1
      /\ \A k \in 1 .. Len(s) : Append(s, x)[k] = s[k]
      /\ Append(s, x)[Len(s) + 1] = x
  BY <1>2, <1>3
<1> QED
  BY <1>4 DEF IsSeq

LEMMA Rest ==
    ASSUME NEW s, IsSeq(s), s # <<>>
    PROVE  /\ IsSeq(Tail(s)) /\ Len(s) \in Nat /\ Len(Tail(s)) = Len(s) - 1
           /\ \A k \in 1 .. Len(s) - 1 : Tail(s)[k] = s[k + 1]
<1>1. PICK U : s \in Seq(U)
  BY DEF IsSeq
<1>2. /\ Tail(s) \in Seq(U) /\ Len(s) \in Nat /\ Len(Tail(s)) = Len(s) - 1
      /\ \A k \in 1 .. Len(s) - 1 : Tail(s)[k] = s[k + 1]
  BY <1>1
<1> QED
  BY <1>2 DEF IsSeq

LEMMA Both ==
    ASSUME NEW s, IsSeq(s), NEW t, IsSeq(t)
    PROVE  /\ IsSeq(s \o t) /\ Len(s) \in Nat /\ Len(t) \in Nat
           /\ Len(s \o t) = Len(s) + Len(t)
           /\ \A k \in 1 .. Len(s) + Len(t) :
                 (s \o t)[k] = IF k <= Len(s) THEN s[k] ELSE t[k - Len(s)]
<1>1. PICK U : s \in Seq(U)
  BY DEF IsSeq
<1>2. PICK V : t \in Seq(V)
  BY DEF IsSeq
<1> DEFINE W == U \cup V
<1>3. ASSUME NEW X, NEW f \in Seq(X), X \subseteq W
      PROVE  f \in Seq(W)
  <2>1. Len(f) \in Nat /\ f = [k \in 1 .. Len(f) |-> f[k]] /\ \A k \in 1 .. Len(f) : f[k] \in X
    OBVIOUS
  <2>2. f \in [1 .. Len(f) -> W]
    BY <1>3, <2>1
  <2> QED
    BY <2>1, <2>2
<1>4. s \in Seq(W) /\ t \in Seq(W)
  BY <1>1, <1>2, <1>3
<1> HIDE DEF W
<1>5. /\ s \o t \in Seq(W) /\ Len(s) \in Nat /\ Len(t) \in Nat
      /\ Len(s \o t) = Len(s) + Len(t)
      /\ \A k \in 1 .. Len(s) + Len(t) :
            (s \o t)[k] = IF k <= Len(s) THEN s[k] ELSE t[k - Len(s)]
  BY <1>4
<1> QED
  BY <1>5 DEF IsSeq

LEMMA Same ==
    ASSUME NEW s, IsSeq(s), NEW t, IsSeq(t), Len(s) = Len(t),
           \A k \in 1 .. Len(s) : s[k] = t[k]
    PROVE  s = t
<1>1. /\ Len(s) \in Nat /\ s = [k \in 1 .. Len(s) |-> s[k]]
      /\ t = [k \in 1 .. Len(t) |-> t[k]]
  BY DEF IsSeq
<1> QED
  BY <1>1

LEMMA Single == ASSUME NEW x PROVE IsSeq(<<x>>) /\ Len(<<x>>) = 1 /\ <<x>>[1] = x
<1>1. <<x>> \in Seq({x}) /\ Len(<<x>>) = 1 /\ <<x>>[1] = x
  OBVIOUS
<1> QED
  BY <1>1 DEF IsSeq

LEMMA JoinedOne ==
    ASSUME NEW s, IsSeq(s), NEW o, IsSeq(o), Len(o) = 1
    PROVE  s \o o = Append(s, o[1])
<1> DEFINE a == Append(s, o[1])
<1>1. /\ IsSeq(a) /\ Len(s) \in Nat /\ Len(a) = Len(s) + 1
      /\ \A k \in 1 .. Len(s) : a[k] = s[k]
      /\ a[Len(s) + 1] = o[1]
  BY Appended
<1> HIDE DEF a
<1>2. /\ IsSeq(s \o o) /\ Len(s \o o) = Len(s) + 1
      /\ \A k \in 1 .. Len(s) + 1 :
            (s \o o)[k] = IF k <= Len(s) THEN s[k] ELSE o[k - Len(s)]
  BY Both
<1>3. ASSUME NEW k \in 1 .. Len(s) + 1
      PROVE  (s \o o)[k] = a[k]
  <2>1. CASE k \in 1 .. Len(s)
    BY <1>1, <1>2, <2>1
  <2>2. CASE k = Len(s) + 1
    <3>1. ~(k <= Len(s)) /\ k - Len(s) = 1
      BY <1>1, <2>2
    <3> QED
      BY <1>1, <1>2, <2>2, <3>1
  <2>3. Len(s) \in Nat
    BY <1>1
  <2>4. k \in 1 .. Len(s) \/ k = Len(s) + 1
    BY <2>3
  <2> QED
    BY <2>1, <2>2, <2>4
<1>4. s \o o = a
  BY <1>1, <1>2, <1>3, Same
<1> QED
  BY <1>4 DEF a

LEMMA AppendedIsJoined ==
    ASSUME NEW s, IsSeq(s), NEW t, IsSeq(t), NEW x
    PROVE  /\ s \o <<>> = s /\ <<>> \o s = s
           /\ s \o <<x>> = Append(s, x)
           /\ s \o Append(t, x) = Append(s \o t, x)
<1>1. /\ IsSeq(s \o t) /\ Len(s) \in Nat /\ Len(t) \in Nat
      /\ Len(s \o t) = Len(s) + Len(t)
      /\ \A k \in 1 .. Len(s) + Len(t) :
            (s \o t)[k] = IF k <= Len(s) THEN s[k] ELSE t[k - Len(s)]
  BY Both
<1>2. s \o <<>> = s /\ <<>> \o s = s
  BY DEF IsSeq
<1>3. s \o <<x>> = Append(s, x)
  <2>1. \A o : IsSeq(o) /\ Len(o) = 1 => s \o o = Append(s, o[1])
    BY JoinedOne
  <2>2. IsSeq(<<x>>) /\ Len(<<x>>) = 1 /\ <<x>>[1] = x
    BY Single
  <2>3. s \o <<x>> = Append(s, <<x>>[1])
    BY <2>1, <2>2, Zenon
  <2> QED
    BY <2>2, <2>3
<1>4. s \o Append(t, x) = Append(s \o t, x)
  <2> DEFINE a == Append(t, x)
             b == s \o t
  <2>1. /\ IsSeq(a) /\ Len(a) = Len(t) + 1
        /\ \A k \in 1 .. Len(t) : a[k] = t[k]
        /\ a[Len(t) + 1] = x
    BY Appended
  <2>2. /\ IsSeq(Append(b, x)) /\ Len(Append(b, x)) = Len(b) + 1
        /\ \A k \in 1 .. Len(b) : Append(b, x)[k] = b[k]
        /\ Append(b, x)[Len(b) + 1] = x
    BY <1>1, Appended
  <2> HIDE DEF a
  <2>3. /\ IsSeq(s \o a) /\ Len(s \o a) = Len(s) + Len(a)
        /\ \A k \in 1 .. Len(s) + Len(a) :
              (s \o a)[k] = IF k <= Len(s) THEN s[k] ELSE a[k - Len(s)]
    BY <2>1, Both
  <2>4. Len(s \o a) = Len(b) + 1 /\ Len(b) = Len(s) + Len(t)
    BY <1>1, <2>1, <2>3
  <2>5. \A k \in 1 .. Len(b) + 1 : (s \o a)[k] = Append(b, x)[k]
    <3> SUFFICES ASSUME NEW k \in 1 .. Len(b) + 1 PROVE (s \o a)[k] = Append(b, x)[k]
      OBVIOUS
    <3>1. k \in 1 .. Len(s) + Len(a)
      BY <1>1, <2>1, <2>4
    <3>2. CASE k <= Len(s)
      <4>1. k \in 1 .. Len(b) /\ k \in 1 .. Len(s) + Len(t)
        BY <1>1, <2>4, <3>2
      <4> QED
        BY <1>1, <2>2, <2>3, <3>1, <3>2, <4>1
    <3>3. CASE ~(k <= Len(s)) /\ k <= Len(b)
      <4>1. /\ k \in 1 .. Len(b) /\ k \in 1 .. Len(s) + Len(t)
            /\ k - Len(s) \in 1 .. Len(t)
        BY <1>1, <2>4, <3>3
      <4>2. (s \o a)[k] = a[k - Len(s)] /\ Append(b, x)[k] = b[k]
        BY <2>2, <2>3, <3>1, <3>3, <4>1
      <4>3. b[k] = t[k - Len(s)]
        BY <1>1, <3>3, <4>1
      <4> QED
        BY <2>1, <4>1, <4>2, <4>3
    <3>4. CASE k = Len(b) + 1
      <4>1. ~(k <= Len(s)) /\ k - Len(s) = Len(t) + 1
        BY <1>1, <2>4, <3>4
      <4> QED
        BY <2>1, <2>2, <2>3, <3>1, <3>4, <4>1
    <3> QED
      BY <1>1, <2>4, <3>2, <3>3, <3>4
  <2> HIDE DEF b
  <2>6. s \o a = Append(b, x)
    BY <2>2, <2>3, <2>4, <2>5, Same
  <2> QED
    BY <2>6 DEF a, b
<1> QED
  BY <1>2, <1>3, <1>4

-----------------------------------------------------------------------------
(* The invariant.                                                          *)

\* The last heading of a path tells sections apart.
Deepest(p) == IF p = <<>> THEN 0 ELSE p[Len(p)]

\* The chunks made so far.
Made == chunks \o fresh

Numbered(m) == \A i \in 1 .. Len(m) : m[i].order = i - 1

\* Tokens, for document d.
TokensIn(d, headings, text) == Count([k \in DOMAIN headings |-> d[headings[k]]], text)

\* A chunk begins with part where the one before it had to end.
EndsBefore(d, c, part) ==
    \/ TokensIn(d, c.path, Join(c.parts)) >= SoftLimit
    \/ TokensIn(d, c.path, Join(Append(c.parts, part))) > HardLimit

Filled(d, m) ==
    /\ \A i \in 1 .. Len(m) : TokensIn(d, m[i].path, Join(m[i].parts)) <= HardLimit
    /\ \A i \in 1 .. Len(m) - 1 :
          m[i + 1].path = m[i].path => EndsBefore(d, m[i], m[i + 1].parts[1])

\* Chunks of one section follow each other.
Grouped(m) ==
    /\ \A i \in 1 .. Len(m) : Deepest(m[i].path) \in Nat
    /\ \A i, j \in 1 .. Len(m) :
          i < j => m[i].path = m[j].path \/ Deepest(m[i].path) < Deepest(m[j].path)

IsChunk(c) == c = [path |-> c.path, parts |-> c.parts, order |-> c.order,
                   previous |-> c.previous, next |-> c.next]

MadeSound(d, m) == /\ IsSeq(m) /\ \A i \in 1 .. Len(m) : IsChunk(m[i])
                   /\ Numbered(m) /\ Filled(d, m) /\ Grouped(m)

Shape == /\ doc \in Documents
         /\ line \in Nat /\ path \in Seq(Nat)
         /\ Deepest(path) \in Nat /\ Deepest(path) < line
         /\ IsSeq(sections) /\ IsSeq(chunks) /\ IsSeq(fresh) /\ IsSeq(packed)

\* Later sections are under later headings.
SectionsRise ==
    /\ \A k \in 1 .. Len(sections) : Deepest(sections[k].path) \in Nat
    /\ \A k, l \in 1 .. Len(sections) :
          k < l => Deepest(sections[k].path) < Deepest(sections[l].path)

\* While sections are parsed, the one under the present headings is kept only
\* when the next heading or the end has been reached.
Parsing ==
    phase \in {"read", "build"} =>
        /\ chunks = <<>> /\ fresh = <<>> /\ packed = <<>>
        /\ \A k \in 1 .. Len(sections) :
              \/ Deepest(sections[k].path) < Deepest(path)
              \/ /\ Deepest(sections[k].path) = Deepest(path)
                 /\ phase = "read" /\ buffer = <<>> /\ (AtHeading \/ AtEnd)
        /\ phase = "build" => AtHeading \/ AtEnd

InSection == phase \in {"split", "group", "cut", "pack"}

\* While sections are chunked, the chunks made are of earlier ones, or of the
\* first of those left once its parts are packed.
Chunking ==
    /\ phase \in Phases
    /\ InSection => sections # <<>>
    /\ phase \notin {"pack", "refused"} => packed = <<>> /\ fresh = <<>>
    /\ InSection \/ phase = "section" =>
          \A i \in 1 .. Len(Made), k \in 1 .. Len(sections) :
              \/ Deepest(Made[i].path) < Deepest(sections[k].path)
              \/ phase = "pack" /\ k = 1 /\ Made[i].path = Here

\* What is packed fits, and begins where the last chunk had to end.
Packing ==
    phase = "pack" =>
        /\ packed # <<>> => Fits(Join(packed))
        /\ (Made # <<>> /\ Made[Len(Made)].path = Here) =>
              \/ TokensIn(doc, Here, Join(Made[Len(Made)].parts)) >= SoftLimit
              \/ packed # <<>> /\ EndsBefore(doc, Made[Len(Made)], packed[1])

IInv == Shape /\ SectionsRise /\ Parsing /\ Chunking /\ Packing
              /\ (phase = "done" => fresh = <<>>) /\ MadeSound(doc, Made) /\ LinksRight

-----------------------------------------------------------------------------
(* The list of chunks.                                                     *)

\* Token counts are integers.
CountsTokens == \A headings, text : Count(headings, text) \in Int

\* A chunk is added behind those made.
LEMMA AddChunk ==
    ASSUME NEW d, NEW m, MadeSound(d, m), NEW c, IsChunk(c), c.order = Len(m),
           Deepest(c.path) \in Nat,
           TokensIn(d, c.path, Join(c.parts)) <= HardLimit,
           \A i \in 1 .. Len(m) : \/ m[i].path = c.path
                                  \/ Deepest(m[i].path) < Deepest(c.path),
           (m # <<>> /\ m[Len(m)].path = c.path) => EndsBefore(d, m[Len(m)], c.parts[1])
    PROVE  MadeSound(d, Append(m, c))
<1> DEFINE n == Append(m, c)
           l == Len(m)
<1>1. /\ IsSeq(m) /\ Numbered(m) /\ Filled(d, m) /\ Grouped(m)
      /\ \A i \in 1 .. l : IsChunk(m[i])
  BY DEF MadeSound
<1>2. /\ IsSeq(n) /\ l \in Nat /\ Len(n) = l + 1
      /\ \A i \in 1 .. l : n[i] = m[i]
      /\ n[l + 1] = c
  BY <1>1, Appended
<1> HIDE DEF n
<1>3. \A i \in 1 .. Len(n) : i \in 1 .. l \/ i = l + 1
  BY <1>2
<1>4. \A i \in 1 .. Len(n) : IsChunk(n[i])
  BY <1>1, <1>2, <1>3
<1>5. Numbered(n)
  BY <1>1, <1>2, <1>3 DEF Numbered
<1>6. Filled(d, n)
  <2>1. \A i \in 1 .. Len(n) : TokensIn(d, n[i].path, Join(n[i].parts)) <= HardLimit
    BY <1>1, <1>2, <1>3 DEF Filled
  <2>2. ASSUME NEW i \in 1 .. Len(n) - 1, n[i + 1].path = n[i].path
        PROVE  EndsBefore(d, n[i], n[i + 1].parts[1])
    <3>1. CASE i \in 1 .. l - 1
      <4>1. i \in 1 .. l /\ i + 1 \in 1 .. l
        BY <1>2, <3>1
      <4>2. n[i] = m[i] /\ n[i + 1] = m[i + 1]
        BY <1>2, <4>1
      <4> QED
        BY <1>1, <2>2, <3>1, <4>2 DEF Filled
    <3>2. CASE i = l
      <4>1. i \in 1 .. l /\ l # 0
        BY <1>2, <3>2
      <4>2. n[i] = m[l] /\ n[i + 1] = c /\ m # <<>>
        BY <1>1, <1>2, <3>2, <4>1, NotEmpty
      <4> QED
        BY <2>2, <4>2
    <3> QED
      BY <1>2, <3>1, <3>2
  <2> QED
    BY <2>1, <2>2 DEF Filled
<1>7. Grouped(n)
  <2>1. \A i \in 1 .. Len(n) : Deepest(n[i].path) \in Nat
    BY <1>1, <1>2, <1>3 DEF Grouped
  <2>2. ASSUME NEW i \in 1 .. Len(n), NEW j \in 1 .. Len(n), i < j
        PROVE  n[i].path = n[j].path \/ Deepest(n[i].path) < Deepest(n[j].path)
    <3>1. i \in 1 .. l
      BY <1>2, <2>2
    <3>2. CASE j \in 1 .. l
      BY <1>1, <1>2, <2>2, <3>1, <3>2 DEF Grouped
    <3>3. CASE j = l + 1
      BY <1>2, <3>1, <3>3
    <3> QED
      BY <1>3, <3>2, <3>3
  <2> QED
    BY <2>1, <2>2 DEF Grouped
<1> QED
  BY <1>2, <1>4, <1>5, <1>6, <1>7 DEF MadeSound, n

LEMMA NoneMade == \A d : MadeSound(d, <<>>)
<1>1. IsSeq(<<>>) /\ Len(<<>>) = 0 /\ 1 .. 0 = {} /\ 1 .. 0 - 1 = {}
  BY EmptyIsSeq
<1> QED
  BY <1>1 DEF MadeSound, Numbered, Filled, Grouped

-----------------------------------------------------------------------------
(* Parsing.                                                                *)

LEMMA InitInv == Init => IInv
<1> SUFFICES ASSUME Init PROVE IInv
  OBVIOUS
<1>1. IsSeq(<<>>) /\ Len(<<>>) = 0 /\ <<>> \o <<>> = <<>>
  BY EmptyIsSeq, AppendedIsJoined
<1>2. Made = <<>>
  BY <1>1 DEF Init, Made
<1>3. Shape
  <2>1. <<>> \in Seq(Nat)
    OBVIOUS
  <2> QED
    BY <1>1, <2>1 DEF Init, Shape, Deepest
<1>4. SectionsRise /\ Parsing
  BY <1>1 DEF Init, SectionsRise, Parsing
<1>5. Chunking /\ Packing
  BY <1>1, <1>2 DEF Init, Chunking, Packing, InSection, Phases
<1> QED
  BY <1>2, <1>3, <1>4, <1>5, NoneMade DEF IInv, Init, LinksRight

LEMMA ParseInv ==
    ASSUME IInv, phase \in {"read", "build"}, phase' \in {"read", "build", "section"},
           UNCHANGED <<doc, chunks, fresh, packed>>,
           line' \in Nat, path' \in Seq(Nat),
           Deepest(path') \in Nat, Deepest(path') < line',
           IsSeq(sections'), SectionsRise', Parsing'
    PROVE  IInv'
<1>1. chunks = <<>> /\ fresh = <<>> /\ packed = <<>>
  BY DEF IInv, Parsing
<1>2. IsSeq(<<>>) /\ Len(<<>>) = 0 /\ <<>> \o <<>> = <<>>
  BY EmptyIsSeq, AppendedIsJoined
<1>3. Made' = <<>>
  BY <1>1, <1>2 DEF Made
<1>4. Shape'
  BY DEF IInv, Shape
<1>5. Chunking' /\ Packing'
  BY <1>1, <1>2, <1>3 DEF Chunking, Packing, InSection, Phases
<1>6. LinksRight' /\ phase' # "done"
  BY DEF LinksRight
<1> QED
  BY <1>3, <1>4, <1>5, <1>6, NoneMade DEF IInv

LEMMA KeptIsPath == ASSUME path \in Seq(Nat), NEW level PROVE Kept(level) \in Seq(Nat)
<1> DEFINE T == {0} \cup {i \in DOMAIN path : doc[path[i]].level < level}
<1>1. Len(path) \in Nat /\ DOMAIN path = 1 .. Len(path)
  OBVIOUS
<1>2. T \in SUBSET (0 .. Len(path)) /\ T # {}
  BY <1>1
<1>3. Max(T) \in 0 .. Len(path)
  <2> HIDE DEF T
  <2> QED
    BY <1>1, <1>2, Greatest
<1> DEFINE n == Max(T)
<1>4. Kept(level) = SubSeq(path, 1, n)
  BY DEF Kept
<1> HIDE DEF n
<1>5. n \in 0 .. Len(path)
  BY <1>3 DEF n
<1> QED
  BY <1>4, <1>5

\* The lines are read and put together to blocks.
LEMMA ReadStep ==
    ASSUME IInv, ReadLine \/ Flush \/ ReadHeading \/ EndRead \/ BuildLine
    PROVE  IInv'
<1>1. /\ phase \in {"read", "build"} /\ phase' \in {"read", "build", "section"}
      /\ UNCHANGED <<doc, sections, chunks, fresh, packed>>
  BY DEF ReadLine, Flush, ReadHeading, EndRead, BuildLine, parsing, packing
<1>2. /\ line \in Nat /\ path \in Seq(Nat) /\ Deepest(path) \in Nat /\ Deepest(path) < line
      /\ IsSeq(sections) /\ SectionsRise
  BY DEF IInv, Shape
<1>3. SectionsRise'
  BY <1>1, <1>2 DEF SectionsRise
<1>4. \A k \in 1 .. Len(sections) : Deepest(sections[k].path) \in Nat
  BY <1>2 DEF SectionsRise
<1>5. CASE ReadLine
  <2>1. ~(AtHeading \/ AtEnd)
    <3>1. doc \in Documents
      BY DEF IInv, Shape
    <3> QED
      BY <1>5, <3>1, DocumentAssumption DEF ReadLine, AtEnd
  <2>2. UNCHANGED path /\ line' = line + 1 /\ phase = "read" /\ phase' = "read"
    BY <1>5 DEF ReadLine
  <2>3. Parsing'
    BY <1>1, <2>1, <2>2 DEF IInv, Parsing
  <2> QED
    BY <1>1, <1>2, <1>3, <2>2, <2>3, ParseInv
<1>6. CASE Flush
  <2>1. /\ UNCHANGED <<line, path, fence, buffer>> /\ phase = "read" /\ phase' = "build"
        /\ buffer # <<>> /\ (AtHeading \/ AtEnd)
    BY <1>6 DEF Flush, parsing
  <2>2. (AtHeading \/ AtEnd)'
    BY <1>1, <2>1 DEF AtHeading, AtEnd, Is
  <2>3. \A k \in 1 .. Len(sections) : Deepest(sections[k].path) < Deepest(path)
    BY <2>1 DEF IInv, Parsing
  <2>4. chunks = <<>> /\ fresh = <<>> /\ packed = <<>>
    BY <2>1 DEF IInv, Parsing
  <2>5. Parsing'
    BY <1>1, <2>1, <2>2, <2>3, <2>4 DEF Parsing
  <2> QED
    BY <1>1, <1>2, <1>3, <2>1, <2>5, ParseInv
<1>7. CASE ReadHeading
  <2>1. /\ path' = Append(Kept(doc[line].level), line) /\ line' = line + 1
        /\ phase = "read" /\ phase' = "read"
    BY <1>7 DEF ReadHeading
  <2> DEFINE K == Kept(doc[line].level)
  <2>2. K \in Seq(Nat)
    BY <1>2, KeptIsPath
  <2> HIDE DEF K
  <2>3. /\ Append(K, line) \in Seq(Nat) /\ Append(K, line) # <<>>
        /\ Append(K, line)[Len(Append(K, line))] = line
    BY <1>2, <2>2
  <2>4. path' \in Seq(Nat) /\ Deepest(path') = line
    BY <2>1, <2>3 DEF Deepest, K
  <2>5. Parsing'
    <3>1. \A k \in 1 .. Len(sections) : Deepest(sections[k].path) < line
      BY <1>2, <1>4, <2>1 DEF IInv, Parsing
    <3> QED
      BY <1>1, <2>1, <2>4, <3>1 DEF IInv, Parsing
  <2> QED
    BY <1>1, <1>2, <1>3, <2>1, <2>4, <2>5, ParseInv
<1>8. CASE EndRead
  <2>1. UNCHANGED <<line, path>> /\ phase' = "section"
    BY <1>8 DEF EndRead, parsing
  <2>2. Parsing'
    BY <2>1 DEF Parsing
  <2> QED
    BY <1>1, <1>2, <1>3, <2>1, <2>2, ParseInv
<1>9. CASE BuildLine
  <2>1. UNCHANGED <<line, path, fence>> /\ phase = "build" /\ phase' = "build"
    BY <1>9 DEF BuildLine, parsing
  <2>2. (AtHeading \/ AtEnd)' <=> AtHeading \/ AtEnd
    BY <1>1, <2>1 DEF AtHeading, AtEnd, Is
  <2>3. Parsing'
    BY <1>1, <2>1, <2>2 DEF IInv, Parsing
  <2> QED
    BY <1>1, <1>2, <1>3, <2>1, <2>3, ParseInv
<1> QED
  BY <1>5, <1>6, <1>7, <1>8, <1>9

\* A section is kept.
LEMMA KeepSection ==
    ASSUME IInv, EndBuild
    PROVE  IInv'
<1>1. /\ phase = "build" /\ phase' = "read" /\ buffer = <<>>
      /\ UNCHANGED <<doc, line, fence, path, buffer, chunks, fresh, packed>>
      /\ \/ sections' = sections
         \/ \E bs : sections' = Append(sections, [path |-> path, blocks |-> bs])
  BY DEF EndBuild, parsing, packing
<1>2. /\ line \in Nat /\ path \in Seq(Nat) /\ Deepest(path) \in Nat /\ Deepest(path) < line
      /\ IsSeq(sections) /\ SectionsRise
  BY DEF IInv, Shape
<1>3. /\ AtHeading \/ AtEnd
      /\ \A k \in 1 .. Len(sections) : Deepest(sections[k].path) < Deepest(path)
      /\ chunks = <<>> /\ fresh = <<>> /\ packed = <<>>
  BY <1>1 DEF IInv, Parsing
<1>4. (AtHeading \/ AtEnd)'
  BY <1>1, <1>3 DEF AtHeading, AtEnd, Is
<1>5. CASE sections' = sections
  <2>1. SectionsRise' /\ Parsing'
    BY <1>1, <1>2, <1>3, <1>5 DEF SectionsRise, Parsing
  <2> QED
    BY <1>1, <1>2, <1>5, <2>1, ParseInv
<1>6. ASSUME NEW bs, sections' = Append(sections, [path |-> path, blocks |-> bs])
      PROVE  IInv'
  <2> DEFINE s == [path |-> path, blocks |-> bs]
  <2>1. s.path = path
    OBVIOUS
  <2> HIDE DEF s
  <2>2. /\ IsSeq(sections') /\ Len(sections) \in Nat /\ Len(sections') = Len(sections) + 1
        /\ \A k \in 1 .. Len(sections) : sections'[k] = sections[k]
        /\ sections'[Len(sections) + 1] = s
    BY <1>2, <1>6, Appended DEF s
  <2>3. \A k \in 1 .. Len(sections') : k \in 1 .. Len(sections) \/ k = Len(sections) + 1
    BY <2>2
  <2>4. SectionsRise'
    <3>1. \A k \in 1 .. Len(sections') : Deepest(sections'[k].path) \in Nat
      BY <1>2, <2>1, <2>2, <2>3 DEF SectionsRise
    <3>2. ASSUME NEW k \in 1 .. Len(sections'), NEW l \in 1 .. Len(sections'), k < l
          PROVE  Deepest(sections'[k].path) < Deepest(sections'[l].path)
      <4>1. k \in 1 .. Len(sections)
        BY <2>2, <3>2
      <4>2. CASE l \in 1 .. Len(sections)
        BY <1>2, <2>2, <3>2, <4>1, <4>2 DEF SectionsRise
      <4>3. CASE l = Len(sections) + 1
        BY <1>3, <2>1, <2>2, <4>1, <4>3
      <4> QED
        BY <2>3, <4>2, <4>3
    <3> QED
      BY <3>1, <3>2 DEF SectionsRise
  <2>5. Parsing'
    <3>1. \A k \in 1 .. Len(sections') :
             \/ Deepest(sections'[k].path) < Deepest(path)
             \/ Deepest(sections'[k].path) = Deepest(path)
      BY <1>3, <2>1, <2>2, <2>3
    <3> QED
      BY <1>1, <1>3, <1>4, <3>1 DEF Parsing
  <2> QED
    BY <1>1, <1>2, <2>2, <2>4, <2>5, ParseInv
<1> QED
  BY <1>1, <1>5, <1>6

-----------------------------------------------------------------------------
(* The sections are chunked.                                               *)

LEMMA MadeFacts ==
    ASSUME IInv
    PROVE  IsSeq(Made) /\ Len(Made) \in Nat /\ Len(Made) = Len(chunks) + Len(fresh)
BY Both DEF IInv, Shape, Made

\* The steps that make no chunk.
LEMMA MoveInv ==
    ASSUME IInv, UNCHANGED <<doc, line, path, sections, chunks, fresh, packed>>,
           \/ phase = "section" /\ phase' = "split" /\ sections # <<>>
           \/ phase \in {"split", "group", "cut"} /\ phase' \in {"split", "group", "cut", "refused"}
           \/ phase = "split" /\ phase' = "pack"
           \/ phase = "pack" /\ phase' = "refused"
    PROVE  IInv'
<1>1. Made' = Made
  BY DEF Made
<1>2. Shape' /\ SectionsRise' /\ Parsing' /\ LinksRight' /\ phase' # "done"
  BY DEF IInv, Shape, SectionsRise, Parsing, LinksRight
<1>3. Chunking'
  BY <1>1 DEF IInv, Chunking, InSection, Phases
<1>4. Packing'
  <2> SUFFICES ASSUME phase = "split", Made # <<>>, Made[Len(Made)].path = Here
               PROVE  FALSE
    BY <1>1 DEF IInv, Packing, Chunking, Here, Fits
  <2>1. Len(Made) \in 1 .. Len(Made)
    BY MadeFacts, NotEmpty
  <2>2. 1 \in 1 .. Len(sections)
    BY NotEmpty DEF IInv, Shape, Chunking, InSection
  <2>3. Deepest(Made[Len(Made)].path) < Deepest(sections[1].path)
    BY <2>1, <2>2 DEF IInv, Chunking, InSection
  <2>4. Deepest(sections[1].path) \in Nat
    BY <2>2 DEF IInv, SectionsRise
  <2> QED
    BY <2>3, <2>4 DEF Here
<1>5. MadeSound(doc, Made)'
  BY <1>1 DEF IInv
<1> QED
  BY <1>2, <1>3, <1>4, <1>5 DEF IInv

\* The chunks of m are of the section with path p, or of earlier ones.
AllBefore(m, p) == \A i \in 1 .. Len(m) : m[i].path = p \/ Deepest(m[i].path) < Deepest(p)

\* The chunk that texts make when n are made.
ChunkOf(p, texts, n) ==
    [path |-> p, parts |-> texts, order |-> n, previous |-> NoLink, next |-> NoLink]

\* Another chunk of the section p is added.
LEMMA AddHere ==
    ASSUME NEW d, NEW m, MadeSound(d, m), NEW p, Deepest(p) \in Nat, AllBefore(m, p),
           NEW texts, TokensIn(d, p, Join(texts)) <= HardLimit,
           (m # <<>> /\ m[Len(m)].path = p) => EndsBefore(d, m[Len(m)], texts[1])
    PROVE  LET n == Append(m, ChunkOf(p, texts, Len(m)))
           IN  /\ MadeSound(d, n) /\ AllBefore(n, p) /\ n # <<>>
               /\ n[Len(n)] = ChunkOf(p, texts, Len(m)) /\ Len(n) = Len(m) + 1
<1> DEFINE c == ChunkOf(p, texts, Len(m))
           n == Append(m, c)
<1>1. c.path = p /\ c.parts = texts /\ c.order = Len(m) /\ IsChunk(c)
  BY DEF ChunkOf, IsChunk
<1>2. IsSeq(m)
  BY DEF MadeSound
<1> HIDE DEF c
<1>3. /\ IsSeq(n) /\ Len(m) \in Nat /\ Len(n) = Len(m) + 1
      /\ \A i \in 1 .. Len(m) : n[i] = m[i]
      /\ n[Len(m) + 1] = c
  BY <1>2, Appended
<1>4. MadeSound(d, n)
  BY <1>1, AddChunk DEF AllBefore
<1> HIDE DEF n
<1>5. AllBefore(n, p)
  <2>1. \A i \in 1 .. Len(n) : i \in 1 .. Len(m) \/ i = Len(m) + 1
    BY <1>3
  <2> QED
    BY <1>1, <1>3, <2>1 DEF AllBefore
<1>6. n # <<>>
  BY <1>3, NotEmpty
<1> QED
  BY <1>3, <1>4, <1>5, <1>6 DEF n, c

\* What holds of the section being packed.
LEMMA HereFacts ==
    ASSUME IInv, phase = "pack"
    PROVE  /\ Deepest(Here) \in Nat /\ AllBefore(Made, Here) /\ 1 \in 1 .. Len(sections)
           /\ \A k \in 2 .. Len(sections) :
                 Deepest(sections[k].path) \in Nat /\ Deepest(Here) < Deepest(sections[k].path)
<1>1. Len(sections) \in Nat /\ 1 \in 1 .. Len(sections)
  BY NotEmpty DEF IInv, Shape, Chunking, InSection
<1>2. Deepest(Here) \in Nat
  BY <1>1 DEF IInv, SectionsRise, Here
<1>3. AllBefore(Made, Here)
  BY <1>1 DEF IInv, Chunking, InSection, AllBefore, Here
<1>4. ASSUME NEW k \in 2 .. Len(sections)
      PROVE  Deepest(sections[k].path) \in Nat /\ Deepest(Here) < Deepest(sections[k].path)
  <2>1. k \in 1 .. Len(sections) /\ 1 < k
    BY <1>1
  <2> QED
    BY <1>1, <2>1 DEF IInv, SectionsRise, Here
<1> QED
  BY <1>1, <1>2, <1>3, <1>4

LEMMA EarlierSections ==
    ASSUME IInv, phase = "pack", NEW m, AllBefore(m, Here), NEW i \in 1 .. Len(m),
           Deepest(m[i].path) \in Nat, NEW k \in 1 .. Len(sections)
    PROVE  \/ Deepest(m[i].path) < Deepest(sections[k].path)
           \/ k = 1 /\ m[i].path = Here
<1>1. Len(sections) \in Nat
  BY NotEmpty DEF IInv, Shape
<1>2. m[i].path = Here \/ Deepest(m[i].path) < Deepest(Here)
  BY DEF AllBefore
<1>3. CASE k = 1
  BY <1>2, <1>3 DEF Here
<1>4. CASE k # 1
  <2>1. k \in 2 .. Len(sections)
    BY <1>1, <1>4
  <2>2. /\ Deepest(Here) \in Nat /\ Deepest(sections[k].path) \in Nat
        /\ Deepest(Here) < Deepest(sections[k].path)
    BY <2>1, HereFacts
  <2> QED
    BY <1>2, <2>2
<1> QED
  BY <1>3, <1>4

LEMMA PackedInv ==
    ASSUME IInv, phase = "pack", phase' = "pack",
           UNCHANGED <<doc, line, path, sections, chunks>>,
           IsSeq(fresh'), IsSeq(packed'),
           MadeSound(doc, Made'), AllBefore(Made', Here),
           packed' # <<>> => TokensIn(doc, Here, Join(packed')) <= HardLimit,
           (Made' # <<>> /\ Made'[Len(Made')].path = Here) =>
              \/ TokensIn(doc, Here, Join(Made'[Len(Made')].parts)) >= SoftLimit
              \/ packed' # <<>> /\ EndsBefore(doc, Made'[Len(Made')], packed'[1])
    PROVE  IInv'
<1>1. Here' = Here
  BY DEF Here
<1>2. Shape' /\ SectionsRise' /\ Parsing' /\ LinksRight'
  BY DEF IInv, Shape, SectionsRise, Parsing, LinksRight
<1>3. Chunking'
  <2>1. \A i \in 1 .. Len(Made') : Deepest(Made'[i].path) \in Nat
    BY DEF MadeSound, Grouped
  <2>2. \A i \in 1 .. Len(Made'), k \in 1 .. Len(sections) :
           \/ Deepest(Made'[i].path) < Deepest(sections[k].path)
           \/ k = 1 /\ Made'[i].path = Here
    BY <2>1, EarlierSections
  <2> QED
    BY <1>1, <2>2 DEF IInv, Chunking, InSection
<1>4. Packing'
  <2>1. packed' # <<>> => Fits(Join(packed))'
    BY <1>1 DEF Fits, Tokens, TokensIn
  <2> QED
    BY <1>1, <2>1 DEF Packing
<1>5. MadeSound(doc, Made)'
  OBVIOUS
<1> QED
  BY <1>2, <1>3, <1>4, <1>5 DEF IInv

\* The chunks Pack and EndSection make, as chunks of the section.
LEMMA MadeHere ==
    ASSUME IInv, NEW texts, NEW k \in Nat
    PROVE  MadeFrom(texts, k) = ChunkOf(Here, texts, Len(Made) + k)
<1>1. Len(chunks) + Len(fresh) = Len(Made)
  BY MadeFacts
<1> QED
  BY <1>1 DEF MadeFrom, ChunkOf

\* A part more is packed, perhaps into a new list; the list may be made a chunk.
LEMMA PackStep ==
    ASSUME CountsTokens, IInv, Pack
    PROVE  IInv'
<1> DEFINE part  == Head(parts)
           now   == IF Overflows(packed, part) THEN <<part>> ELSE Append(packed, part)
           ended == IF Overflows(packed, part) THEN <<MadeFrom(packed, 0)>> ELSE <<>>
           m     == IF Overflows(packed, part)
                    THEN Append(Made, ChunkOf(Here, packed, Len(Made))) ELSE Made
<1>1. /\ phase = "pack" /\ phase' = "pack"
      /\ UNCHANGED <<doc, line, path, sections, chunks>>
      /\ \/ /\ Full(Join(now)) /\ Fits(Join(now))
            /\ fresh' = fresh \o ended \o <<MadeFrom(now, Len(ended))>>
            /\ packed' = <<>>
         \/ /\ ~Full(Join(now))
            /\ fresh' = fresh \o ended /\ packed' = now
  BY DEF Pack, parsing
<1>2. /\ IsSeq(chunks) /\ IsSeq(fresh) /\ IsSeq(packed) /\ IsSeq(Made)
      /\ Len(Made) \in Nat /\ MadeSound(doc, Made)
  BY MadeFacts DEF IInv, Shape
<1>3. Deepest(Here) \in Nat /\ AllBefore(Made, Here)
  BY <1>1, HereFacts
<1>4. /\ packed # <<>> => TokensIn(doc, Here, Join(packed)) <= HardLimit
      /\ (Made # <<>> /\ Made[Len(Made)].path = Here) =>
            \/ TokensIn(doc, Here, Join(Made[Len(Made)].parts)) >= SoftLimit
            \/ packed # <<>> /\ EndsBefore(doc, Made[Len(Made)], packed[1])
  BY <1>1 DEF IInv, Packing, Fits, Tokens, TokensIn
<1>5. \A p, texts : TokensIn(doc, p, texts) \in Int
  BY DEF CountsTokens, TokensIn
<1>6. /\ SoftLimit \in Int /\ HardLimit \in Int /\ SoftLimit <= HardLimit
  BY LimitAssumption
<1>7. /\ IsSeq(now) /\ now # <<>>
      /\ now[1] = IF packed # <<>> /\ ~Overflows(packed, part) THEN packed[1] ELSE part
  <2>1. CASE Overflows(packed, part)
    BY <2>1, Single, NotEmpty
  <2>2. CASE ~Overflows(packed, part)
    <3> DEFINE a == Append(packed, part)
    <3>1. /\ IsSeq(a) /\ Len(packed) \in Nat /\ Len(a) = Len(packed) + 1
          /\ \A k \in 1 .. Len(packed) : a[k] = packed[k]
          /\ a[Len(packed) + 1] = part
      BY <1>2, Appended
    <3>2. packed # <<>> <=> Len(packed) # 0
      BY <1>2, NotEmpty
    <3>3. now = a
      BY <2>2
    <3> HIDE DEF a, now
    <3>4. a # <<>>
      BY <3>1, NotEmpty
    <3>5. CASE packed # <<>>
      <4>1. 1 \in 1 .. Len(packed)
        BY <3>1, <3>2, <3>5
      <4> QED
        BY <2>2, <3>1, <3>3, <3>4, <3>5, <4>1
    <3>6. CASE packed = <<>>
      BY <3>1, <3>2, <3>3, <3>4, <3>6
    <3> QED
      BY <3>5, <3>6
  <2> QED
    BY <2>1, <2>2
<1>8. /\ IsSeq(ended) /\ chunks \o (fresh \o ended) = m
      /\ IsSeq(fresh \o ended) /\ Len(ended) \in Nat /\ Len(m) = Len(Made) + Len(ended)
  <2>1. CASE Overflows(packed, part)
    <3> DEFINE y == MadeFrom(packed, 0)
    <3>1. y = ChunkOf(Here, packed, Len(Made))
      <4>1. y = ChunkOf(Here, packed, Len(Made) + 0)
        BY MadeHere
      <4>2. Len(Made) + 0 = Len(Made)
        BY <1>2
      <4> QED
        BY <4>1, <4>2
    <3>2. ended = <<y>> /\ m = Append(Made, y)
      BY <2>1, <3>1
    <3> HIDE DEF y, ended, m
    <3>3. IsSeq(<<y>>) /\ Len(<<y>>) = 1
      BY Single
    <3>4. fresh \o <<y>> = Append(fresh, y)
      BY <1>2, AppendedIsJoined
    <3>5. chunks \o Append(fresh, y) = Append(Made, y)
      BY <1>2, AppendedIsJoined DEF Made
    <3>6. IsSeq(Append(fresh, y)) /\ Len(Append(Made, y)) = Len(Made) + 1
      BY <1>2, Appended
    <3> QED
      BY <3>2, <3>3, <3>4, <3>5, <3>6
  <2>2. CASE ~Overflows(packed, part)
    <3>1. ended = <<>> /\ m = Made
      BY <2>2
    <3>2. fresh \o <<>> = fresh
      BY <1>2, AppendedIsJoined
    <3> HIDE DEF ended, m
    <3> QED
      BY <1>2, <3>1, <3>2, EmptyIsSeq DEF Made
  <2> QED
    BY <2>1, <2>2
<1>9. /\ MadeSound(doc, m) /\ AllBefore(m, Here)
      /\ (m # <<>> /\ m[Len(m)].path = Here) => EndsBefore(doc, m[Len(m)], now[1])
  <2>1. CASE Overflows(packed, part)
    <3>1. packed # <<>> /\ ~(TokensIn(doc, Here, Join(Append(packed, part))) <= HardLimit)
      BY <2>1 DEF Overflows, Fits, Tokens, TokensIn
    <3>2. now[1] = part
      BY <1>7, <2>1
    <3> DEFINE n == Append(Made, ChunkOf(Here, packed, Len(Made)))
    <3>3. m = n
      BY <2>1
    <3>4. (Made # <<>> /\ Made[Len(Made)].path = Here) => EndsBefore(doc, Made[Len(Made)], packed[1])
      BY <1>4 DEF EndsBefore
    <3>5. /\ MadeSound(doc, n) /\ AllBefore(n, Here)
          /\ n[Len(n)] = ChunkOf(Here, packed, Len(Made))
      BY <1>2, <1>3, <1>4, <3>1, <3>4, AddHere
    <3> HIDE DEF n, m, now
    <3>6. TokensIn(doc, Here, Join(Append(packed, part))) > HardLimit
      BY <1>5, <1>6, <3>1
    <3>7. n[Len(n)].path = Here /\ n[Len(n)].parts = packed
      BY <3>5 DEF ChunkOf
    <3>8. EndsBefore(doc, n[Len(n)], part)
      BY <3>6, <3>7 DEF EndsBefore
    <3> QED
      BY <3>2, <3>3, <3>5, <3>8
  <2>2. CASE ~Overflows(packed, part)
    <3>1. m = Made
      BY <2>2
    <3> HIDE DEF m, now
    <3>2. packed # <<>> => now[1] = packed[1]
      BY <1>7, <2>2
    <3> QED
      BY <1>2, <1>3, <1>4, <3>1, <3>2 DEF EndsBefore
  <2> QED
    BY <2>1, <2>2
<1> HIDE DEF now, ended, m
<1>10. CASE /\ Full(Join(now)) /\ Fits(Join(now))
            /\ fresh' = fresh \o ended \o <<MadeFrom(now, Len(ended))>>
            /\ packed' = <<>>
  <2> DEFINE y == MadeFrom(now, Len(ended))
             n == Append(m, ChunkOf(Here, now, Len(m)))
  <2>1. y = ChunkOf(Here, now, Len(m))
    BY <1>8, MadeHere
  <2> HIDE DEF y
  <2>2. fresh' = Append(fresh \o ended, y) /\ IsSeq(Append(fresh \o ended, y))
    <3>1. (fresh \o ended) \o <<y>> = Append(fresh \o ended, y)
      BY <1>8, AppendedIsJoined
    <3> QED
      BY <1>8, <1>10, <3>1, Appended DEF y
  <2>3. Made' = n
    <3>1. chunks \o Append(fresh \o ended, y) = Append(chunks \o (fresh \o ended), y)
      <4> DEFINE g == fresh \o ended
      <4>1. IsSeq(g)
        BY <1>8
      <4> HIDE DEF g
      <4>2. chunks \o Append(g, y) = Append(chunks \o g, y)
        BY <1>2, <4>1, AppendedIsJoined
      <4> QED
        BY <4>2 DEF g
    <3>2. Made' = chunks \o fresh'
      BY <1>1 DEF Made
    <3> QED
      BY <1>8, <2>1, <2>2, <3>1, <3>2
  <2>4. TokensIn(doc, Here, Join(now)) <= HardLimit /\ TokensIn(doc, Here, Join(now)) >= SoftLimit
    BY <1>10 DEF Full, Fits, Tokens, TokensIn
  <2>5. /\ MadeSound(doc, n) /\ AllBefore(n, Here)
        /\ n[Len(n)] = ChunkOf(Here, now, Len(m))
    BY <1>3, <1>9, <2>4, AddHere
  <2> HIDE DEF n
  <2>6. TokensIn(doc, Here, Join(n[Len(n)].parts)) >= SoftLimit
    BY <2>4, <2>5 DEF ChunkOf
  <2>7. IsSeq(packed') /\ packed' = <<>> /\ IsSeq(fresh')
    BY <1>10, <2>2, EmptyIsSeq
  <2> QED
    BY <1>1, <2>3, <2>5, <2>6, <2>7, PackedInv
<1>11. CASE /\ ~Full(Join(now))
            /\ fresh' = fresh \o ended /\ packed' = now
  <2>1. Made' = m
    BY <1>1, <1>8, <1>11 DEF Made
  <2>2. TokensIn(doc, Here, Join(now)) <= HardLimit
    <3>1. ~(TokensIn(doc, Here, Join(now)) >= SoftLimit)
      BY <1>11 DEF Full, Tokens, TokensIn
    <3> QED
      BY <1>5, <1>6, <3>1
  <2> QED
    BY <1>1, <1>7, <1>8, <1>9, <1>11, <2>1, <2>2, PackedInv
<1> QED
  BY <1>1, <1>10, <1>11

\* The rest of a section is made its last chunk, and the next one is begun.
LEMMA NextSection ==
    ASSUME IInv, EndSection
    PROVE  IInv'
<1> DEFINE last == IF packed = <<>> THEN <<>> ELSE <<MadeFrom(packed, 0)>>
           m    == IF packed = <<>> THEN Made ELSE Append(Made, ChunkOf(Here, packed, Len(Made)))
<1>1. /\ phase = "pack" /\ phase' = "section" /\ UNCHANGED <<doc, line, path>>
      /\ chunks' = chunks \o fresh \o last /\ packed' = <<>> /\ fresh' = <<>>
      /\ sections' = Tail(sections)
  BY DEF EndSection, parsing
<1>2. /\ IsSeq(chunks) /\ IsSeq(fresh) /\ IsSeq(Made) /\ IsSeq(sections)
      /\ Len(Made) \in Nat /\ MadeSound(doc, Made)
  BY MadeFacts DEF IInv, Shape
<1>3. Deepest(Here) \in Nat /\ AllBefore(Made, Here) /\ 1 \in 1 .. Len(sections)
  BY <1>1, HereFacts
<1>4. /\ packed # <<>> => TokensIn(doc, Here, Join(packed)) <= HardLimit
      /\ (Made # <<>> /\ Made[Len(Made)].path = Here) =>
            \/ TokensIn(doc, Here, Join(Made[Len(Made)].parts)) >= SoftLimit
            \/ packed # <<>> /\ EndsBefore(doc, Made[Len(Made)], packed[1])
  BY <1>1 DEF IInv, Packing, Fits, Tokens, TokensIn
<1>5. chunks' = m /\ MadeSound(doc, m) /\ AllBefore(m, Here)
  <2>1. CASE packed = <<>>
    <3>1. last = <<>> /\ m = Made
      BY <2>1
    <3> HIDE DEF last, m
    <3>2. Made \o <<>> = Made
      BY <1>2, AppendedIsJoined
    <3> QED
      BY <1>1, <1>2, <1>3, <3>1, <3>2 DEF Made
  <2>2. CASE packed # <<>>
    <3> DEFINE y == MadeFrom(packed, 0)
    <3>1. y = ChunkOf(Here, packed, Len(Made))
      <4>1. y = ChunkOf(Here, packed, Len(Made) + 0)
        BY MadeHere
      <4>2. Len(Made) + 0 = Len(Made)
        BY <1>2
      <4> QED
        BY <4>1, <4>2
    <3>2. last = <<y>> /\ m = Append(Made, y)
      BY <2>2, <3>1
    <3>3. (Made # <<>> /\ Made[Len(Made)].path = Here) => EndsBefore(doc, Made[Len(Made)], packed[1])
      BY <1>4 DEF EndsBefore
    <3> HIDE DEF y, last, m
    <3>4. Made \o <<y>> = Append(Made, y)
      BY <1>2, AppendedIsJoined
    <3>5. chunks' = m
      BY <1>1, <3>2, <3>4 DEF Made
    <3>6. MadeSound(doc, m) /\ AllBefore(m, Here)
      BY <1>2, <1>3, <1>4, <2>2, <3>1, <3>2, <3>3, AddHere
    <3> QED
      BY <3>5, <3>6
  <2> QED
    BY <2>1, <2>2
<1> HIDE DEF last, m
<1>6. IsSeq(m) /\ \A i \in 1 .. Len(m) : Deepest(m[i].path) \in Nat
  BY <1>5 DEF MadeSound, Grouped
<1>7. Made' = m
  <2>1. m \o <<>> = m
    BY <1>6, AppendedIsJoined
  <2> QED
    BY <1>1, <1>5, <2>1 DEF Made
<1>8. /\ IsSeq(sections') /\ Len(sections) \in Nat /\ Len(sections') = Len(sections) - 1
      /\ \A k \in 1 .. Len(sections) - 1 : sections'[k] = sections[k + 1]
  <2>1. sections # <<>>
    BY <1>1 DEF IInv, Chunking, InSection
  <2> QED
    BY <1>1, <1>2, <2>1, Rest
<1>9. \A k \in 1 .. Len(sections') : k + 1 \in 2 .. Len(sections) /\ k + 1 \in 1 .. Len(sections)
                                        /\ sections'[k] = sections[k + 1]
  BY <1>8
<1>10. Shape'
  BY <1>1, <1>5, <1>6, <1>8, EmptyIsSeq DEF IInv, Shape
<1>11. SectionsRise'
  <2>1. \A k \in 1 .. Len(sections') : Deepest(sections'[k].path) \in Nat
    BY <1>9 DEF IInv, SectionsRise
  <2>2. ASSUME NEW k \in 1 .. Len(sections'), NEW l \in 1 .. Len(sections'), k < l
        PROVE  Deepest(sections'[k].path) < Deepest(sections'[l].path)
    <3>1. k + 1 < l + 1
      BY <1>8, <2>2
    <3> QED
      BY <1>9, <3>1 DEF IInv, SectionsRise
  <2> QED
    BY <2>1, <2>2 DEF SectionsRise
<1>12. Chunking'
  <2> SUFFICES ASSUME NEW i \in 1 .. Len(m), NEW k \in 1 .. Len(sections')
               PROVE  Deepest(m[i].path) < Deepest(sections'[k].path)
    BY <1>1, <1>7 DEF Chunking, InSection, Phases
  <2>1. k + 1 \in 1 .. Len(sections) /\ k + 1 # 1 /\ sections'[k] = sections[k + 1]
    BY <1>9
  <2>2. \/ Deepest(m[i].path) < Deepest(sections[k + 1].path)
        \/ k + 1 = 1 /\ m[i].path = Here
    BY <1>1, <1>5, <1>6, <2>1, EarlierSections
  <2> QED
    BY <2>1, <2>2
<1>13. Parsing' /\ Packing' /\ LinksRight' /\ phase' # "done"
  BY <1>1 DEF Parsing, Packing, LinksRight
<1>14. MadeSound(doc, Made)'
  BY <1>1, <1>5, <1>7
<1> QED
  BY <1>10, <1>11, <1>12, <1>13, <1>14 DEF IInv

-----------------------------------------------------------------------------
(* The chunks are linked.                                                  *)

LEMMA Smallest == ASSUME NEW T \in SUBSET Nat, T # {}
                  PROVE  Min(T) \in T /\ \A y \in T : Min(T) <= y
BY Least DEF Min

\* The chunks of a section follow each other, so a sibling on either side
\* means that the neighbour on that side is one.
LEMMA Contiguous ==
    ASSUME NEW m, Grouped(m), Len(m) \in Nat,
           NEW i \in 1 .. Len(m), NEW j \in 1 .. Len(m), NEW k \in 1 .. Len(m),
           i < k, k < j, m[i].path = m[j].path
    PROVE  m[k].path = m[i].path
<1>1. \A l \in 1 .. Len(m) : Deepest(m[l].path) \in Nat
  BY DEF Grouped
<1>2. m[i].path = m[k].path \/ Deepest(m[i].path) < Deepest(m[k].path)
  BY DEF Grouped
<1>3. m[k].path = m[j].path \/ Deepest(m[k].path) < Deepest(m[j].path)
  BY DEF Grouped
<1> QED
  BY <1>1, <1>2, <1>3

Before(i) == {j \in Siblings(i) : j < i}
After(i)  == {j \in Siblings(i) : j > i}

LEMMA BeforeIs ==
    ASSUME Grouped(chunks), Len(chunks) \in Nat, DOMAIN chunks = 1 .. Len(chunks),
           NEW i \in 1 .. Len(chunks)
    PROVE  IF i > 1 /\ chunks[i - 1].path = chunks[i].path
           THEN Before(i) # {} /\ Max(Before(i)) = i - 1
           ELSE Before(i) = {}
<1> DEFINE B == Before(i)
<1>1. \A j : j \in B <=> j \in 1 .. Len(chunks) /\ j < i /\ chunks[j].path = chunks[i].path
  BY DEF Before, Siblings
<1> HIDE DEF B
<1>2. CASE i > 1 /\ chunks[i - 1].path = chunks[i].path
  <2>1. i - 1 \in B
    <3>1. i - 1 \in 1 .. Len(chunks) /\ i - 1 < i
      BY <1>2
    <3> QED
      BY <1>1, <1>2, <3>1
  <2>2. B \in SUBSET (0 .. Len(chunks))
    BY <1>1
  <2>3. Max(B) \in B /\ Max(B) >= i - 1
    BY <2>1, <2>2, Greatest
  <2>4. Max(B) \in 1 .. Len(chunks) /\ Max(B) < i
    BY <1>1, <2>3
  <2>5. Max(B) = i - 1
    BY <2>3, <2>4
  <2> QED
    BY <1>2, <2>1, <2>5 DEF B
<1>3. CASE ~(i > 1 /\ chunks[i - 1].path = chunks[i].path)
  <2> SUFFICES ASSUME NEW j \in B PROVE FALSE
    BY <1>3 DEF B
  <2>1. j \in 1 .. Len(chunks) /\ j < i /\ chunks[j].path = chunks[i].path
    BY <1>1
  <2>2. i > 1 /\ i - 1 \in 1 .. Len(chunks) /\ i - 1 < i /\ (j < i - 1 \/ j = i - 1)
    BY <2>1
  <2>3. CASE j < i - 1
    BY <1>3, <2>1, <2>2, <2>3, Contiguous
  <2>4. CASE j = i - 1
    BY <1>3, <2>1, <2>2, <2>4
  <2> QED
    BY <2>2, <2>3, <2>4
<1> QED
  BY <1>2, <1>3

LEMMA AfterIs ==
    ASSUME Grouped(chunks), Len(chunks) \in Nat, DOMAIN chunks = 1 .. Len(chunks),
           NEW i \in 1 .. Len(chunks)
    PROVE  IF i < Len(chunks) /\ chunks[i + 1].path = chunks[i].path
           THEN After(i) # {} /\ Min(After(i)) = i + 1
           ELSE After(i) = {}
<1> DEFINE B == After(i)
<1>1. \A j : j \in B <=> j \in 1 .. Len(chunks) /\ j > i /\ chunks[j].path = chunks[i].path
  BY DEF After, Siblings
<1> HIDE DEF B
<1>2. CASE i < Len(chunks) /\ chunks[i + 1].path = chunks[i].path
  <2>1. i + 1 \in B
    <3>1. i + 1 \in 1 .. Len(chunks) /\ i + 1 > i
      BY <1>2
    <3> QED
      BY <1>1, <1>2, <3>1
  <2>2. B \in SUBSET Nat
    BY <1>1
  <2>3. Min(B) \in B /\ Min(B) <= i + 1
    BY <2>1, <2>2, Smallest
  <2>4. Min(B) \in 1 .. Len(chunks) /\ Min(B) > i
    BY <1>1, <2>3
  <2>5. Min(B) = i + 1
    BY <2>3, <2>4
  <2> QED
    BY <1>2, <2>1, <2>5 DEF B
<1>3. CASE ~(i < Len(chunks) /\ chunks[i + 1].path = chunks[i].path)
  <2> SUFFICES ASSUME NEW j \in B PROVE FALSE
    BY <1>3 DEF B
  <2>1. j \in 1 .. Len(chunks) /\ j > i /\ chunks[j].path = chunks[i].path
    BY <1>1
  <2>2. i < Len(chunks) /\ i + 1 \in 1 .. Len(chunks) /\ i < i + 1 /\ (i + 1 < j \/ j = i + 1)
    BY <2>1
  <2>3. CASE i + 1 < j
    <3>1. chunks[i + 1].path = chunks[i].path
      BY <2>1, <2>2, <2>3, Contiguous
    <3> QED
      BY <1>3, <2>2, <3>1
  <2>4. CASE j = i + 1
    BY <1>3, <2>1, <2>2, <2>4
  <2> QED
    BY <2>2, <2>3, <2>4
<1> QED
  BY <1>2, <1>3

LEMMA Relinked ==
    ASSUME NEW c, IsChunk(c), NEW p, NEW q
    PROVE  [c EXCEPT !.previous = p, !.next = q]
               = [path |-> c.path, parts |-> c.parts, order |-> c.order, previous |-> p, next |-> q]
<1> DEFINE r == [c EXCEPT !.previous = p, !.next = q]
           S == [path : {c.path}, parts : {c.parts}, order : {c.order},
                 previous : {c.previous, p}, next : {c.next, q}]
<1>1. c \in S
  <2>1. \A a, b, o, x, y :
           [path |-> a, parts |-> b, order |-> o, previous |-> x, next |-> y]
              \in [path : {a}, parts : {b}, order : {o}, previous : {x, p}, next : {y, q}]
    OBVIOUS
  <2>2. c = [path |-> c.path, parts |-> c.parts, order |-> c.order,
             previous |-> c.previous, next |-> c.next]
    BY DEF IsChunk
  <2> QED
    BY <2>1, <2>2, Zenon
<1>2. r \in S
  BY <1>1
<1>3. r.previous = p /\ r.next = q
  BY <1>1
<1> HIDE DEF r
<1>4. r = [path |-> c.path, parts |-> c.parts, order |-> c.order, previous |-> p, next |-> q]
  BY <1>2, <1>3
<1> QED
  BY <1>4 DEF r

LEMMA LinkStep ==
    ASSUME IInv, Link
    PROVE  IInv'
<1> DEFINE n == Len(chunks)
           P(i) == IF Before(i) = {} THEN NoLink ELSE chunks[Max(Before(i))].order
           N(i) == IF After(i) = {} THEN NoLink ELSE chunks[Min(After(i))].order
           C(i) == [chunks[i] EXCEPT !.previous = P(i), !.next = N(i)]
<1>1. /\ phase = "section" /\ phase' = "done"
      /\ UNCHANGED <<doc, line, path, sections, fresh, packed>>
      /\ chunks' = [i \in DOMAIN chunks |-> C(i)]
  BY DEF Link, Before, After, parsing, packing
<1>2. /\ IsSeq(chunks) /\ n \in Nat /\ DOMAIN chunks = 1 .. n
  <2>1. IsSeq(chunks)
    BY DEF IInv, Shape
  <2> QED
    BY <2>1 DEF IsSeq
<1>3. fresh = <<>> /\ packed = <<>> /\ Made = chunks
  <2>1. fresh = <<>> /\ packed = <<>>
    BY <1>1 DEF IInv, Chunking
  <2> QED
    BY <1>2, <2>1, AppendedIsJoined DEF Made
<1>4. /\ \A i \in 1 .. n : IsChunk(chunks[i])
      /\ Numbered(chunks) /\ Filled(doc, chunks) /\ Grouped(chunks)
  BY <1>3 DEF IInv, MadeSound
<1>5. IsSeq(chunks') /\ Len(chunks') = n /\ DOMAIN chunks' = 1 .. n
      /\ \A i \in 1 .. n : chunks'[i] = C(i)
  <2> DEFINE U == {C(i) : i \in 1 .. n}
  <2>1. \A i \in 1 .. n : C(i) \in U
    OBVIOUS
  <2>2. chunks' = [i \in 1 .. n |-> C(i)]
    BY <1>1, <1>2
  <2> HIDE DEF U, C, n
  <2>3. chunks' \in [1 .. n -> U]
    BY <2>1, <2>2
  <2>4. chunks' \in Seq(U) /\ Len(chunks') = n
    BY <1>2, <2>3
  <2> QED
    BY <2>2, <2>4 DEF IsSeq
<1>6. ASSUME NEW i \in 1 .. n
      PROVE  /\ IsChunk(chunks'[i])
             /\ chunks'[i].path = chunks[i].path /\ chunks'[i].parts = chunks[i].parts
             /\ chunks'[i].order = i - 1 /\ chunks[i].order = i - 1
             /\ chunks'[i].previous = P(i) /\ chunks'[i].next = N(i)
  <2> HIDE DEF P, N
  <2>1. chunks'[i] = [chunks[i] EXCEPT !.previous = P(i), !.next = N(i)]
    BY <1>5
  <2>2. IsChunk(chunks[i]) /\ chunks[i].order = i - 1
    BY <1>4 DEF Numbered
  <2>3. \A c, p, q : IsChunk(c) =>
            [c EXCEPT !.previous = p, !.next = q]
                = [path |-> c.path, parts |-> c.parts, order |-> c.order, previous |-> p, next |-> q]
    BY Relinked
  <2>4. chunks'[i] = [path |-> chunks[i].path, parts |-> chunks[i].parts,
                      order |-> chunks[i].order, previous |-> P(i), next |-> N(i)]
    BY <2>1, <2>2, <2>3
  <2> HIDE DEF n
  <2> QED
    BY <2>2, <2>4 DEF IsChunk
<1>7. ASSUME NEW i \in 1 .. n
      PROVE  /\ P(i) = IF i > 1 /\ chunks[i - 1].path = chunks[i].path THEN i - 2 ELSE -1
             /\ N(i) = IF i < n /\ chunks[i + 1].path = chunks[i].path THEN i ELSE -1
  <2>1. IF i > 1 /\ chunks[i - 1].path = chunks[i].path
        THEN Before(i) # {} /\ Max(Before(i)) = i - 1
        ELSE Before(i) = {}
    BY <1>2, <1>4, BeforeIs
  <2>2. IF i < n /\ chunks[i + 1].path = chunks[i].path
        THEN After(i) # {} /\ Min(After(i)) = i + 1
        ELSE After(i) = {}
    BY <1>2, <1>4, AfterIs
  <2>3. i > 1 => chunks[i - 1].order = i - 2
    <3>1. i > 1 => i - 1 \in 1 .. n /\ (i - 1) - 1 = i - 2
      BY <1>2
    <3>2. \A k \in 1 .. n : chunks[k].order = k - 1
      BY <1>4 DEF Numbered
    <3> QED
      BY <3>1, <3>2
  <2>4. i < n => chunks[i + 1].order = i
    <3>1. i < n => i + 1 \in 1 .. n /\ (i + 1) - 1 = i
      BY <1>2
    <3>2. \A k \in 1 .. n : chunks[k].order = k - 1
      BY <1>4 DEF Numbered
    <3> QED
      BY <3>1, <3>2
  <2>5. P(i) = IF i > 1 /\ chunks[i - 1].path = chunks[i].path THEN i - 2 ELSE -1
    BY <2>1, <2>3 DEF NoLink
  <2>6. N(i) = IF i < n /\ chunks[i + 1].path = chunks[i].path THEN i ELSE -1
    BY <2>2, <2>4 DEF NoLink
  <2> QED
    BY <2>5, <2>6
<1> HIDE DEF P, N, C, n
<1>8. LinksRight'
  <2> SUFFICES ASSUME NEW i \in 1 .. n, NEW j \in 1 .. n
               PROVE  LET follows == j = i + 1 /\ chunks[i].path = chunks[j].path
                      IN  /\ N(i) = j - 1 <=> follows
                          /\ P(j) = i - 1 <=> follows
    BY <1>5, <1>6 DEF LinksRight
  <2>1. N(i) = IF i < n /\ chunks[i + 1].path = chunks[i].path THEN i ELSE -1
    BY <1>7
  <2>2. P(j) = IF j > 1 /\ chunks[j - 1].path = chunks[j].path THEN j - 2 ELSE -1
    BY <1>7
  <2>3. N(i) = j - 1 <=> j = i + 1 /\ chunks[i].path = chunks[j].path
    <3>1. CASE j = i + 1
      BY <1>2, <2>1, <3>1 DEF n
    <3>2. CASE j # i + 1
      BY <1>2, <2>1, <3>2 DEF n
    <3> QED
      BY <3>1, <3>2
  <2>4. P(j) = i - 1 <=> j = i + 1 /\ chunks[i].path = chunks[j].path
    <3>1. CASE j = i + 1
      <4>1. j - 1 = i /\ j > 1
        BY <1>2, <3>1 DEF n
      <4> QED
        BY <1>2, <2>2, <3>1, <4>1 DEF n
    <3>2. CASE j # i + 1
      BY <1>2, <2>2, <3>2 DEF n
    <3> QED
      BY <3>1, <3>2
  <2> QED
    BY <2>3, <2>4
<1>9. MadeSound(doc, chunks')
  <2>1. IsSeq(chunks') /\ \A i \in 1 .. Len(chunks') : IsChunk(chunks'[i])
    BY <1>5, <1>6
  <2>2. Numbered(chunks') /\ Grouped(chunks')
    BY <1>4, <1>5, <1>6 DEF Numbered, Grouped, n
  <2>3. Filled(doc, chunks')
    <3>1. \A i \in 1 .. n : TokensIn(doc, chunks'[i].path, Join(chunks'[i].parts)) <= HardLimit
      BY <1>4, <1>6 DEF Filled, n
    <3>2. ASSUME NEW i \in 1 .. n - 1, chunks'[i + 1].path = chunks'[i].path
          PROVE  EndsBefore(doc, chunks'[i], chunks'[i + 1].parts[1])
      <4>1. i \in 1 .. n /\ i + 1 \in 1 .. n
        BY <1>2 DEF n
      <4>2. EndsBefore(doc, chunks[i], chunks[i + 1].parts[1])
        BY <1>4, <1>6, <3>2, <4>1 DEF Filled, n
      <4> QED
        BY <1>6, <4>1, <4>2 DEF EndsBefore
    <3> QED
      BY <1>5, <3>1, <3>2 DEF Filled
  <2> QED
    BY <2>1, <2>2, <2>3 DEF MadeSound
<1>10. Made' = chunks'
  <2>1. chunks' \o <<>> = chunks'
    BY <1>5, AppendedIsJoined
  <2> QED
    BY <1>1, <1>3, <2>1 DEF Made
<1>11. Shape' /\ SectionsRise' /\ Parsing' /\ Packing'
  BY <1>1, <1>5 DEF IInv, Shape, SectionsRise, Parsing, Packing
<1>12. Chunking'
  BY <1>1, <1>3 DEF Chunking, InSection, Phases
<1>13. MadeSound(doc, Made)'
  BY <1>1, <1>9, <1>10
<1> QED
  BY <1>1, <1>3, <1>8, <1>11, <1>12, <1>13 DEF IInv

-----------------------------------------------------------------------------
(* The theorems.                                                           *)

LEMMA NextInv ==
    ASSUME CountsTokens, IInv, [Next]_vars
    PROVE  IInv'
<1>1. CASE ReadLine \/ Flush \/ ReadHeading \/ EndRead \/ BuildLine
  BY <1>1, ReadStep
<1>2. CASE EndBuild
  BY <1>2, KeepSection
<1>3. CASE \/ StartSection \/ SplitBlock \/ EndSplit \/ GroupPiece \/ EndGroup
           \/ KeepItem \/ CutItem \/ EndCut \/ Refuse
  <2>1. UNCHANGED <<doc, line, path, sections, chunks, fresh, packed>>
    BY <1>3 DEF StartSection, SplitBlock, EndSplit, GroupPiece, EndGroup,
                KeepItem, CutItem, EndCut, Refuse, parsing, packing
  <2>2. \/ phase = "section" /\ phase' = "split" /\ sections # <<>>
        \/ phase \in {"split", "group", "cut"} /\ phase' \in {"split", "group", "cut", "refused"}
        \/ phase = "split" /\ phase' = "pack"
        \/ phase = "pack" /\ phase' = "refused"
    BY <1>3 DEF StartSection, SplitBlock, EndSplit, GroupPiece, EndGroup,
                KeepItem, CutItem, EndCut, Refuse
  <2> QED
    BY <2>1, <2>2, MoveInv
<1>4. CASE Pack
  BY <1>4, PackStep
<1>5. CASE EndSection
  BY <1>5, NextSection
<1>6. CASE Link
  BY <1>6, LinkStep
<1>7. CASE UNCHANGED vars
  <2>1. UNCHANGED <<doc, phase, line, fence, path, buffer, sections, chunks, fresh, packed>>
    BY <1>7 DEF vars, parsing, packing
  <2>2. Made' = Made /\ Here' = Here
    BY <2>1 DEF Made, Here
  <2>3. Shape' /\ SectionsRise' /\ LinksRight' /\ MadeSound(doc, Made)'
    BY <2>1, <2>2 DEF IInv, Shape, SectionsRise, LinksRight
  <2>4. Parsing'
    BY <2>1 DEF IInv, Parsing, AtHeading, AtEnd, Is
  <2>5. Chunking' /\ Packing'
    BY <2>1, <2>2 DEF IInv, Chunking, Packing, InSection, Fits, Tokens
  <2> QED
    BY <2>1, <2>3, <2>4, <2>5 DEF IInv
<1> QED
  BY <1>1, <1>2, <1>3, <1>4, <1>5, <1>6, <1>7 DEF Next

LEMMA ChunksFacts ==
    ASSUME IInv
    PROVE  /\ Len(chunks) \in Nat /\ DOMAIN chunks = 1 .. Len(chunks)
           /\ Len(chunks) <= Len(Made)
           /\ \A i \in 1 .. Len(chunks) : i \in 1 .. Len(Made) /\ Made[i] = chunks[i]
<1>1. IsSeq(chunks) /\ IsSeq(fresh)
  BY DEF IInv, Shape
<1>2. /\ Len(chunks) \in Nat /\ Len(fresh) \in Nat
      /\ Len(Made) = Len(chunks) + Len(fresh)
      /\ \A k \in 1 .. Len(chunks) + Len(fresh) :
            Made[k] = IF k <= Len(chunks) THEN chunks[k] ELSE fresh[k - Len(chunks)]
  BY <1>1, Both DEF Made
<1>3. DOMAIN chunks = 1 .. Len(chunks)
  BY <1>1 DEF IsSeq
<1>4. ASSUME NEW i \in 1 .. Len(chunks)
      PROVE  i \in 1 .. Len(Made) /\ Made[i] = chunks[i]
  <2>1. i \in 1 .. Len(chunks) + Len(fresh) /\ i <= Len(chunks)
    BY <1>2
  <2> QED
    BY <1>2, <2>1
<1> QED
  BY <1>2, <1>3, <1>4

\* The chunks of a document are numbered 0, 1, ... across its sections, as
\* the service requires of an index, whatever is cut and packed.
THEOREM OrdersRight ==
    ASSUME CountsTokens
    PROVE  Spec => []OrdersContinuous
<1>1. IInv => OrdersContinuous
  BY ChunksFacts DEF IInv, MadeSound, Numbered, OrdersContinuous
<1> QED
  BY <1>1, InitInv, NextInv, PTL DEF Spec

\* _link_neighbors gives every chunk its neighbours within the section: the
\* lists of by_section are runs of the document's chunks, though sections are
\* told apart by their heading paths alone.
THEOREM LinksToNeighbours ==
    ASSUME CountsTokens
    PROVE  Spec => []LinksRight
<1>1. IInv => LinksRight
  BY DEF IInv
<1> QED
  BY <1>1, InitInv, NextInv, PTL DEF Spec

\* No chunk exceeds the hard limit, and none ends early: with the part behind
\* it, it would have, unless it had reached the soft limit.
THEOREM ChunksFilled ==
    ASSUME CountsTokens
    PROVE  Spec => []WellFilled
<1>1. ASSUME IInv
      PROVE  WellFilled
  <2>1. Filled(doc, Made)
    BY <1>1 DEF IInv, MadeSound
  <2>2. ASSUME NEW i \in 1 .. Len(chunks)
        PROVE  /\ TokensIn(doc, chunks[i].path, Join(chunks[i].parts)) <= HardLimit
               /\ i < Len(chunks) /\ chunks[i + 1].path = chunks[i].path =>
                     EndsBefore(doc, chunks[i], chunks[i + 1].parts[1])
    <3>1. i \in 1 .. Len(Made) /\ Made[i] = chunks[i]
      BY <1>1, ChunksFacts
    <3>2. ASSUME i < Len(chunks), chunks[i + 1].path = chunks[i].path
          PROVE  EndsBefore(doc, chunks[i], chunks[i + 1].parts[1])
      <4>1. Len(chunks) \in Nat /\ Len(Made) \in Nat
        BY <1>1, ChunksFacts, MadeFacts
      <4>2. i + 1 \in 1 .. Len(chunks)
        BY <3>2, <4>1
      <4>3. i + 1 \in 1 .. Len(Made) /\ Made[i + 1] = chunks[i + 1]
        BY <1>1, <4>2, ChunksFacts
      <4>4. i \in 1 .. Len(Made) - 1
        BY <3>1, <4>1, <4>3
      <4> QED
        BY <2>1, <3>1, <3>2, <4>3, <4>4 DEF Filled
    <3> QED
      BY <2>1, <3>1, <3>2 DEF Filled
  <2>3. DOMAIN chunks = 1 .. Len(chunks)
    BY <1>1, ChunksFacts
  <2> QED
    BY <2>2, <2>3 DEF WellFilled, EndsBefore, Tokens, TokensIn
<1> QED
  BY <1>1, InitInv, NextInv, PTL DEF Spec
=============================================================================
