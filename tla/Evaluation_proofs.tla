------------------------- MODULE Evaluation_proofs -------------------------
(***************************************************************************)
(* Proofs about Evaluation, for every evaluation set, limit and ranking:   *)
(* a result covers all cases and its metrics agree with each other.  The   *)
(* metrics are sums over sets of cases, so the module begins with facts    *)
(* about sums, proved by induction over finite sets.                       *)
(***************************************************************************)
EXTENDS Evaluation, Retrieval_proofs

-----------------------------------------------------------------------------
(* Induction over sets: a property is the set of those that have it.       *)

\* A property that 0 has and that passes to the next number.
LEMMA Counting ==
    ASSUME NEW T \in SUBSET Nat, 0 \in T, \A n \in T : n + 1 \in T
    PROVE  \A n \in Nat : n \in T
<1> DEFINE U == Nat \ T
<1> SUFFICES ASSUME U # {} PROVE FALSE
  OBVIOUS
<1>1. U \in SUBSET Nat
  OBVIOUS
<1>2. PICK x \in U : \A y \in U : x <= y
  <2> HIDE DEF U
  <2> QED
    BY <1>1, LeastNumber
<1>3. x \in Nat /\ x # 0 /\ x \notin T
  BY <1>2
<1>4. x - 1 \in Nat /\ x - 1 \notin U /\ (x - 1) + 1 = x
  BY <1>2, <1>3
<1> QED
  BY <1>3, <1>4

\* A property of subsets that passes from the smaller ones to the next holds of all.
LEMMA Removing ==
    ASSUME NEW S, IsFiniteSet(S), NEW P,
           \A s \in SUBSET S : (\A x \in s : s \ {x} \in P) => s \in P
    PROVE  \A s \in SUBSET S : s \in P
<1> DEFINE T == {n \in Nat : \A s \in SUBSET S : Cardinality(s) = n => s \in P}
<1>1. \A s \in SUBSET S : /\ IsFiniteSet(s) /\ Cardinality(s) \in Nat
                          /\ \A x \in s : /\ s \ {x} \in SUBSET S
                                          /\ Cardinality(s \ {x}) + 1 = Cardinality(s)
                                          /\ Cardinality(s \ {x}) \in Nat
  <2> TAKE s \in SUBSET S
  <2>1. IsFiniteSet(s) /\ Cardinality(s) \in Nat
    BY FS_Subset, FS_CardinalityType
  <2>2. ASSUME NEW x \in s
        PROVE  /\ Cardinality(s \ {x}) + 1 = Cardinality(s)
               /\ Cardinality(s \ {x}) \in Nat
    <3>1. Cardinality(s \ {x}) = Cardinality(s) - 1 /\ IsFiniteSet(s \ {x})
      BY <2>1, FS_RemoveElement
    <3>2. Cardinality(s \ {x}) \in Nat
      BY <3>1, FS_CardinalityType
    <3> QED
      BY <2>1, <3>1, <3>2
  <2> QED
    BY <2>1, <2>2
<1>2. 0 \in T
  <2>1. ASSUME NEW s \in SUBSET S, Cardinality(s) = 0 PROVE s \in P
    <3>1. s = {}
      BY <1>1, <2>1, FS_EmptySet
    <3> QED
      BY <3>1
  <2> QED
    BY <2>1
<1>3. ASSUME NEW n \in T PROVE n + 1 \in T
  <2>1. ASSUME NEW s \in SUBSET S, Cardinality(s) = n + 1 PROVE s \in P
    <3>1. ASSUME NEW x \in s PROVE s \ {x} \in P
      <4>1. /\ Cardinality(s \ {x}) + 1 = Cardinality(s) /\ Cardinality(s \ {x}) \in Nat
            /\ s \ {x} \in SUBSET S /\ n \in Nat
        BY <1>1
      <4>2. Cardinality(s \ {x}) = n
        BY <2>1, <4>1
      <4> QED
        BY <4>1, <4>2
    <3> QED
      BY <3>1
  <2> QED
    BY <2>1
<1>4. \A n \in Nat : n \in T
  <2>1. T \in SUBSET Nat
    OBVIOUS
  <2> HIDE DEF T
  <2> QED
    BY <1>2, <1>3, <2>1, Counting
<1> QED
  BY <1>1, <1>4

-----------------------------------------------------------------------------
(* Sums.                                                                   *)

\* SumFunctionOnSet takes the summands of a set one by one; this is one turn.
Turn(f, S, g) ==
    [s \in SUBSET S |-> IF s = {} THEN 0
                        ELSE f[CHOOSE x \in s : TRUE] + g[s \ {CHOOSE x \in s : TRUE}]]

Sums(f, S) == CHOOSE g : g = Turn(f, S, g)

\* The sum of a set is the last of these sums.
LEMMA SumUnfolds == ASSUME NEW f, NEW S PROVE SumFunctionOnSet(f, S) = Sums(f, S)[S]
BY DEF SumFunctionOnSet, FoldFunctionOnSet, MapThenFoldSet, Turn, Sums

\* There is a function of subsets that adds up f in this way.
LEMMA SumsExist ==
    ASSUME NEW S, IsFiniteSet(S), NEW f, \A x \in S : f[x] \in Nat
    PROVE  \E g : g = Turn(f, S, g)
<1> DEFINE Upto(n) == {s \in SUBSET S : Cardinality(s) <= n}
           pick(s) == CHOOSE x \in s : TRUE
           Adds(n, g) == \A s \in Upto(n) :
                            g[s] = IF s = {} THEN 0 ELSE f[pick(s)] + g[s \ {pick(s)}]
           T == {n \in Nat : \E g \in [Upto(n) -> Nat] : Adds(n, g)}
<1>1. \A s \in SUBSET S : /\ IsFiniteSet(s) /\ Cardinality(s) \in Nat
                          /\ s # {} => pick(s) \in s
                          /\ \A x \in s : Cardinality(s \ {x}) + 1 = Cardinality(s)
  <2> TAKE s \in SUBSET S
  <2>1. IsFiniteSet(s) /\ Cardinality(s) \in Nat
    BY FS_Subset, FS_CardinalityType
  <2>2. ASSUME NEW x \in s PROVE Cardinality(s \ {x}) + 1 = Cardinality(s)
    <3>1. Cardinality(s \ {x}) = Cardinality(s) - 1
      BY <2>1, FS_RemoveElement
    <3> QED
      BY <2>1, <3>1
  <2> QED
    BY <2>1, <2>2
<1>2. 0 \in T
  <2> DEFINE z == [s \in Upto(0) |-> 0]
  <2>1. \A s \in Upto(0) : s = {}
    BY <1>1, FS_EmptySet
  <2>2. z \in [Upto(0) -> Nat] /\ Adds(0, z)
    BY <2>1
  <2> QED
    BY <2>2
<1>3. ASSUME NEW n \in T PROVE n + 1 \in T
  <2>1. PICK g \in [Upto(n) -> Nat] : Adds(n, g)
    OBVIOUS
  <2> DEFINE h == [s \in Upto(n + 1) |->
                     IF s = {} THEN 0 ELSE f[pick(s)] + g[s \ {pick(s)}]]
  <2>2. n \in Nat
    OBVIOUS
  <2>3. ASSUME NEW s \in Upto(n + 1), s # {}
        PROVE  pick(s) \in s /\ f[pick(s)] \in Nat /\ s \ {pick(s)} \in Upto(n)
    <3>1. s \in SUBSET S /\ Cardinality(s) <= n + 1
      OBVIOUS
    <3>2. pick(s) \in s
      BY <1>1, <2>3, <3>1
    <3>3. Cardinality(s \ {pick(s)}) + 1 = Cardinality(s) /\ Cardinality(s) \in Nat
      BY <1>1, <3>1, <3>2
    <3>4. s \ {pick(s)} \in SUBSET S
      BY <3>1
    <3>5. Cardinality(s \ {pick(s)}) \in Nat
      BY <1>1, <3>4
    <3> HIDE DEF pick
    <3>6. Cardinality(s \ {pick(s)}) <= n
      BY <2>2, <3>1, <3>3, <3>5
    <3> QED
      BY <3>1, <3>2, <3>4, <3>6
  <2>4. ASSUME NEW s \in Upto(n) PROVE h[s] = g[s]
    <3>1. s \in Upto(n + 1)
      BY <1>1, <2>2
    <3>2. g[s] = IF s = {} THEN 0 ELSE f[pick(s)] + g[s \ {pick(s)}]
      BY <2>1
    <3> QED
      BY <3>1, <3>2
  <2>5. h \in [Upto(n + 1) -> Nat]
    <3>1. ASSUME NEW s \in Upto(n + 1), s # {} PROVE f[pick(s)] + g[s \ {pick(s)}] \in Nat
      <4>1. f[pick(s)] \in Nat /\ s \ {pick(s)} \in Upto(n)
        BY <2>3, <3>1
      <4>2. g[s \ {pick(s)}] \in Nat
        BY <4>1
      <4> HIDE DEF pick
      <4> QED
        BY <4>1, <4>2
    <3> HIDE DEF Upto, pick
    <3> QED
      BY <3>1
  <2>6. Adds(n + 1, h)
    <3> SUFFICES ASSUME NEW s \in Upto(n + 1)
                 PROVE  h[s] = IF s = {} THEN 0 ELSE f[pick(s)] + h[s \ {pick(s)}]
      OBVIOUS
    <3>1. h[s] = IF s = {} THEN 0 ELSE f[pick(s)] + g[s \ {pick(s)}]
      OBVIOUS
    <3> HIDE DEF h, Upto, pick
    <3> QED
      BY <2>3, <2>4, <3>1
  <2> HIDE DEF h, Adds, Upto
  <2> QED
    BY <2>2, <2>5, <2>6
<1>4. Cardinality(S) \in Nat /\ \A s \in SUBSET S : Cardinality(s) <= Cardinality(S)
  BY FS_CardinalityType, FS_Subset
<1>5. Cardinality(S) \in T
  <2>1. T \in SUBSET Nat
    OBVIOUS
  <2> HIDE DEF T
  <2> QED
    BY <1>2, <1>3, <1>4, <2>1, Counting
<1>6. PICK g \in [Upto(Cardinality(S)) -> Nat] : Adds(Cardinality(S), g)
  BY <1>5
<1>7. Upto(Cardinality(S)) = SUBSET S
  BY <1>4
<1>8. g = Turn(f, S, g)
  <2> HIDE DEF Upto
  <2> QED
    BY <1>6, <1>7 DEF Turn
<1> QED
  BY <1>8

\* The element they take next.
Chosen(s) == CHOOSE x \in s : TRUE

\* How those sums add up.
LEMMA SumsTurn ==
    ASSUME NEW S, IsFiniteSet(S), NEW f, \A x \in S : f[x] \in Nat
    PROVE  /\ Sums(f, S)[{}] = 0
           /\ \A s \in SUBSET S : s # {} =>
                 /\ Chosen(s) \in s
                 /\ Sums(f, S)[s] = f[Chosen(s)] + Sums(f, S)[s \ {Chosen(s)}]
<1> DEFINE g == Sums(f, S)
<1>1. g = Turn(f, S, g)
  BY SumsExist DEF Sums
<1> HIDE DEF g
<1>2. \A s \in SUBSET S : g[s] = IF s = {} THEN 0 ELSE f[Chosen(s)] + g[s \ {Chosen(s)}]
  BY <1>1 DEF Turn, Chosen
<1>3. \A s \in SUBSET S : s # {} => Chosen(s) \in s
  BY DEF Chosen
<1> QED
  BY <1>2, <1>3 DEF g

\* What is summed up on the way is the sum of the set reached.
LEMMA SumsAgree ==
    ASSUME NEW S, IsFiniteSet(S), NEW f, \A x \in S : f[x] \in Nat, NEW t \in SUBSET S
    PROVE  Sums(f, S)[t] = SumFunctionOnSet(f, t)
<1>1. IsFiniteSet(t) /\ \A x \in t : f[x] \in Nat
  BY FS_Subset
<1> DEFINE P == {s \in SUBSET t : Sums(f, S)[s] = Sums(f, t)[s]}
<1>2. ASSUME NEW s \in SUBSET t, \A x \in s : s \ {x} \in P PROVE s \in P
  <2>1. s \in SUBSET S
    OBVIOUS
  <2>2. CASE s = {}
    <3>1. Sums(f, S)[{}] = 0 /\ Sums(f, t)[{}] = 0
      BY <1>1, SumsTurn
    <3> QED
      BY <2>2, <3>1
  <2>3. CASE s # {}
    <3> DEFINE x == Chosen(s)
    <3>1. x \in s /\ Sums(f, S)[s] = f[x] + Sums(f, S)[s \ {x}]
      BY <2>1, <2>3, SumsTurn
    <3>2. Sums(f, t)[s] = f[x] + Sums(f, t)[s \ {x}]
      BY <1>1, <2>3, SumsTurn
    <3> HIDE DEF x
    <3>3. Sums(f, S)[s \ {x}] = Sums(f, t)[s \ {x}]
      BY <1>2, <3>1
    <3> QED
      BY <3>1, <3>2, <3>3
  <2> QED
    BY <2>2, <2>3
<1>3. t \in P
  <2> HIDE DEF P
  <2> QED
    BY <1>1, <1>2, Removing
<1> QED
  BY <1>3, SumUnfolds

\* A sum is a number, and any summand may be taken first.
LEMMA SumOf ==
    ASSUME NEW S, IsFiniteSet(S), NEW f, \A x \in S : f[x] \in Nat
    PROVE  /\ SumFunctionOnSet(f, S) \in Nat
           /\ SumFunctionOnSet(f, {}) = 0
           /\ \A x \in S : SumFunctionOnSet(f, S) = f[x] + SumFunctionOnSet(f, S \ {x})
<1> DEFINE g == [s \in SUBSET S |-> SumFunctionOnSet(f, s)]
<1>1. \A s \in SUBSET S : g[s] = Sums(f, S)[s]
  BY SumsAgree
<1>2. g[{}] = 0
  BY <1>1, SumsTurn
<1>3. \A s \in SUBSET S : s # {} => \E x \in s : g[s] = f[x] + g[s \ {x}]
  <2> TAKE s \in SUBSET S
  <2> SUFFICES ASSUME s # {} PROVE \E x \in s : g[s] = f[x] + g[s \ {x}]
    OBVIOUS
  <2>1. Chosen(s) \in s /\ Sums(f, S)[s] = f[Chosen(s)] + Sums(f, S)[s \ {Chosen(s)}]
    BY SumsTurn
  <2>2. s \ {Chosen(s)} \in SUBSET S
    OBVIOUS
  <2> HIDE DEF g
  <2> QED
    BY <1>1, <2>1, <2>2
<1>4. S \in SUBSET S /\ {} \in SUBSET S /\ \A x \in S : S \ {x} \in SUBSET S
  OBVIOUS
<1>5. \A s \in SUBSET S : g[s] \in Nat
  <2> DEFINE N == {s \in SUBSET S : g[s] \in Nat}
  <2>1. ASSUME NEW s \in SUBSET S, \A x \in s : s \ {x} \in N PROVE s \in N
    <3> HIDE DEF g
    <3>1. CASE s = {}
      BY <1>2, <3>1
    <3>2. CASE s # {}
      <4>1. PICK x \in s : g[s] = f[x] + g[s \ {x}]
        BY <1>3, <3>2
      <4>2. g[s \ {x}] \in Nat /\ f[x] \in Nat
        BY <2>1
      <4> QED
        BY <4>1, <4>2
    <3> QED
      BY <3>1, <3>2
  <2>2. \A s \in SUBSET S : s \in N
    <3> HIDE DEF N
    <3> QED
      BY <2>1, Removing
  <2> QED
    BY <2>2
<1> DEFINE P == {s \in SUBSET S : \A x \in s : g[s] = f[x] + g[s \ {x}]}
<1> HIDE DEF g
<1>6. ASSUME NEW s \in SUBSET S, \A x \in s : s \ {x} \in P PROVE s \in P
  <2>1. CASE s = {}
    BY <2>1
  <2>2. CASE s # {}
    <3>1. PICK x \in s : g[s] = f[x] + g[s \ {x}]
      BY <1>3, <2>2
    <3>2. ASSUME NEW y \in s, y # x PROVE g[s] = f[y] + g[s \ {y}]
      <4>1. g[s \ {x}] = f[y] + g[(s \ {x}) \ {y}]
        BY <1>6, <3>2
      <4>2. g[s \ {y}] = f[x] + g[(s \ {y}) \ {x}]
        BY <1>6, <3>2
      <4>3. (s \ {x}) \ {y} = (s \ {y}) \ {x} /\ (s \ {x}) \ {y} \in SUBSET S
        OBVIOUS
      <4>4. g[(s \ {x}) \ {y}] \in Nat /\ f[x] \in Nat /\ f[y] \in Nat
        BY <1>5, <4>3
      <4>5. PICK rest \in Nat : rest = g[(s \ {x}) \ {y}]
        BY <4>4
      <4>6. g[s \ {x}] = f[y] + rest /\ g[s \ {y}] = f[x] + rest
        BY <4>1, <4>2, <4>3, <4>5, Zenon
      <4> HIDE DEF P
      <4> QED
        BY <3>1, <4>4, <4>6
    <3> QED
      BY <3>1, <3>2
  <2> QED
    BY <2>1, <2>2
<1>7. S \in P
  <2> HIDE DEF P
  <2> QED
    BY <1>4, <1>6, Removing
<1> QED
  BY <1>2, <1>4, <1>5, <1>7 DEF g

\* Equal summands have equal sums.
LEMMA SumSame ==
    ASSUME NEW S, IsFiniteSet(S), NEW f, \A x \in S : f[x] \in Nat,
           NEW g, \A x \in S : g[x] = f[x]
    PROVE  SumFunctionOnSet(g, S) = SumFunctionOnSet(f, S)
<1> DEFINE P == {s \in SUBSET S : SumFunctionOnSet(g, s) = SumFunctionOnSet(f, s)}
<1>1. ASSUME NEW s \in SUBSET S, \A x \in s : s \ {x} \in P PROVE s \in P
  <2>1. IsFiniteSet(s) /\ (\A x \in s : f[x] \in Nat) /\ (\A x \in s : g[x] \in Nat)
    BY FS_Subset
  <2>2. CASE s = {}
    BY <2>1, <2>2, SumOf
  <2>3. CASE s # {}
    <3>1. PICK x \in s : TRUE
      BY <2>3
    <3>2. /\ SumFunctionOnSet(f, s) = f[x] + SumFunctionOnSet(f, s \ {x})
          /\ SumFunctionOnSet(g, s) = g[x] + SumFunctionOnSet(g, s \ {x})
      BY <2>1, SumOf
    <3>3. SumFunctionOnSet(g, s \ {x}) = SumFunctionOnSet(f, s \ {x})
      BY <1>1
    <3> QED
      BY <3>2, <3>3
  <2> QED
    BY <2>2, <2>3
<1>2. S \in P
  <2>1. S \in SUBSET S
    OBVIOUS
  <2> HIDE DEF P
  <2> QED
    BY <1>1, <2>1, Removing
<1> QED
  BY <1>2

\* The sum over two sets that have nothing in common.
LEMMA SumBoth ==
    ASSUME NEW A, IsFiniteSet(A), NEW B, IsFiniteSet(B), A \cap B = {},
           NEW f, \A x \in A \cup B : f[x] \in Nat
    PROVE  SumFunctionOnSet(f, A \cup B) = SumFunctionOnSet(f, A) + SumFunctionOnSet(f, B)
<1> DEFINE P == {s \in SUBSET B : SumFunctionOnSet(f, A \cup s)
                                    = SumFunctionOnSet(f, A) + SumFunctionOnSet(f, s)}
<1>1. ASSUME NEW s \in SUBSET B, \A x \in s : s \ {x} \in P PROVE s \in P
  <2>1. /\ IsFiniteSet(s) /\ IsFiniteSet(A \cup s)
        /\ (\A x \in s : f[x] \in Nat) /\ (\A x \in A : f[x] \in Nat)
        /\ (\A x \in A \cup s : f[x] \in Nat)
    BY FS_Subset, FS_Union
  <2>2. SumFunctionOnSet(f, A) \in Nat
    BY <2>1, SumOf
  <2> SUFFICES SumFunctionOnSet(f, A \cup s)
                  = SumFunctionOnSet(f, A) + SumFunctionOnSet(f, s)
    OBVIOUS
  <2>3. CASE s = {}
    <3>1. A \cup s = A /\ SumFunctionOnSet(f, s) = 0
      BY <2>1, <2>3, SumOf
    <3>2. SumFunctionOnSet(f, A \cup s) = SumFunctionOnSet(f, A)
      BY <3>1, Zenon
    <3> QED
      BY <2>2, <3>1, <3>2
  <2>4. CASE s # {}
    <3>1. PICK x \in s : TRUE
      BY <2>4
    <3>2. SumFunctionOnSet(f, s) = f[x] + SumFunctionOnSet(f, s \ {x})
      BY <2>1, SumOf
    <3>3. SumFunctionOnSet(f, A \cup s) = f[x] + SumFunctionOnSet(f, (A \cup s) \ {x})
      BY <2>1, SumOf
    <3>4. (A \cup s) \ {x} = A \cup (s \ {x})
      OBVIOUS
    <3>5. SumFunctionOnSet(f, A \cup (s \ {x}))
             = SumFunctionOnSet(f, A) + SumFunctionOnSet(f, s \ {x})
      BY <1>1
    <3>6. f[x] \in Nat /\ SumFunctionOnSet(f, s \ {x}) \in Nat
      <4>1. IsFiniteSet(s \ {x}) /\ \A y \in s \ {x} : f[y] \in Nat
        BY <2>1, FS_RemoveElement
      <4> QED
        BY <2>1, <4>1, SumOf
    <3>7. SumFunctionOnSet(f, A \cup s)
             = f[x] + (SumFunctionOnSet(f, A) + SumFunctionOnSet(f, s \ {x}))
      BY <3>3, <3>4, <3>5, Zenon
    <3> QED
      BY <2>2, <3>2, <3>6, <3>7
  <2> QED
    BY <2>3, <2>4
<1>2. B \in P
  <2>1. B \in SUBSET B
    OBVIOUS
  <2> HIDE DEF P
  <2>2. \A s \in SUBSET B : s \in P
    BY <1>1, Removing
  <2> QED
    BY <2>1, <2>2
<1> QED
  BY <1>2

\* The sums of the parts add up to the sum of the whole.
LEMMA SumParts ==
    ASSUME NEW D, IsFiniteSet(D), NEW f, \A x \in D : f[x] \in Nat,
           NEW key, NEW T, IsFiniteSet(T)
    PROVE  SumFunctionOnSet([t \in T |-> SumFunctionOnSet(f, {x \in D : key[x] = t})], T)
              = SumFunctionOnSet(f, {x \in D : key[x] \in T})
<1> DEFINE part(t) == {x \in D : key[x] = t}
           over(s) == {x \in D : key[x] \in s}
           g == [t \in T |-> SumFunctionOnSet(f, part(t))]
           P == {s \in SUBSET T : SumFunctionOnSet(g, s) = SumFunctionOnSet(f, over(s))}
<1>1. \A s : IsFiniteSet(over(s)) /\ \A x \in over(s) : f[x] \in Nat
  BY FS_Subset
<1>2. \A t : IsFiniteSet(part(t)) /\ \A x \in part(t) : f[x] \in Nat
  BY FS_Subset
<1>3. \A t \in T : g[t] = SumFunctionOnSet(f, part(t)) /\ g[t] \in Nat
  <2> TAKE t \in T
  <2>1. SumFunctionOnSet(f, part(t)) \in Nat
    <3> HIDE DEF part
    <3> QED
      BY <1>2, SumOf
  <2> QED
    BY <2>1
<1>4. over({}) = {}
  OBVIOUS
<1>5. \A s \in SUBSET T : \A t \in s : /\ over(s) = over(s \ {t}) \cup part(t)
                                        /\ over(s \ {t}) \cap part(t) = {}
  OBVIOUS
<1> HIDE DEF g, over, part
<1>6. ASSUME NEW s \in SUBSET T, \A t \in s : s \ {t} \in P PROVE s \in P
  <2>1. IsFiniteSet(s) /\ \A t \in s : g[t] \in Nat
    BY <1>3, FS_Subset
  <2>2. CASE s = {}
    BY <1>1, <1>4, <2>1, <2>2, SumOf
  <2>3. CASE s # {}
    <3>1. PICK t \in s : TRUE
      BY <2>3
    <3>2. SumFunctionOnSet(g, s) = g[t] + SumFunctionOnSet(g, s \ {t})
      BY <2>1, SumOf
    <3>3. SumFunctionOnSet(g, s \ {t}) = SumFunctionOnSet(f, over(s \ {t}))
      BY <1>6
    <3>4. SumFunctionOnSet(f, over(s \ {t}) \cup part(t))
             = SumFunctionOnSet(f, over(s \ {t})) + SumFunctionOnSet(f, part(t))
      <4>1. \A x \in over(s \ {t}) \cup part(t) : f[x] \in Nat
        BY <1>1, <1>2
      <4> QED
        BY <1>1, <1>2, <1>5, <4>1, SumBoth
    <3>5. SumFunctionOnSet(f, over(s \ {t})) \in Nat /\ g[t] \in Nat
      BY <1>1, <2>1, SumOf
    <3>6. over(s) = over(s \ {t}) \cup part(t) /\ g[t] = SumFunctionOnSet(f, part(t))
      BY <1>3, <1>5
    <3>7. SumFunctionOnSet(f, over(s)) = SumFunctionOnSet(f, over(s \ {t})) + g[t]
      BY <3>4, <3>6, Zenon
    <3>8. SumFunctionOnSet(g, s) = g[t] + SumFunctionOnSet(f, over(s \ {t}))
      BY <3>2, <3>3, Zenon
    <3> QED
      BY <3>5, <3>7, <3>8
  <2> QED
    BY <2>2, <2>3
<1>7. T \in P
  <2>1. T \in SUBSET T
    OBVIOUS
  <2> HIDE DEF P
  <2> QED
    BY <1>6, <2>1, Removing
<1> QED
  BY <1>7 DEF g, over, part

\* The same for counts.
LEMMA CountParts ==
    ASSUME NEW D, IsFiniteSet(D), NEW T, IsFiniteSet(T), NEW key, \A x \in D : key[x] \in T,
           NEW g, \A t \in T : g[t] = Cardinality({x \in D : key[x] = t})
    PROVE  SumFunctionOnSet(g, T) = Cardinality(D)
<1> DEFINE one == [x \in D |-> 1]
           P == {s \in SUBSET D : SumFunctionOnSet(one, s) = Cardinality(s)}
<1>1. \A x \in D : one[x] = 1 /\ one[x] \in Nat
  OBVIOUS
<1> HIDE DEF one
<1>2. ASSUME NEW s \in SUBSET D, \A x \in s : s \ {x} \in P PROVE s \in P
  <2>1. IsFiniteSet(s) /\ \A x \in s : one[x] \in Nat
    BY <1>1, FS_Subset
  <2>2. CASE s = {}
    BY <2>1, <2>2, SumOf, FS_EmptySet
  <2>3. CASE s # {}
    <3>1. PICK x \in s : TRUE
      BY <2>3
    <3>2. SumFunctionOnSet(one, s) = one[x] + SumFunctionOnSet(one, s \ {x})
      BY <2>1, SumOf
    <3>3. SumFunctionOnSet(one, s \ {x}) = Cardinality(s \ {x})
      BY <1>2
    <3>4. Cardinality(s \ {x}) = Cardinality(s) - 1 /\ Cardinality(s) \in Nat
      BY <2>1, FS_RemoveElement, FS_CardinalityType
    <3> QED
      BY <1>1, <3>2, <3>3, <3>4
  <2> QED
    BY <2>2, <2>3
<1>3. \A s \in SUBSET D : SumFunctionOnSet(one, s) = Cardinality(s)
  <2>1. \A s \in SUBSET D : s \in P
    <3> HIDE DEF P
    <3> QED
      BY <1>2, Removing
  <2> QED
    BY <2>1
<1> DEFINE f == [t \in T |-> SumFunctionOnSet(one, {x \in D : key[x] = t})]
<1>4. \A t \in T : f[t] = g[t] /\ f[t] \in Nat
  <2> TAKE t \in T
  <2>1. {x \in D : key[x] = t} \in SUBSET D
    OBVIOUS
  <2>2. Cardinality({x \in D : key[x] = t}) \in Nat
    BY <2>1, FS_Subset, FS_CardinalityType
  <2>3. f[t] = Cardinality({x \in D : key[x] = t})
    BY <1>3, <2>1
  <2> QED
    BY <2>2, <2>3
<1>5. SumFunctionOnSet(f, T) = SumFunctionOnSet(one, {x \in D : key[x] \in T})
  BY <1>1, SumParts
<1>6. {x \in D : key[x] \in T} = D /\ SumFunctionOnSet(one, D) = Cardinality(D)
  BY <1>3
<1>7. SumFunctionOnSet(g, T) = SumFunctionOnSet(f, T)
  <2> HIDE DEF f
  <2> QED
    BY <1>4, SumSame
<1> QED
  BY <1>5, <1>6, <1>7

-----------------------------------------------------------------------------
(* The metrics of one set of cases.                                        *)

\* What the case i adds to the MRR.
Share(of, i) == IF of[i] \in 1 .. limit THEN Scale \div of[i] ELSE 0

\* The reciprocal of a rank: all at 1, at most a half behind it, and no less than
\* that of a cutoff the rank is within.
LEMMA ShareBounds ==
    ASSUME limit \in 1 .. TopKMax, NEW of, NEW i, of[i] \in Nat
    PROVE  /\ Share(of, i) \in Nat
           /\ of[i] = 1 => Share(of, i) = Scale
           /\ of[i] # 1 => 2 * Share(of, i) <= Scale
           /\ \A c \in 1 .. limit : of[i] # NoRank /\ of[i] <= c => Scale <= c * Share(of, i)
<1>1. TopKMax \in Nat /\ limit \in Nat \ {0} /\ limit <= TopKMax /\ Scale \in Nat \ {0}
  <2>1. CandidateTopK \in Nat /\ TopKMax \in 1 .. CandidateTopK
    BY SettingsAssumption DEF SettingsValid, AlgorithmConfigValid
  <2>2. Scale \in Nat \ {0}
    BY UnitAssumption
  <2> QED
    BY <2>1, <2>2
<1>2. CASE of[i] \notin 1 .. limit
  <2>1. Share(of, i) = 0 /\ of[i] # 1
    BY <1>1, <1>2 DEF Share
  <2>2. \A c \in 1 .. limit : ~ (of[i] # NoRank /\ of[i] <= c)
    BY <1>1, <1>2 DEF NoRank
  <2> QED
    BY <1>1, <2>1, <2>2
<1>3. CASE of[i] \in 1 .. limit
  <2>1. PICK r \in Nat \ {0} : r = of[i] /\ r <= limit
    BY <1>3
  <2>2. Scale % r = 0
    <3>1. r \in 1 .. TopKMax
      BY <1>1, <2>1
    <3> QED
      BY <3>1, ReciprocalAssumption
  <2>3. Scale \div r \in Int /\ Scale = r * (Scale \div r) + (Scale % r)
    BY <1>1
  <2>4. PICK q \in Int : q = Scale \div r
    BY <2>3
  <2>5. r * q \in Int
    OBVIOUS
  <2>6. Scale = r * q /\ Share(of, i) = q
    <3>1. Scale = r * q + 0
      BY <2>2, <2>3, <2>4, Zenon
    <3>2. Share(of, i) = q
      BY <1>3, <2>1, <2>4, Zenon DEF Share
    <3> QED
      BY <2>5, <3>1, <3>2
  <2>7. q \in Nat
    <3> SUFFICES ASSUME q < 0 PROVE FALSE
      OBVIOUS
    <3>1. q <= -1 /\ -1 \in Int
      OBVIOUS
    <3>2. r * q <= r * (-1)
      BY <3>1, Scaled
    <3>3. r * (-1) < 0
      BY <2>1
    <3>4. r * q \in Int
      OBVIOUS
    <3> QED
      BY <1>1, <2>6, <3>2, <3>3, <3>4
  <2>8. r # 1 => 2 * q <= Scale
    <3>1. ASSUME r # 1 PROVE 2 * q <= r * q
      BY <2>7, <3>1, Scaled
    <3> QED
      BY <2>6, <3>1
  <2>9. \A c \in 1 .. limit : r <= c => Scale <= c * q
    BY <1>1, <2>6, <2>7, Scaled
  <2>10. r = 1 => q = Scale
    BY <2>6
  <2> QED
    BY <2>1, <2>6, <2>7, <2>8, <2>9, <2>10
<1> QED
  BY <1>2, <1>3

\* One more case on either side of the bounds.
LEMMA OneMore ==
    ASSUME NEW c \in Nat, NEW h \in Nat, NEW g \in Nat, NEW n \in Nat,
           NEW s \in Nat, NEW p \in Nat, NEW k \in Nat
    PROVE  /\ 2 * s <= (n + h) * k /\ p = k => 2 * (p + s) <= ((n + 1) + (h + 1)) * k
           /\ 2 * s <= (n + h) * k /\ 2 * p <= k => 2 * (p + s) <= ((n + 1) + h) * k
           /\ (c * h + g - h) * k <= c * s =>
                 /\ p = k => (c * (h + 1) + (g + 1) - (h + 1)) * k <= c * (p + s)
                 /\ k <= c * p => (c * h + (g + 1) - h) * k <= c * (p + s)
                 /\ (c * h + g - h) * k <= c * (p + s)
<1>1. PICK m \in Nat : m = (n + h) * k
  OBVIOUS
<1>2. /\ ((n + 1) + (h + 1)) * k = m + 2 * k
      /\ ((n + 1) + h) * k = m + k
  BY <1>1
<1>3. PICK a \in Nat, b \in Nat, d \in Nat : a = c * h /\ b = c * s /\ d = c * p
  OBVIOUS
<1>4. c * (p + s) = d + b /\ c * (h + 1) = a + c
  BY <1>3
<1>5. PICK u \in Int : u = a + g - h
  OBVIOUS
<1>6. PICK v \in Int : v = u * k
  OBVIOUS
<1>7. a + c + (g + 1) - (h + 1) = u + c /\ a + (g + 1) - h = u + 1
  BY <1>5
<1>8. (u + c) * k = v + c * k /\ (u + 1) * k = v + k
  BY <1>6
<1>9. ASSUME v <= b PROVE /\ p = k => (c * (h + 1) + (g + 1) - (h + 1)) * k <= c * (p + s)
                          /\ k <= c * p => (c * h + (g + 1) - h) * k <= c * (p + s)
                          /\ (c * h + g - h) * k <= c * (p + s)
  <2>1. p = k => c * k = d
    BY <1>3
  <2>2. p = k => v + c * k <= d + b
    BY <1>9, <2>1
  <2>3. k <= d => v + k <= d + b
    BY <1>9
  <2>4. v <= d + b
    BY <1>9
  <2>5. c * (h + 1) + (g + 1) - (h + 1) = u + c
    BY <1>4, <1>7
  <2>6. c * h + (g + 1) - h = u + 1 /\ c * h + g - h = u
    BY <1>3, <1>5, <1>7
  <2>7. p = k => (c * (h + 1) + (g + 1) - (h + 1)) * k <= c * (p + s)
    BY <1>4, <1>8, <2>2, <2>5
  <2>8. k <= c * p => (c * h + (g + 1) - h) * k <= c * (p + s)
    BY <1>3, <1>4, <1>8, <2>3, <2>6
  <2> QED
    BY <1>4, <1>6, <2>4, <2>6, <2>7, <2>8
<1>10. (c * h + g - h) * k <= c * s => v <= b
  BY <1>3, <1>5, <1>6
<1>11. /\ 2 * s <= (n + h) * k /\ p = k => 2 * (p + s) <= ((n + 1) + (h + 1)) * k
       /\ 2 * s <= (n + h) * k /\ 2 * p <= k => 2 * (p + s) <= ((n + 1) + h) * k
  BY <1>1, <1>2
<1> QED
  BY <1>9, <1>10, <1>11

\* The sum of the MRR is that of one function, whatever the cases.
LEMMA RecipSum ==
    ASSUME limit \in 1 .. TopKMax, NEW D, IsFiniteSet(D), NEW of, \A i \in D : of[i] \in Nat
    PROVE  LET f == [i \in D |-> Share(of, i)]
           IN  /\ \A i \in D : f[i] = Share(of, i) /\ f[i] \in Nat
               /\ \A s \in SUBSET D : Reciprocals(of, s) = SumFunctionOnSet(f, s)
<1> DEFINE f == [i \in D |-> Share(of, i)]
<1>1. \A i \in D : f[i] = Share(of, i) /\ f[i] \in Nat
  BY ShareBounds
<1>2. ASSUME NEW s \in SUBSET D PROVE Reciprocals(of, s) = SumFunctionOnSet(f, s)
  <2> DEFINE g == [i \in s |-> Share(of, i)]
  <2>1. Reciprocals(of, s) = SumFunctionOnSet(g, s)
    BY DEF Reciprocals, SumFunction, Share
  <2>2. IsFiniteSet(s) /\ (\A i \in s : f[i] \in Nat) /\ (\A i \in s : g[i] = f[i])
    BY <1>1, FS_Subset
  <2> HIDE DEF f, g
  <2>3. SumFunctionOnSet(g, s) = SumFunctionOnSet(f, s)
    BY <2>2, SumSame
  <2> QED
    BY <2>1, <2>3
<1> QED
  BY <1>1, <1>2

\* One case more is one hit more, or none.
LEMMA HitsStep ==
    ASSUME NEW D, IsFiniteSet(D), NEW of, NEW c, NEW s \in SUBSET D, NEW x \in s
    PROVE  /\ Hits(of, s, c) \in Nat /\ Hits(of, s \ {x}, c) \in Nat
           /\ of[x] # NoRank /\ of[x] <= c => Hits(of, s, c) = Hits(of, s \ {x}, c) + 1
           /\ ~ (of[x] # NoRank /\ of[x] <= c) => Hits(of, s, c) = Hits(of, s \ {x}, c)
<1> DEFINE hit(i) == of[i] # NoRank /\ of[i] <= c
           A == {i \in s : hit(i)}
           B == {i \in s \ {x} : hit(i)}
<1>1. IsFiniteSet(A) /\ IsFiniteSet(B)
  BY FS_Subset
<1>2. Hits(of, s, c) = Cardinality(A) /\ Hits(of, s \ {x}, c) = Cardinality(B)
  BY DEF Hits
<1>3. Cardinality(A) \in Nat /\ Cardinality(B) \in Nat
  BY <1>1, FS_CardinalityType
<1>4. hit(x) => x \in A /\ A \ {x} = B
  OBVIOUS
<1>5. ~ hit(x) => A = B
  OBVIOUS
<1>6. hit(x) => Cardinality(B) = Cardinality(A) - 1
  BY <1>1, <1>4, FS_RemoveElement
<1> QED
  BY <1>2, <1>3, <1>5, <1>6

\* The sums of some cases respect the bounds.
Bounded(count, hits, mrr) ==
    /\ 2 * mrr <= (count + hits[1]) * Scale
    /\ \A c \in 1 .. limit : (c * hits[1] + hits[c] - hits[1]) * Scale <= c * mrr

\* No cases, and one more.
LEMMA MetricsBounded ==
    ASSUME limit \in 1 .. TopKMax, NEW D, IsFiniteSet(D), NEW of, \A i \in D : of[i] \in Nat,
           NEW s \in SUBSET D
    PROVE  /\ Cardinality(s) \in Nat /\ Reciprocals(of, s) \in Nat
           /\ \A c \in 1 .. limit : Hits(of, s, c) \in Nat
           /\ Bounded(Cardinality(s), [c \in 1 .. limit |-> Hits(of, s, c)], Reciprocals(of, s))
<1> DEFINE f == [i \in D |-> Share(of, i)]
           h(u) == [c \in 1 .. limit |-> Hits(of, u, c)]
           P == {u \in SUBSET D : Bounded(Cardinality(u), h(u), Reciprocals(of, u))}
<1>1. /\ \A i \in D : f[i] = Share(of, i) /\ f[i] \in Nat
      /\ \A u \in SUBSET D : Reciprocals(of, u) = SumFunctionOnSet(f, u)
  BY RecipSum
<1> HIDE DEF f
<1>2. ASSUME NEW u \in SUBSET D
      PROVE  /\ IsFiniteSet(u) /\ Cardinality(u) \in Nat /\ Reciprocals(of, u) \in Nat
             /\ \A c \in 1 .. limit : h(u)[c] = Hits(of, u, c) /\ h(u)[c] \in Nat
             /\ u = {} => Reciprocals(of, u) = 0 /\ \A c \in 1 .. limit : h(u)[c] = 0
             /\ \A x \in u : Reciprocals(of, u) = f[x] + Reciprocals(of, u \ {x})
  <2>1. IsFiniteSet(u) /\ (\A i \in u : f[i] \in Nat)
    BY <1>1, FS_Subset
  <2>2. Cardinality(u) \in Nat
    BY <2>1, FS_CardinalityType
  <2>3. /\ SumFunctionOnSet(f, u) \in Nat /\ SumFunctionOnSet(f, {}) = 0
        /\ \A x \in u : SumFunctionOnSet(f, u) = f[x] + SumFunctionOnSet(f, u \ {x})
    BY <2>1, SumOf
  <2>4. \A c : Hits(of, u, c) \in Nat /\ (u = {} => Hits(of, u, c) = 0)
    <3> TAKE c
    <3>1. IsFiniteSet({i \in u : of[i] # NoRank /\ of[i] <= c})
      BY <2>1, FS_Subset
    <3>2. u = {} => {i \in u : of[i] # NoRank /\ of[i] <= c} = {}
      OBVIOUS
    <3> QED
      BY <3>1, <3>2, FS_CardinalityType, FS_EmptySet DEF Hits
  <2>5. \A x \in u : u \ {x} \in SUBSET D
    OBVIOUS
  <2>6. \A x \in u : Reciprocals(of, u) = f[x] + Reciprocals(of, u \ {x})
    BY <1>1, <2>3, <2>5
  <2> QED
    BY <1>1, <2>1, <2>2, <2>3, <2>4, <2>6
<1>3. Scale \in Nat \ {0} /\ limit \in Nat /\ 1 \in 1 .. limit
  <2>1. TopKMax \in Nat
    BY SettingsAssumption DEF SettingsValid, AlgorithmConfigValid
  <2> QED
    BY <2>1, UnitAssumption
<1>4. ASSUME NEW u \in SUBSET D, \A x \in u : u \ {x} \in P PROVE u \in P
  <2> SUFFICES Bounded(Cardinality(u), h(u), Reciprocals(of, u))
    OBVIOUS
  <2>1. CASE u = {}
    <3>1. Cardinality(u) = 0
      BY <2>1, FS_EmptySet
    <3>2. Reciprocals(of, u) = 0 /\ \A c \in 1 .. limit : h(u)[c] = 0
      BY <1>2, <2>1
    <3> HIDE DEF h
    <3>3. 2 * Reciprocals(of, u) <= (Cardinality(u) + h(u)[1]) * Scale
      BY <1>3, <3>1, <3>2
    <3>4. ASSUME NEW c \in 1 .. limit
          PROVE  (c * h(u)[1] + h(u)[c] - h(u)[1]) * Scale <= c * Reciprocals(of, u)
      <4>1. h(u)[1] = 0 /\ h(u)[c] = 0
        BY <1>3, <3>2
      <4>2. c * 0 + 0 - 0 = 0 /\ 0 * Scale = 0 /\ c * 0 = 0
        BY <1>3
      <4>3. (c * 0 + 0 - 0) * Scale <= c * 0
        BY <4>2
      <4> QED
        BY <3>2, <4>1, <4>3
    <3> QED
      BY <3>3, <3>4 DEF Bounded
  <2>2. CASE u # {}
    <3>1. PICK x \in u : TRUE
      BY <2>2
    <3> DEFINE v == u \ {x}
    <3>2. v \in SUBSET D /\ of[x] \in Nat
      OBVIOUS
    <3>3. PICK n \in Nat, r \in Nat, p \in Nat :
             /\ n = Cardinality(v) /\ r = Reciprocals(of, v) /\ p = f[x]
             /\ Reciprocals(of, u) = p + r
      BY <1>1, <1>2, <3>2
    <3>4. Cardinality(u) = n + 1
      <4>1. Cardinality(v) = Cardinality(u) - 1 /\ Cardinality(u) \in Nat
        BY <1>2, FS_RemoveElement
      <4> QED
        BY <3>3, <4>1
    <3>5. Bounded(n, h(v), r)
      <4>1. v \in P
        BY <1>4
      <4> QED
        BY <3>3, <4>1
    <3>6. \A c \in 1 .. limit :
             /\ h(v)[c] \in Nat
             /\ of[x] # 0 /\ of[x] <= c => h(u)[c] = h(v)[c] + 1
             /\ ~ (of[x] # 0 /\ of[x] <= c) => h(u)[c] = h(v)[c]
      BY HitsStep DEF NoRank
    <3>7. /\ of[x] = 1 => p = Scale
          /\ of[x] # 1 => 2 * p <= Scale
          /\ \A c \in 1 .. limit : of[x] # 0 /\ of[x] <= c => Scale <= c * p
      BY <1>1, <3>2, <3>3, ShareBounds DEF NoRank
    <3> HIDE DEF h, v, P
    <3>8. of[x] = 1 => h(u)[1] = h(v)[1] + 1
      BY <1>3, <3>6
    <3>9. of[x] # 1 => h(u)[1] = h(v)[1]
      BY <1>3, <3>2, <3>6
    <3>10. 2 * (p + r) <= (Cardinality(u) + h(u)[1]) * Scale
      <4>1. 2 * r <= (n + h(v)[1]) * Scale /\ h(v)[1] \in Nat /\ Scale \in Nat
        BY <1>3, <3>5, <3>6 DEF Bounded
      <4>2. /\ p = Scale => 2 * (p + r) <= ((n + 1) + (h(v)[1] + 1)) * Scale
            /\ 2 * p <= Scale => 2 * (p + r) <= ((n + 1) + h(v)[1]) * Scale
        BY <4>1, OneMore
      <4>3. CASE of[x] = 1
        BY <3>4, <3>7, <3>8, <4>2, <4>3
      <4>4. CASE of[x] # 1
        BY <3>4, <3>7, <3>9, <4>2, <4>4
      <4> QED
        BY <4>3, <4>4
    <3>11. ASSUME NEW c \in 1 .. limit
           PROVE  (c * h(u)[1] + h(u)[c] - h(u)[1]) * Scale <= c * (p + r)
      <4>1. /\ (c * h(v)[1] + h(v)[c] - h(v)[1]) * Scale <= c * r
            /\ h(v)[1] \in Nat /\ h(v)[c] \in Nat /\ Scale \in Nat /\ c \in Nat
        BY <1>3, <3>5, <3>6 DEF Bounded
      <4>2. /\ p = Scale =>
                  (c * (h(v)[1] + 1) + (h(v)[c] + 1) - (h(v)[1] + 1)) * Scale <= c * (p + r)
            /\ Scale <= c * p =>
                  (c * h(v)[1] + (h(v)[c] + 1) - h(v)[1]) * Scale <= c * (p + r)
            /\ (c * h(v)[1] + h(v)[c] - h(v)[1]) * Scale <= c * (p + r)
        BY <4>1, OneMore
      <4>3. CASE of[x] = 1
        <5>1. h(u)[c] = h(v)[c] + 1
          BY <3>6, <4>3
        <5> QED
          BY <3>7, <3>8, <4>2, <4>3, <5>1
      <4>4. CASE of[x] # 1 /\ (of[x] # 0 /\ of[x] <= c)
        <5>1. h(u)[c] = h(v)[c] + 1 /\ h(u)[1] = h(v)[1] /\ Scale <= c * p
          BY <3>6, <3>7, <3>9, <4>4
        <5> QED
          BY <4>2, <5>1
      <4>5. CASE of[x] # 1 /\ ~ (of[x] # 0 /\ of[x] <= c)
        <5>1. h(u)[c] = h(v)[c] /\ h(u)[1] = h(v)[1]
          BY <3>6, <3>9, <4>5
        <5> QED
          BY <4>2, <5>1
      <4> QED
        BY <4>3, <4>4, <4>5
    <3> QED
      BY <3>3, <3>10, <3>11 DEF Bounded
  <2> QED
    BY <2>1, <2>2
<1>5. s \in P
  <2> HIDE DEF P
  <2>1. \A u \in SUBSET D : u \in P
    BY <1>4, Removing
  <2> QED
    BY <2>1
<1> QED
  BY <1>2, <1>5

\* The metrics of any cases agree with each other.
LEMMA CoherentMetrics ==
    ASSUME limit \in 1 .. TopKMax, NEW D, IsFiniteSet(D), NEW of, \A i \in D : of[i] \in Nat,
           NEW s \in SUBSET D
    PROVE  Coherent(RankMetrics(of, s))
<1> DEFINE C == {c \in Cutoffs : c <= limit}
           h == [c \in C |-> Hits(of, s, c)]
           b == [c \in 1 .. limit |-> Hits(of, s, c)]
           m == RankMetrics(of, s)
<1>1. /\ m.count = Cardinality(s) /\ m.mrr = Reciprocals(of, s) /\ m.hits = h
      /\ DOMAIN m.hits = C
  BY DEF RankMetrics
<1>2. limit \in Nat \ {0}
  <2>1. TopKMax \in Nat
    BY SettingsAssumption DEF SettingsValid, AlgorithmConfigValid
  <2> QED
    BY <2>1
<1>3. C \subseteq 1 .. limit /\ 1 \in C
  BY <1>2 DEF Cutoffs
<1>4. /\ \A c \in 1 .. limit : b[c] = Hits(of, s, c) /\ b[c] \in Nat
      /\ \A c \in C : h[c] = b[c]
      /\ Bounded(Cardinality(s), b, Reciprocals(of, s))
  BY <1>3, MetricsBounded
<1>5. ASSUME NEW c \in C, NEW d \in C, c <= d PROVE h[c] <= h[d]
  <2> DEFINE A == {i \in s : of[i] # NoRank /\ of[i] <= c}
             B == {i \in s : of[i] # NoRank /\ of[i] <= d}
  <2>1. \A i \in s : of[i] \in Nat
    OBVIOUS
  <2>2. A \subseteq B
    BY <1>3, <1>5, <2>1
  <2>3. IsFiniteSet(B)
    BY FS_Subset
  <2>4. Cardinality(A) <= Cardinality(B)
    BY <2>2, <2>3, FS_Subset
  <2> QED
    BY <2>4 DEF Hits
<1> HIDE DEF h, b, m, C
<1>6. 2 * m.mrr <= (m.count + m.hits[1]) * Scale
  BY <1>1, <1>3, <1>4 DEF Bounded
<1>7. \A c \in C : (c * m.hits[1] + m.hits[c] - m.hits[1]) * Scale <= c * m.mrr
  BY <1>1, <1>3, <1>4 DEF Bounded
<1>8. Coherent(m)
  BY <1>1, <1>5, <1>6, <1>7 DEF Coherent
<1> QED
  BY <1>8 DEF m

\* The values of a function on a finite set are finite in number.
LEMMA FiniteValues ==
    ASSUME NEW S, IsFiniteSet(S), NEW g
    PROVE  IsFiniteSet({g[x] : x \in S})
<1> DEFINE V(s) == {g[x] : x \in s}
           P == {s \in SUBSET S : IsFiniteSet(V(s))}
<1>1. ASSUME NEW s \in SUBSET S, \A x \in s : s \ {x} \in P PROVE s \in P
  <2>1. CASE s = {}
    <3>1. V(s) = {}
      BY <2>1
    <3> QED
      BY <3>1, FS_EmptySet
  <2>2. CASE s # {}
    <3>1. PICK x \in s : IsFiniteSet(V(s \ {x}))
      BY <1>1, <2>2
    <3>2. V(s) = V(s \ {x}) \cup {g[x]}
      OBVIOUS
    <3>3. IsFiniteSet(V(s))
      <4>1. PICK W, z : W = V(s \ {x}) /\ z = g[x]
        OBVIOUS
      <4> HIDE DEF V
      <4>2. IsFiniteSet(W) /\ V(s) = W \cup {z}
        BY <3>1, <3>2, <4>1
      <4>3. IsFiniteSet(W \cup {z})
        BY <4>2, FS_AddElement
      <4> QED
        BY <4>2, <4>3
    <3> QED
      BY <3>3
  <2> QED
    BY <2>1, <2>2
<1>2. S \in P
  <2> HIDE DEF P
  <2>1. \A s \in SUBSET S : s \in P
    BY <1>1, Removing
  <2> QED
    BY <2>1
<1> QED
  BY <1>2

\* What MetricsConsistent asks of one mode.
Agrees(m) ==
    /\ Coherent(m.whole) /\ \A t \in DOMAIN m.byStress : Coherent(m.byStress[t])
    /\ m.whole.count = SumFunction([t \in DOMAIN m.byStress |-> m.byStress[t].count])
    /\ m.whole.mrr = SumFunction([t \in DOMAIN m.byStress |-> m.byStress[t].mrr])
    /\ \A c \in DOMAIN m.whole.hits :
          m.whole.hits[c] = SumFunction([t \in DOMAIN m.byStress |-> m.byStress[t].hits[c]])

\* A summary agrees with itself: every case has one stress type.
LEMMA SummaryAgrees ==
    ASSUME limit \in 1 .. TopKMax, NEW n \in Nat, NEW of \in [1 .. n -> Nat]
    PROVE  /\ DOMAIN Summary(of).cases = 1 .. n
           /\ Summary(of).whole.count = n
           /\ Agrees(Summary(of))
<1> DEFINE D == 1 .. n
           key == [i \in D |-> cases[i].stress]
           T == {key[i] : i \in D}
           part(t) == {i \in D : key[i] = t}
           m == Summary(of)
<1>1. IsFiniteSet(D) /\ Cardinality(D) = n
  BY FS_Interval
<1>2. IsFiniteSet(T)
  BY <1>1, FiniteValues
<1>3. /\ m.cases = of /\ m.whole = RankMetrics(of, D)
      /\ DOMAIN m.byStress = T
      /\ \A t \in T : m.byStress[t] = RankMetrics(of, part(t))
  <2>1. DOMAIN of = D /\ \A i \in D : key[i] = cases[i].stress
    OBVIOUS
  <2>2. T = {cases[i].stress : i \in D}
    OBVIOUS
  <2>3. \A t : part(t) = {i \in D : cases[i].stress = t}
    OBVIOUS
  <2> HIDE DEF D, T, part
  <2>4. m = [whole    |-> RankMetrics(of, D),
             byStress |-> [t \in T |-> RankMetrics(of, part(t))],
             cases    |-> of]
    BY <2>1, <2>2, <2>3 DEF Summary
  <2> QED
    BY <2>4
<1>4. \A s : /\ RankMetrics(of, s).count = Cardinality(s)
             /\ RankMetrics(of, s).mrr = Reciprocals(of, s)
             /\ DOMAIN RankMetrics(of, s).hits = {c \in Cutoffs : c <= limit}
             /\ \A c \in DOMAIN RankMetrics(of, s).hits :
                   RankMetrics(of, s).hits[c] = Hits(of, s, c)
  BY DEF RankMetrics
<1>5. \A i \in D : of[i] \in Nat /\ key[i] \in T
  OBVIOUS
<1>6. \A t : part(t) \in SUBSET D /\ D \in SUBSET D
  OBVIOUS
<1>7. Coherent(m.whole) /\ \A t \in T : Coherent(m.byStress[t])
  <2>1. \A s \in SUBSET D : Coherent(RankMetrics(of, s))
    BY <1>1, <1>5, CoherentMetrics
  <2> QED
    BY <1>3, <1>6, <2>1
<1>8. m.whole.count = SumFunction([t \in DOMAIN m.byStress |-> m.byStress[t].count])
  <2> DEFINE g == [t \in DOMAIN m.byStress |-> m.byStress[t].count]
  <2>1. DOMAIN g = T /\ \A t \in T : g[t] = Cardinality({i \in D : key[i] = t})
    BY <1>3, <1>4
  <2> HIDE DEF g, T, D, key, m
  <2>2. SumFunctionOnSet(g, T) = Cardinality(D)
    BY <1>1, <1>2, <1>5, <2>1, CountParts
  <2>3. m.whole.count = Cardinality(D)
    BY <1>3, <1>4
  <2> QED
    BY <2>1, <2>2, <2>3 DEF SumFunction, g
<1>9. m.whole.mrr = SumFunction([t \in DOMAIN m.byStress |-> m.byStress[t].mrr])
  <2> DEFINE f == [i \in D |-> Share(of, i)]
  <2>1. /\ \A i \in D : f[i] \in Nat
        /\ \A s \in SUBSET D : Reciprocals(of, s) = SumFunctionOnSet(f, s)
    <3> HIDE DEF D
    <3> QED
      BY <1>1, <1>5, RecipSum
  <2>2. [t \in DOMAIN m.byStress |-> m.byStress[t].mrr]
           = [t \in T |-> SumFunctionOnSet(f, part(t))]
    <3> HIDE DEF f, T, D, part, m
    <3>1. \A t \in T : m.byStress[t].mrr = SumFunctionOnSet(f, part(t))
      BY <1>3, <1>4, <1>6, <2>1
    <3> QED
      BY <1>3, <3>1
  <2>3. {i \in D : key[i] \in T} = D
    BY <1>5
  <2>4. SumFunctionOnSet([t \in T |-> SumFunctionOnSet(f, {i \in D : key[i] = t})], T)
           = SumFunctionOnSet(f, {i \in D : key[i] \in T})
    <3> HIDE DEF key, T, D, f
    <3> QED
      BY <1>1, <1>2, <2>1, SumParts
  <2> HIDE DEF f
  <2>5. SumFunctionOnSet([t \in T |-> SumFunctionOnSet(f, part(t))], T) = SumFunctionOnSet(f, D)
    BY <2>3, <2>4
  <2>6. DOMAIN [t \in T |-> SumFunctionOnSet(f, part(t))] = T
    OBVIOUS
  <2> HIDE DEF T, D, part, m
  <2>7. m.whole.mrr = SumFunctionOnSet(f, D)
    BY <1>3, <1>4, <1>6, <2>1
  <2> QED
    BY <2>2, <2>5, <2>6, <2>7 DEF SumFunction
<1>10. ASSUME NEW c \in DOMAIN m.whole.hits
       PROVE  m.whole.hits[c]
                 = SumFunction([t \in DOMAIN m.byStress |-> m.byStress[t].hits[c]])
  <2> DEFINE hit(i) == of[i] # NoRank /\ of[i] <= c
             H == {i \in D : hit(i)}
  <2>1. c \in {d \in Cutoffs : d <= limit}
    BY <1>3, <1>4
  <2> DEFINE g == [t \in DOMAIN m.byStress |-> m.byStress[t].hits[c]]
  <2>2. DOMAIN g = T /\ \A t \in T : g[t] = Cardinality({i \in H : key[i] = t})
    <3>1. ASSUME NEW t \in T PROVE m.byStress[t].hits[c] = Cardinality({i \in H : key[i] = t})
      <4>1. {i \in part(t) : hit(i)} = {i \in H : key[i] = t}
        OBVIOUS
      <4>2. m.byStress[t].hits[c] = Hits(of, part(t), c)
        <5> HIDE DEF m, T, D, part
        <5> QED
          BY <1>3, <1>4, <2>1
      <4> QED
        BY <4>1, <4>2 DEF Hits
    <3> QED
      BY <1>3, <3>1
  <2>3. IsFiniteSet(H) /\ \A i \in H : key[i] \in T
    BY <1>1, <1>5, FS_Subset
  <2>4. m.whole.hits[c] = Cardinality(H)
    BY <1>3, <1>4, <2>1 DEF Hits
  <2> HIDE DEF g, T, D, H, m, key
  <2>5. SumFunctionOnSet(g, T) = Cardinality(H)
    BY <1>2, <2>2, <2>3, CountParts
  <2> QED
    BY <2>2, <2>4, <2>5 DEF SumFunction, g
<1> HIDE DEF m, T, D
<1>11. Agrees(m)
  BY <1>3, <1>7, <1>8, <1>9, <1>10 DEF Agrees
<1>12. DOMAIN m.cases = 1 .. n /\ m.whole.count = n
  BY <1>1, <1>3, <1>4 DEF D
<1> QED
  BY <1>11, <1>12 DEF m

-----------------------------------------------------------------------------
(* The inductive invariant of a process.                                   *)

\* What Retrieval's proofs show of a search, whoever drives it.
SearchSound == IInv /\ CountInv /\ FusionSound /\ DiverseInv

\* The cases measured in both modes.
Measured == IF job \in {"baseline", "hybrid"} THEN turn - 1 ELSE turn

JobTyped ==
    /\ job \in {"serving", "load", "next", "baseline", "hybrid", "done", "failed"}
    /\ cases \in Seq(Case)
    /\ turn \in 0 .. Len(cases)
    /\ limit \in 0 .. TopKMax + 1
    /\ denseRank \in Nat

\* Unless the job fails, both modes have a rank for each case measured.
RanksSound ==
    job # "failed" => \A mode \in Modes : ranks[mode] \in [1 .. Measured -> Nat]

\* There are cases once they are loaded, and no case is searched for with a limit
\* that the service refuses.
LimitSound ==
    /\ job \in {"serving", "load"} => turn = 0
    /\ job \in {"next", "baseline", "hybrid", "done"} =>
          /\ cases # <<>> /\ limit > 0
          /\ turn > 0 => limit <= TopKMax
    /\ job \in {"baseline", "hybrid"} => turn > 0

\* A job never gets as far as the context groups.
NothingExpanded ==
    job \in {"baseline", "hybrid"} => groups = <<>> /\ used = {} /\ pending = {}

\* The result file summarises all ranks of both modes.
ResultSound ==
    /\ job = "done" => turn = Len(cases)
    /\ result # NoResult =>
          /\ job = "done"
          /\ result = [case_count |-> Len(cases),
                       modes |-> [mode \in Modes |-> Summary(ranks[mode])]]

JobSound == JobTyped /\ RanksSound /\ LimitSound /\ NothingExpanded /\ ResultSound

JInv == SearchSound /\ JobSound

\* A first rank is a place or none.
LEMMA FirstRankType ==
    ASSUME NEW list \in Seq(Chunk), NEW relevant
    PROVE  FirstRank(list, relevant) \in Nat
<1> DEFINE hits == {i \in DOMAIN list : list[i] \in relevant}
<1>1. hits \in SUBSET Nat
  OBVIOUS
<1>2. CASE hits = {}
  BY <1>2 DEF FirstRank, NoRank
<1>3. CASE hits # {}
  <2> HIDE DEF hits
  <2>1. PICK m \in hits : \A i \in hits : m <= i
    BY <1>1, <1>3, LeastNumber
  <2>2. Min(hits) \in hits
    BY <2>1 DEF Min
  <2>3. FirstRank(list, relevant) = Min(hits)
    BY <1>3 DEF FirstRank, hits
  <2> QED
    BY <1>1, <2>2, <2>3
<1> QED
  BY <1>2, <1>3

\* A process that has not begun.
LEMMA JobInitInv == JobInit => JInv
<1> SUFFICES ASSUME JobInit PROVE JInv
  OBVIOUS
<1>1. Init
  BY DEF JobInit
<1>2. SearchSound
  <2>1. IInv
    BY <1>1, InitInv
  <2>2. CountInv /\ FusionSound /\ DiverseInv
    BY <1>1 DEF Init, CountInv, EnoughCores, FusionSound, DiverseInv, Diverse
  <2> QED
    BY <2>1, <2>2 DEF SearchSound
<1>3. TopKMax \in Nat
  BY SettingsAssumption DEF SettingsValid, AlgorithmConfigValid
<1>4. /\ job \in {"serving", "load"} /\ cases = <<>> /\ turn = 0
      /\ limit \in 0 .. TopKMax + 1 /\ denseRank = 0 /\ result = NoResult
      /\ \A mode \in Modes : ranks[mode] = <<>>
  BY <1>3 DEF JobInit, NoRank
<1>5. JobTyped
  BY <1>4 DEF JobTyped
<1>6. RanksSound
  <2>1. Measured = 0
    BY <1>4 DEF Measured
  <2>2. <<>> \in [1 .. 0 -> Nat]
    OBVIOUS
  <2> QED
    BY <1>4, <2>1, <2>2 DEF RanksSound
<1>7. LimitSound /\ NothingExpanded /\ ResultSound
  BY <1>4 DEF LimitSound, NothingExpanded, ResultSound
<1> QED
  BY <1>2, <1>5, <1>6, <1>7 DEF JInv, JobSound

\* A step of the service keeps what is known of its searches.
LEMMA SearchNext == SearchSound /\ [Next]_vars => SearchSound'
BY NextInv, NextCount, NextFusion, NextDiverse DEF SearchSound

\* RecordCase ends a search without its groups.
LEMMA RecordSearch ==
    ASSUME SearchSound, NothingExpanded, RecordCase
    PROVE  SearchSound'
<1>1. /\ job = "hybrid" /\ phase = "expand" /\ phase' = "idle" /\ cores' = <<>>
      /\ UNCHANGED <<index, topK, dense, lexical, candidates, sim>>
      /\ UNCHANGED <<groups, pending, used, spent, answer>>
  BY DEF RecordCase, ranking, assembly
<1>2. IInv /\ TypeOK /\ CountInv /\ FusionSound
  BY DEF SearchSound, IInv
<1>3. groups' = <<>> /\ used' = {} /\ pending' = {}
  BY <1>1 DEF NothingExpanded
<1>4. Assembled'
  BY <1>1, <1>3, Cleared
<1>5. TypeOK'
  BY <1>1, <1>2 DEF TypeOK, Phases
<1>6. PhaseSound'
  BY <1>1, <1>3 DEF PhaseSound
<1>7. IInv'
  BY <1>4, <1>5, <1>6 DEF IInv, Assembled
<1>8. CountInv'
  BY <1>1, <1>2 DEF CountInv, EnoughCores
<1>9. FusionSound'
  BY <1>1, <1>2 DEF FusionSound
<1>10. DiverseInv'
  BY <1>1 DEF DiverseInv, Diverse
<1> QED
  BY <1>7, <1>8, <1>9, <1>10 DEF SearchSound

\* Every other step leaves the search alone or is one of the service's.
LEMMA JobSearch == JInv /\ [JobNext]_allVars => SearchSound'
<1> SUFFICES ASSUME JInv, [JobNext]_allVars PROVE SearchSound'
  OBVIOUS
<1>1. SearchSound /\ NothingExpanded /\ limit \in 0 .. TopKMax + 1
  BY DEF JInv, JobSound, JobTyped
<1>2. CASE RecordCase
  BY <1>1, <1>2, RecordSearch
<1>3. CASE StartCase
  BY <1>1, <1>3, SearchNext DEF StartCase, Next
<1>4. CASE HybridStep
  BY <1>1, <1>4, SearchNext DEF HybridStep, Next
<1>5. CASE CaseFails
  BY <1>1, <1>5, SearchNext DEF CaseFails, Next
<1>6. CASE job = "serving" /\ Next /\ UNCHANGED jobVars
  BY <1>1, <1>6, SearchNext
<1>7. CASE LoadCases \/ QueryBaseline \/ WriteResult \/ Exited \/ UNCHANGED allVars
  <2>1. UNCHANGED vars
    BY <1>7 DEF LoadCases, QueryBaseline, WriteResult, Exited, allVars
  <2> QED
    BY <1>1, <2>1, SearchNext
<1> QED
  BY <1>2, <1>3, <1>4, <1>5, <1>6, <1>7 DEF JobNext

\* As long as there is no result, ResultSound asks for none.
LEMMA NoResultYet ==
    ASSUME JInv, job # "done", result' = result, job' # "done"
    PROVE  ResultSound'
BY DEF JInv, JobSound, ResultSound

\* The cases are there; none is measured yet.
LEMMA LoadCasesSound == ASSUME JInv, LoadCases PROVE JobSound'
<1>1. /\ job = "load" /\ UNCHANGED <<vars, turn, limit, denseRank, ranks, result>>
      /\ \/ limit > 0 /\ cases' \in CaseFiles /\ job' = "next"
         \/ job' = "failed" /\ cases' = cases
  BY DEF LoadCases
<1>2. JobTyped /\ RanksSound /\ LimitSound
  BY DEF JInv, JobSound
<1>3. turn = 0
  BY <1>1, <1>2 DEF LimitSound
<1>4. cases' \in Seq(Case) /\ (job' = "next" => cases' # <<>>)
  BY <1>1, <1>2, CaseAssumption DEF JobTyped
<1>5. JobTyped'
  <2>1. turn' \in 0 .. Len(cases')
    BY <1>1, <1>3, <1>4
  <2> QED
    BY <1>1, <1>2, <1>4, <2>1 DEF JobTyped
<1>6. RanksSound'
  <2>1. Measured' = Measured /\ job # "failed"
    BY <1>1 DEF Measured
  <2> QED
    BY <1>1, <1>2, <2>1 DEF RanksSound
<1>7. LimitSound'
  BY <1>1, <1>3, <1>4 DEF LimitSound
<1>8. NothingExpanded' /\ ResultSound'
  BY <1>1, NoResultYet DEF NothingExpanded
<1> QED
  BY <1>5, <1>6, <1>7, <1>8 DEF JobSound

\* A case begins with a limit the service admits, or the job has failed.
LEMMA StartCaseSound == ASSUME JInv, StartCase PROVE JobSound'
<1>1. /\ job = "next" /\ turn < Len(cases) /\ Request(limit) /\ turn' = turn + 1
      /\ job' = IF answer' = "rejected" THEN "failed" ELSE "baseline"
      /\ UNCHANGED <<cases, limit, denseRank, ranks, result>>
  BY DEF StartCase
<1>2. /\ JobTyped /\ RanksSound /\ LimitSound /\ PhaseSound
  BY DEF JInv, JobSound, SearchSound, IInv
<1>3. /\ groups' = <<>> /\ used' = {} /\ pending' = {}
      /\ job' = "baseline" => limit \in 1 .. TopKMax
  BY <1>1, <1>2 DEF Request, PhaseSound
<1>4. turn \in Nat /\ Len(cases) \in Nat /\ TopKMax \in Nat
  BY <1>2, SettingsAssumption DEF JobTyped, SettingsValid, AlgorithmConfigValid
<1>5. JobTyped'
  BY <1>1, <1>2, <1>4 DEF JobTyped
<1>6. RanksSound'
  <2>1. job' # "failed" => Measured' = Measured
    BY <1>1, <1>4 DEF Measured
  <2> QED
    BY <1>1, <1>2, <2>1 DEF RanksSound
<1>7. LimitSound'
  BY <1>1, <1>2, <1>3, <1>4 DEF LimitSound
<1>8. NothingExpanded' /\ ResultSound'
  BY <1>1, <1>3, NoResultYet DEF NothingExpanded
<1> QED
  BY <1>5, <1>6, <1>7, <1>8 DEF JobSound

\* The baseline's rank is a number.
LEMMA QueryBaselineSound == ASSUME JInv, QueryBaseline PROVE JobSound'
<1>1. /\ job = "baseline" /\ job' = "hybrid"
      /\ UNCHANGED <<vars, cases, turn, limit, ranks, result>>
  BY DEF QueryBaseline
<1>2. /\ JobTyped /\ RanksSound /\ LimitSound /\ NothingExpanded /\ TypeOK
  BY DEF JInv, JobSound, SearchSound, IInv
<1>3. denseRank' \in Nat
  <2> DEFINE size == Min({topK, Cardinality(Chunk)})
  <2>1. topK \in Nat
    BY <1>2 DEF TypeOK
  <2>2. size \in Nat
    BY <2>1, ChunkCount, MinOfTwo
  <2>3. PICK list \in Rankings({size}) : denseRank' = FirstRank(list, cases[turn].relevant)
    BY DEF QueryBaseline
  <2> HIDE DEF size
  <2>4. list \in Seq(Chunk)
    BY <2>2, RankingType
  <2> QED
    BY <2>3, <2>4, FirstRankType
<1>4. JobTyped'
  BY <1>1, <1>2, <1>3 DEF JobTyped
<1>5. RanksSound'
  <2>1. Measured' = Measured
    BY <1>1 DEF Measured
  <2> QED
    BY <1>1, <1>2, <2>1 DEF RanksSound
<1>6. LimitSound' /\ NothingExpanded'
  BY <1>1, <1>2 DEF LimitSound, NothingExpanded, vars, assembly
<1>7. ResultSound'
  BY <1>1, NoResultYet
<1> QED
  BY <1>4, <1>5, <1>6, <1>7 DEF JobSound

\* The steps of the search do not concern the job.
LEMMA HybridStepSound == ASSUME JInv, HybridStep PROVE JobSound'
<1>1. /\ job = "hybrid" /\ UNCHANGED jobVars
      /\ QueryDense \/ QueryBm25 \/ FetchVectors \/ SelectNext \/ Selected
  BY DEF HybridStep
<1>2. UNCHANGED <<groups, pending, used>>
  BY <1>1 DEF QueryDense, QueryBm25, FetchVectors, SelectNext, Selected, assembly
<1>3. /\ JobTyped /\ RanksSound /\ LimitSound /\ NothingExpanded
  BY DEF JInv, JobSound
<1>4. JobTyped' /\ LimitSound' /\ NothingExpanded'
  BY <1>1, <1>2, <1>3 DEF jobVars, JobTyped, LimitSound, NothingExpanded
<1>5. RanksSound'
  <2>1. Measured' = Measured
    BY <1>1 DEF jobVars, Measured
  <2> QED
    BY <1>1, <1>3, <2>1 DEF jobVars, RanksSound
<1>6. ResultSound'
  BY <1>1, NoResultYet DEF jobVars
<1> QED
  BY <1>4, <1>5, <1>6 DEF JobSound

\* One more rank.
LEMMA RecordedType ==
    ASSUME turn \in Nat \ {0}, NEW of \in [1 .. turn - 1 -> Nat], NEW rank \in Nat
    PROVE  Recorded(of, rank) \in [1 .. turn -> Nat]
<1>1. DOMAIN of \cup {turn} = 1 .. turn
  OBVIOUS
<1>2. \A i \in 1 .. turn : i # turn => of[i] \in Nat
  OBVIOUS
<1> QED
  BY <1>1, <1>2 DEF Recorded

\* Both modes have one rank more.
LEMMA RecordCaseSound == ASSUME JInv, RecordCase PROVE JobSound'
<1>1. /\ job = "hybrid" /\ job' = "next" /\ denseRank' = NoRank
      /\ ranks' = [dense  |-> Recorded(ranks.dense, denseRank),
                   hybrid |-> Recorded(ranks.hybrid, FirstRank(cores, cases[turn].relevant))]
      /\ UNCHANGED <<cases, turn, limit, result>>
  BY DEF RecordCase
<1>2. /\ JobTyped /\ RanksSound /\ LimitSound /\ TypeOK
  BY DEF JInv, JobSound, SearchSound, IInv
<1>3. /\ turn \in Nat \ {0} /\ denseRank \in Nat
      /\ FirstRank(cores, cases[turn].relevant) \in Nat
  BY <1>1, <1>2, FirstRankType DEF JobTyped, LimitSound, TypeOK
<1>4. JobTyped' /\ LimitSound' /\ NothingExpanded'
  BY <1>1, <1>2 DEF JobTyped, LimitSound, NothingExpanded, NoRank
<1>5. RanksSound'
  <2>1. Measured = turn - 1 /\ Measured' = turn
    BY <1>1 DEF Measured
  <2>2. ranks["dense"] \in [1 .. turn - 1 -> Nat] /\ ranks["hybrid"] \in [1 .. turn - 1 -> Nat]
    BY <1>1, <1>2, <2>1 DEF RanksSound, Modes
  <2>3. /\ Recorded(ranks.dense, denseRank) \in [1 .. turn -> Nat]
        /\ Recorded(ranks.hybrid, FirstRank(cores, cases[turn].relevant)) \in [1 .. turn -> Nat]
    BY <1>3, <2>2, RecordedType
  <2>4. ranks'["dense"] \in [1 .. turn -> Nat] /\ ranks'["hybrid"] \in [1 .. turn -> Nat]
    BY <1>1, <2>3
  <2> QED
    BY <2>1, <2>4 DEF RanksSound, Modes
<1>6. ResultSound'
  BY <1>1, NoResultYet
<1> QED
  BY <1>4, <1>5, <1>6 DEF JobSound

\* The result is the summary of all ranks.
LEMMA WriteResultSound == ASSUME JInv, WriteResult PROVE JobSound'
<1>1. /\ job = "next" /\ turn = Len(cases)
      /\ UNCHANGED <<vars, cases, turn, limit, denseRank, ranks>>
      /\ \/ /\ result' = [case_count |-> Len(cases),
                          modes |-> [mode \in Modes |-> Summary(ranks[mode])]]
            /\ job' = "done"
         \/ job' = "failed" /\ result' = result
  BY DEF WriteResult
<1>2. /\ JobTyped /\ RanksSound /\ LimitSound
  BY DEF JInv, JobSound
<1>3. JobTyped' /\ LimitSound' /\ NothingExpanded'
  BY <1>1, <1>2 DEF JobTyped, LimitSound, NothingExpanded
<1>4. RanksSound'
  <2>1. Measured' = Measured
    BY <1>1 DEF Measured
  <2> QED
    BY <1>1, <1>2, <2>1 DEF RanksSound
<1>5. ResultSound'
  <2>1. CASE job' = "failed"
    BY <1>1, <2>1, NoResultYet
  <2>2. CASE job' = "done"
    <3>1. \A mode \in Modes : Summary(ranks[mode])' = Summary(ranks[mode])
      BY <1>1 DEF Summary, RankMetrics, Hits, Reciprocals
    <3>2. [mode \in Modes |-> Summary(ranks[mode])]' = [mode \in Modes |-> Summary(ranks[mode])]
      BY <3>1
    <3>3. result' = [case_count |-> Len(cases),
                     modes |-> [mode \in Modes |-> Summary(ranks[mode])]]'
      BY <1>1, <2>2, <3>2
    <3> QED
      BY <1>1, <2>2, <3>3 DEF ResultSound
  <2> QED
    BY <1>1, <2>1, <2>2
<1> QED
  BY <1>3, <1>4, <1>5 DEF JobSound

\* A step that changes nothing.
LEMMA JobKept == ASSUME JInv, UNCHANGED allVars PROVE JobSound'
<1>1. UNCHANGED <<job, cases, turn, limit, denseRank, ranks, result, groups, pending, used>>
  BY DEF allVars, jobVars, vars, assembly
<1>2. JobTyped /\ RanksSound /\ LimitSound /\ NothingExpanded /\ ResultSound
  BY DEF JInv, JobSound
<1>3. JobTyped' /\ LimitSound' /\ NothingExpanded'
  BY <1>1, <1>2 DEF JobTyped, LimitSound, NothingExpanded
<1>4. RanksSound'
  <2>1. Measured' = Measured
    BY <1>1 DEF Measured
  <2> QED
    BY <1>1, <1>2, <2>1 DEF RanksSound
<1>5. ResultSound'
  <2>1. [mode \in Modes |-> Summary(ranks[mode])]' = [mode \in Modes |-> Summary(ranks[mode])]
    BY <1>1 DEF Summary, RankMetrics, Hits, Reciprocals
  <2>2. ASSUME result # NoResult
        PROVE  result = [case_count |-> Len(cases),
                         modes |-> [mode \in Modes |-> Summary(ranks[mode])]]'
    BY <1>1, <1>2, <2>1, <2>2 DEF ResultSound
  <2> QED
    BY <1>1, <1>2, <2>2 DEF ResultSound
<1> QED
  BY <1>3, <1>4, <1>5 DEF JobSound

\* A job that failed has no result.
LEMMA CaseFailsSound == ASSUME JInv, CaseFails PROVE JobSound'
<1>1. /\ job \in {"baseline", "hybrid"} /\ job' = "failed"
      /\ UNCHANGED <<cases, turn, limit, denseRank, ranks, result>>
  BY DEF CaseFails
<1>2. JobTyped
  BY DEF JInv, JobSound
<1>3. JobTyped' /\ LimitSound' /\ NothingExpanded' /\ RanksSound'
  BY <1>1, <1>2 DEF JobTyped, LimitSound, NothingExpanded, RanksSound
<1>4. ResultSound'
  BY <1>1, NoResultYet
<1> QED
  BY <1>3, <1>4 DEF JobSound

\* The web service has neither cases nor a result.
LEMMA ServingSound == ASSUME JInv, job = "serving", UNCHANGED jobVars PROVE JobSound'
<1>1. UNCHANGED <<job, cases, turn, limit, denseRank, ranks, result>>
  BY DEF jobVars
<1>2. JobTyped /\ RanksSound /\ LimitSound
  BY DEF JInv, JobSound
<1>3. JobTyped' /\ LimitSound' /\ NothingExpanded'
  BY <1>1, <1>2 DEF JobTyped, LimitSound, NothingExpanded
<1>4. RanksSound'
  <2>1. Measured' = Measured
    BY <1>1 DEF Measured
  <2> QED
    BY <1>1, <1>2, <2>1 DEF RanksSound
<1>5. ResultSound'
  BY <1>1, NoResultYet
<1> QED
  BY <1>3, <1>4, <1>5 DEF JobSound

\* Every step of a process keeps the invariant.
LEMMA JobNextInv == JInv /\ [JobNext]_allVars => JInv'
<1> SUFFICES ASSUME JInv, [JobNext]_allVars PROVE JInv'
  OBVIOUS
<1>1. SearchSound'
  BY JobSearch
<1>2. JobSound'
  <2>1. ASSUME Exited PROVE UNCHANGED allVars
    BY <2>1 DEF Exited
  <2> QED
    BY <2>1, LoadCasesSound, StartCaseSound, QueryBaselineSound, HybridStepSound,
       RecordCaseSound, CaseFailsSound, WriteResultSound, JobKept, ServingSound DEF JobNext
<1> QED
  BY <1>1, <1>2 DEF JInv, JobSound

\* The invariant holds in every reachable state, of a job as of the web service.
THEOREM JobInvariance == JobSpec => []JInv
<1> QED
  BY JobInitInv, JobNextInv, PTL DEF JobSpec

-----------------------------------------------------------------------------
(* The results.                                                            *)

\* The limit and the ranks behind a result.
LEMMA ResultOf ==
    ASSUME JInv, result # NoResult
    PROVE  /\ job = "done" /\ limit \in 1 .. TopKMax /\ Len(cases) \in Nat
           /\ result.case_count = Len(cases)
           /\ \A mode \in Modes : /\ ranks[mode] \in [1 .. Len(cases) -> Nat]
                                  /\ result.modes[mode] = Summary(ranks[mode])
<1>1. /\ job = "done" /\ turn = Len(cases)
      /\ result = [case_count |-> Len(cases),
                   modes |-> [mode \in Modes |-> Summary(ranks[mode])]]
  BY DEF JInv, JobSound, ResultSound
<1>2. JobTyped /\ RanksSound /\ LimitSound
  BY DEF JInv, JobSound
<1>3. cases \in Seq(Case) /\ cases # <<>> /\ limit \in Nat /\ limit > 0
  BY <1>1, <1>2, SettingsAssumption DEF JobTyped, LimitSound, SettingsValid, AlgorithmConfigValid
<1>4. Len(cases) \in Nat \ {0}
  BY <1>3
<1>5. limit \in 1 .. TopKMax
  BY <1>1, <1>2, <1>3, <1>4, SettingsAssumption DEF LimitSound, SettingsValid, AlgorithmConfigValid
<1>6. \A mode \in Modes : ranks[mode] \in [1 .. Len(cases) -> Nat]
  BY <1>1, <1>2 DEF RanksSound, Measured
<1> QED
  BY <1>1, <1>4, <1>5, <1>6

\* ResultWhole: a result covers every case of its file in both modes, and a job that
\* failed leaves none (evaluate_cases, write_evaluation_result).
THEOREM ResultsCovered == JobSpec => []ResultWhole
<1>1. ASSUME JInv PROVE ResultWhole
  <2>1. ASSUME result # NoResult, NEW mode \in Modes
        PROVE  /\ DOMAIN result.modes[mode].cases = 1 .. result.case_count
               /\ result.modes[mode].whole.count = result.case_count
    BY <1>1, <2>1, ResultOf, SummaryAgrees
  <2>2. job = "failed" => result = NoResult
    BY <1>1, ResultOf
  <2> QED
    BY <2>1, <2>2 DEF ResultWhole
<1> QED
  BY <1>1, JobInvariance, PTL

\* MetricsConsistent: whatever the ranks, the metrics of a result agree with each
\* other and the stress types add up to the whole (_rank_metrics, _summarize_mode).
THEOREM MetricsAgree == JobSpec => []MetricsConsistent
<1>1. ASSUME JInv PROVE MetricsConsistent
  <2>1. ASSUME result # NoResult, NEW mode \in Modes PROVE Agrees(result.modes[mode])
    BY <1>1, <2>1, ResultOf, SummaryAgrees
  <2> QED
    BY <2>1 DEF MetricsConsistent, Agrees
<1> QED
  BY <1>1, JobInvariance, PTL

\* The searches of an evaluation keep what those of the web service keep, RecordCase
\* included, which drops one before its context groups.
THEOREM SearchesSound ==
    JobSpec => [](/\ TypeOK /\ RankedByBoth /\ Diverse /\ EnoughCores
                  /\ NoChunkTwice /\ BudgetKept /\ NothingMissed)
<1>1. JInv => /\ TypeOK /\ RankedByBoth /\ Diverse /\ EnoughCores
              /\ NoChunkTwice /\ BudgetKept /\ NothingMissed
  BY GroupsSound, FusionRanks DEF JInv, JobSound, SearchSound, IInv, CountInv, DiverseInv
<1> QED
  BY <1>1, JobInvariance, PTL
=============================================================================
