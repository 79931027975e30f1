-------------------------- MODULE Retrieval_proofs --------------------------
(***************************************************************************)
(* Proofs about Retrieval, for every index, configuration, number of       *)
(* cores, similarity and ranking, with and without failing calls.          *)
(***************************************************************************)
EXTENDS Retrieval, TLAPS, FiniteSetTheorems

-----------------------------------------------------------------------------
(* The inductive invariant.                                                *)

\* The cores of a search appear with the MMR loop and the groups after it.
PhaseSound ==
    /\ phase \in {"dense", "bm25", "vectors"} => cores = <<>>
    /\ phase \notin {"expand", "idle"} => groups = <<>> /\ used = {}
    /\ phase # "expand" => pending = {}

\* No core is selected twice, and the groups follow the cores.
CoresSound ==
    /\ \A i, j \in 1 .. Len(cores) : cores[i] = cores[j] => i = j
    /\ Len(groups) <= Len(cores)
    /\ \A i \in 1 .. Len(groups) : groups[i].core = cores[i]

\* used_extensions holds exactly the extensions of the groups; none is a core
\* and none is in two groups.
UsedSound ==
    /\ \A n \in used : \E i \in 1 .. Len(groups) : n \in groups[i].extensions
    /\ \A i \in 1 .. Len(groups) : /\ groups[i].extensions \subseteq used
                                   /\ groups[i].extensions \cap Range(cores) = {}
    /\ \A i, j \in 1 .. Len(groups) :
          i # j => groups[i].extensions \cap groups[j].extensions = {}

\* A group is within the budget, and every related neighbour of its core is
\* explained or still to be considered.
GroupSound(i) ==
    LET g == groups[i]
    IN  /\ g.extensions \subseteq Neighbours(g.core)
        /\ \A a, b \in g.extensions :
              index.tokens[g.core] + index.tokens[a]
                  + (IF a = b THEN 0 ELSE index.tokens[b]) <= ContextBudget
        /\ Expandable(g.core) => \A n \in Neighbours(g.core) :
              Related(g.core, n) => Explained(i, n) \/ (i = Len(groups) /\ n \in pending)

\* While a neighbour is pending, at most one was taken, and spent is the sum.
PendingSound ==
    pending # {} =>
        /\ groups # <<>>
        /\ LET g == groups[Len(groups)]
           IN  /\ pending \subseteq Neighbours(g.core)
               /\ pending \cap g.extensions = {}
               /\ \/ g.extensions = {} /\ spent = index.tokens[g.core]
                  \/ \E a \in g.extensions :
                        /\ g.extensions = {a}
                        /\ spent = index.tokens[g.core] + index.tokens[a]

IInv == /\ TypeOK
        /\ PhaseSound
        /\ CoresSound
        /\ UsedSound
        /\ \A i \in 1 .. Len(groups) : GroupSound(i)
        /\ PendingSound

-----------------------------------------------------------------------------
(* Lemmas about numbers, rankings and neighbours.                          *)

\* The smaller of two numbers.
LEMMA MinOfTwo ==
    ASSUME NEW a \in Nat, NEW b \in Nat
    PROVE  /\ Min({a, b}) \in Nat
           /\ Min({a, b}) \in {a, b} /\ Min({a, b}) <= a /\ Min({a, b}) <= b
<1> DEFINE m == IF a <= b THEN a ELSE b
<1>1. m \in {a, b} /\ \A y \in {a, b} : m =< y
  OBVIOUS
<1>2. Min({a, b}) \in {a, b} /\ \A y \in {a, b} : Min({a, b}) =< y
  BY <1>1 DEF Min
<1> QED
  BY <1>2

\* The number of chunks is a number.
LEMMA ChunkCount == Cardinality(Chunk) \in Nat
  BY IndexAssumption, FS_CardinalityType

\* A ranking is a sequence without repetition, of one of the given sizes.
LEMMA RankingType ==
    ASSUME NEW sizes \in SUBSET Nat, NEW s \in Rankings(sizes)
    PROVE  s \in Seq(Chunk) /\ Len(s) \in sizes /\ IsInjective(s)
<1>1. PICK n \in sizes : s \in [1 .. n -> Chunk]
  BY DEF Rankings
<1>2. IsInjective(s)
  BY DEF Rankings
<1> QED
  BY <1>1, <1>2

\* Scores and ranks are integers, whatever the weights.
LEMMA FusedType ==
    ASSUME NEW c \in Chunk, dense \in Seq(Chunk), lexical \in Seq(Chunk)
    PROVE  Fused(c) \in FusionCandidate
<1>1. /\ CandidateTopK \in Nat /\ RankConstant \in Nat \ {0} /\ Scale \in Nat
      /\ DenseWeight \in Nat /\ Bm25Weight \in Nat
  BY SettingsAssumption, UnitAssumption DEF AlgorithmConfigValid
<1>2. ASSUME NEW list \in Seq(Chunk) PROVE Rank(list, c) \in Nat
  <2>1. c \in Range(list) => \E i \in DOMAIN list : list[i] = c
    BY DEF Range
  <2>2. DOMAIN list \subseteq Nat
    OBVIOUS
  <2> QED
    BY <1>1, <2>1, <2>2 DEF Rank, Unranked
<1>3. ASSUME NEW list \in Seq(Chunk), NEW weight \in Nat PROVE Gain(weight, list, c) \in Int
  <2>1. RankConstant + Rank(list, c) \in Nat \ {0}
    BY <1>1, <1>2
  <2>2. weight * Scale \in Int
    BY <1>1
  <2>3. (weight * Scale) \div (RankConstant + Rank(list, c)) \in Int
    BY <2>1, <2>2
  <2> QED
    BY <2>3 DEF Gain
<1> QED
  BY <1>1, <1>2, <1>3 DEF Fused, FusionCandidate

\* A chunk has one neighbour at most on either side, itself not among them.
LEMMA NeighbourPlaces ==
    ASSUME index \in Indexes, NEW c \in Chunk
    PROVE  /\ Neighbours(c) \subseteq Chunk
           /\ c \notin Neighbours(c)
           /\ \A a, b, n \in Neighbours(c) : a = b \/ b = n \/ a = n
<1>1. /\ index.order \in [Chunk -> Nat]
      /\ OnePerPlace(index)
  BY IndexAssumption DEF Payload
<1>2. \A n \in Neighbours(c) :
         /\ n \in Chunk /\ index.doc[n] = index.doc[c]
         /\ index.order[n] = index.order[c] - 1 \/ index.order[n] = index.order[c] + 1
  BY DEF Neighbours, Place
<1>3. Neighbours(c) \subseteq Chunk
  BY <1>2
<1>4. c \notin Neighbours(c)
  BY <1>1, <1>2
<1>5. ASSUME NEW a \in Neighbours(c), NEW b \in Neighbours(c), NEW n \in Neighbours(c)
      PROVE  a = b \/ b = n \/ a = n
  <2>1. \/ index.order[a] = index.order[b]
        \/ index.order[b] = index.order[n]
        \/ index.order[a] = index.order[n]
    BY <1>2
  <2> QED
    BY <1>1, <1>2, <2>1 DEF OnePerPlace
<1> QED
  BY <1>3, <1>4, <1>5

\* Sizes are positive numbers.
LEMMA TokenType ==
    ASSUME index \in Indexes
    PROVE  /\ index.tokens \in [Chunk -> Nat \ {0}]
           /\ ContextBudget \in Nat
  BY IndexAssumption, SettingsAssumption DEF Payload, SettingsValid

\* What a group holds.
LEMMA GroupType ==
    ASSUME TypeOK, NEW i \in 1 .. Len(groups)
    PROVE  /\ groups[i] \in Group
           /\ groups[i].core \in Chunk /\ groups[i].extensions \subseteq Chunk
<1>1. groups \in Seq(Group)
  BY DEF TypeOK
<1>2. groups[i] \in Group
  BY <1>1
<1> QED
  BY <1>2 DEF Group

-----------------------------------------------------------------------------
(* The invariant is inductive.                                             *)

\* A service that has not searched yet.
LEMMA InitInv == Init => IInv
<1> SUFFICES ASSUME Init PROVE IInv
  OBVIOUS
<1> USE DEF Init
<1>1. TypeOK
  BY SettingsAssumption DEF TypeOK, Phases, Answers, SettingsValid, AlgorithmConfigValid
<1>2. Len(groups) = 0 /\ Len(cores) = 0
  OBVIOUS
<1> QED
  BY <1>1, <1>2 DEF IInv, PhaseSound, CoresSound, UsedSound, PendingSound

\* Everything but the type and the phase depends on the assembly alone.
Assembled == /\ CoresSound
             /\ UsedSound
             /\ \A i \in 1 .. Len(groups) : GroupSound(i)
             /\ PendingSound

\* A step that leaves the assembly alone cannot harm it.
LEMMA Kept ==
    ASSUME IInv, UNCHANGED <<index, cores, groups, used, pending, spent>>
    PROVE  Assembled'
<1>1. Assembled
  BY DEF IInv, Assembled
<1> QED
  BY <1>1 DEF Assembled, CoresSound, UsedSound, GroupSound, PendingSound, Neighbours,
              Place, Expandable, Related, Explained, Range

\* Before the first group only the cores matter.
LEMMA Cleared ==
    ASSUME groups' = <<>>, used' = {}, pending' = {}, cores' \in Seq(Chunk),
           \A i, j \in 1 .. Len(cores') : cores'[i] = cores'[j] => i = j
    PROVE  Assembled'
<1>1. Len(groups') = 0
  OBVIOUS
<1> QED
  BY <1>1 DEF Assembled, CoresSound, UsedSound, PendingSound

\* StartGroup: the new group has its core only, and all neighbours are pending.
LEMMA StartGroupInv ==
    ASSUME IInv, StartGroup
    PROVE  IInv'
<1> DEFINE L == Len(groups)
           c == cores[L + 1]
           g == [core |-> c, extensions |-> {}]
<1>1. /\ phase = "expand" /\ pending = {} /\ L < Len(cores)
      /\ groups' = Append(groups, g)
      /\ pending' = IF Expandable(c) THEN Neighbours(c) ELSE {}
      /\ spent' = index.tokens[c]
      /\ UNCHANGED <<index, phase, topK, dense, lexical, candidates, sim, cores, used, answer>>
  BY DEF StartGroup, ranking
<1>2. /\ index \in Indexes /\ cores \in Seq(Chunk) /\ groups \in Seq(Group)
      /\ L \in Nat /\ Len(cores) \in Nat
  BY DEF IInv, TypeOK
<1>3. c \in Chunk /\ g \in Group
  BY <1>1, <1>2 DEF Group
<1>4. /\ Len(groups') = L + 1
      /\ groups'[L + 1] = g
      /\ \A i \in 1 .. L : groups'[i] = groups[i]
  BY <1>1, <1>2, <1>3
<1>5. TypeOK'
  <2>1. groups' \in Seq(Group)
    BY <1>1, <1>2, <1>3
  <2>2. pending' \subseteq Chunk
    BY <1>1, <1>2, <1>3, NeighbourPlaces
  <2>3. spent' \in Nat
    BY <1>1, <1>2, <1>3, TokenType
  <2> QED
    BY <1>1, <2>1, <2>2, <2>3 DEF IInv, TypeOK
<1>6. PhaseSound'
  BY <1>1 DEF PhaseSound
<1>7. CoresSound'
  BY <1>1, <1>2, <1>4 DEF IInv, CoresSound
<1>8. UsedSound'
  BY <1>1, <1>2, <1>4 DEF IInv, UsedSound, Range
<1>9. ASSUME NEW i \in 1 .. Len(groups') PROVE GroupSound(i)'
  <2>1. CASE i = L + 1
    BY <1>1, <1>4, <2>1 DEF GroupSound, Neighbours, Place, Expandable
  <2>2. CASE i \in 1 .. L
    <3>1. GroupSound(i) /\ groups'[i] = groups[i]
      BY <1>4, <2>2 DEF IInv
    <3>2. \A n : Explained(i, n) => Explained(i, n)'
      <4> SUFFICES ASSUME NEW n, Explained(i, n) PROVE Explained(i, n)'
        OBVIOUS
      <4>1. \A j \in 1 .. i - 1 : groups'[j] = groups[j]
        BY <1>2, <1>4, <2>2
      <4> QED
        BY <1>1, <3>1, <4>1 DEF Explained
    <3> QED
      BY <1>1, <3>1, <3>2 DEF GroupSound, Neighbours, Place, Expandable, Related
  <2> QED
    BY <1>2, <1>4, <2>1, <2>2
<1>10. PendingSound'
  <2>1. groups' # <<>> /\ groups'[Len(groups')] = g
    BY <1>2, <1>4
  <2>2. pending' \subseteq Neighbours(c)
    BY <1>1
  <2> QED
    BY <1>1, <2>1, <2>2 DEF PendingSound, Neighbours, Place
<1> QED
  BY <1>5, <1>6, <1>7, <1>8, <1>9, <1>10 DEF IInv

\* What a turn of _select_extensions finds: the last group is open, and n is a
\* neighbour of its core that it does not have.
LEMMA OpenGroup ==
    ASSUME IInv, NEW n \in pending
    PROVE  /\ Len(groups) \in 1 .. Len(groups) /\ groups \in Seq(Group)
           /\ groups[Len(groups)] \in Group
           /\ groups[Len(groups)].core \in Chunk
           /\ groups[Len(groups)].extensions \subseteq Chunk
           /\ n \in Chunk /\ n \in Neighbours(groups[Len(groups)].core)
           /\ n \notin groups[Len(groups)].extensions
           /\ groups[Len(groups)].core \in Range(cores)
<1>1. groups \in Seq(Group) /\ cores \in Seq(Chunk) /\ groups # <<>> /\ n \in Chunk
  BY DEF IInv, TypeOK, PendingSound
<1>2. Len(groups) \in 1 .. Len(groups)
  BY <1>1
<1>3. groups[Len(groups)].core = cores[Len(groups)] /\ Len(groups) \in 1 .. Len(cores)
  BY <1>1, <1>2 DEF IInv, CoresSound
<1> QED
  BY <1>1, <1>2, <1>3, GroupType DEF IInv, PendingSound, Range

\* A group with one more extension.
LEMMA ExtendedGroup ==
    ASSUME NEW g \in Group, NEW n \in Chunk
    PROVE  /\ [g EXCEPT !.extensions = @ \cup {n}]
                  = [core |-> g.core, extensions |-> g.extensions \cup {n}]
           /\ [core |-> g.core, extensions |-> g.extensions \cup {n}] \in Group
  BY DEF Group

\* Consider, when the neighbour is taken.
LEMMA TakeInv ==
    ASSUME IInv, NEW n \in pending, Consider(n), Wanted(n)
    PROVE  IInv'
<1> DEFINE L == Len(groups)
           g == groups[L]
           h == [core |-> g.core, extensions |-> g.extensions \cup {n}]
<1>1. /\ pending' = pending \ {n}
      /\ groups' = [groups EXCEPT ![L].extensions = @ \cup {n}]
      /\ used' = used \cup {n} /\ spent' = spent + index.tokens[n]
      /\ phase = "expand"
      /\ UNCHANGED <<index, phase, topK, dense, lexical, candidates, sim, cores, answer>>
  BY DEF Consider, Extend, ranking
<1>2. /\ L \in 1 .. L /\ groups \in Seq(Group) /\ g \in Group /\ g.core \in Chunk
      /\ g.extensions \subseteq Chunk /\ n \in Chunk /\ n \in Neighbours(g.core)
      /\ n \notin g.extensions /\ index \in Indexes /\ cores \in Seq(Chunk)
  BY OpenGroup DEF IInv, TypeOK
<1>3. n \notin Range(cores) /\ n \notin used
      /\ spent + index.tokens[n] <= ContextBudget
  BY DEF Wanted, Free, Fits
<1>4. /\ h \in Group /\ [g EXCEPT !.extensions = @ \cup {n}] = h
      /\ h.core = g.core /\ h.extensions = g.extensions \cup {n}
  BY <1>2, ExtendedGroup
<1>5. /\ Len(groups') = L /\ groups' \in Seq(Group)
      /\ groups'[L] = h
      /\ \A i \in 1 .. L : i # L => groups'[i] = groups[i]
  <2>1. groups' = [groups EXCEPT ![L] = h]
    BY <1>1, <1>4
  <2> HIDE DEF h
  <2> QED
    BY <1>2, <1>4, <2>1
<1>6. /\ \A d \in Chunk : index.tokens[d] \in Nat \ {0}
      /\ ContextBudget \in Nat /\ spent \in Nat
  BY <1>2, TokenType DEF IInv, TypeOK
<1>7. \/ g.extensions = {} /\ spent = index.tokens[g.core]
      \/ \E a \in g.extensions : /\ g.extensions = {a}
                                 /\ spent = index.tokens[g.core] + index.tokens[a]
  BY DEF IInv, PendingSound
<1>8. TypeOK'
  BY <1>1, <1>2, <1>5, <1>6 DEF IInv, TypeOK
<1>9. PhaseSound'
  BY <1>1 DEF PhaseSound
<1>10. CoresSound'
  BY <1>1, <1>2, <1>5 DEF IInv, CoresSound
<1>11. UsedSound'
  <2>1. \A i \in 1 .. L : groups'[i].extensions =
           IF i = L THEN groups[i].extensions \cup {n} ELSE groups[i].extensions
    <3> HIDE DEF h
    <3> QED
      BY <1>4, <1>5
  <2>2. \A i \in 1 .. L : groups[i].extensions \subseteq used
    BY DEF IInv, UsedSound
  <2>3. \A m \in used' : \E i \in 1 .. L : m \in groups'[i].extensions
    BY <1>1, <1>2, <2>1 DEF IInv, UsedSound
  <2>4. \A i \in 1 .. L : /\ groups'[i].extensions \subseteq used'
                          /\ groups'[i].extensions \cap Range(cores) = {}
    BY <1>1, <1>3, <2>1 DEF IInv, UsedSound
  <2>5. \A i, j \in 1 .. L :
           i # j => groups'[i].extensions \cap groups'[j].extensions = {}
    <3>1. \A i, j \in 1 .. L :
             i # j => groups[i].extensions \cap groups[j].extensions = {}
      BY DEF IInv, UsedSound
    <3>2. \A i \in 1 .. L : n \notin groups[i].extensions
      BY <1>3, <2>2
    <3> SUFFICES ASSUME NEW i \in 1 .. L, NEW j \in 1 .. L, i # j
                 PROVE  groups'[i].extensions \cap groups'[j].extensions = {}
      OBVIOUS
    <3>3. groups[i].extensions \cap groups[j].extensions = {}
      BY <3>1
    <3>4. n \notin groups[i].extensions /\ n \notin groups[j].extensions
      BY <3>2
    <3>5. i = L \/ groups'[i].extensions = groups[i].extensions
      BY <2>1
    <3>6. j = L \/ groups'[j].extensions = groups[j].extensions
      BY <2>1
    <3> QED
      BY <2>1, <3>3, <3>4, <3>5, <3>6
  <2> QED
    BY <1>1, <1>5, <2>3, <2>4, <2>5 DEF UsedSound
<1>12. ASSUME NEW i \in 1 .. Len(groups') PROVE GroupSound(i)'
  <2>1. GroupSound(i) /\ i \in 1 .. L
    BY <1>5 DEF IInv
  <2>2. \A m : Explained(i, m) => Explained(i, m)'
    <3> SUFFICES ASSUME NEW m, Explained(i, m) PROVE Explained(i, m)'
      OBVIOUS
    <3>1. \A j \in 1 .. i : /\ groups'[j].core = groups[j].core
                            /\ groups[j].extensions \subseteq groups'[j].extensions
      <4> HIDE DEF h
      <4>1. \A j \in 1 .. i : j \in 1 .. L
        BY <1>2, <2>1
      <4> QED
        BY <1>4, <1>5, <4>1
    <3>2. i \in 1 .. i /\ \A j \in 1 .. i - 1 : j \in 1 .. i
      BY <2>1, <1>2
    <3> QED
      BY <1>1, <3>1, <3>2 DEF Explained
  <2>3. CASE i # L
    <3>1. groups'[i] = groups[i] /\ Len(groups') = Len(groups)
      BY <1>5, <2>1, <2>3
    <3> QED
      BY <1>1, <2>1, <2>2, <2>3, <3>1
      DEF GroupSound, Neighbours, Place, Expandable, Related
  <2>4. CASE i = L
    <3>1. groups'[i] = h /\ Len(groups') = L
      BY <1>5, <2>4
    <3>2. h.extensions \subseteq Neighbours(g.core)
      BY <1>2, <2>1, <2>4 DEF GroupSound
    <3>3. \A a, b \in h.extensions :
             index.tokens[g.core] + index.tokens[a]
                 + (IF a = b THEN 0 ELSE index.tokens[b]) <= ContextBudget
      <4>1. CASE g.extensions = {} /\ spent = index.tokens[g.core]
        <5>1. h.extensions = {n}
          BY <4>1
        <5>2. /\ index.tokens[g.core] \in Nat /\ index.tokens[n] \in Nat
              /\ index.tokens[g.core] + index.tokens[n] <= ContextBudget
          BY <1>2, <1>3, <1>6, <4>1
        <5>3. index.tokens[g.core] + index.tokens[n] + 0 <= ContextBudget
          BY <1>6, <5>2
        <5> QED
          BY <5>1, <5>3
      <4>2. ASSUME NEW a \in g.extensions, g.extensions = {a},
                   spent = index.tokens[g.core] + index.tokens[a]
            PROVE  <3>3
        <5>1. /\ index.tokens[g.core] \in Nat /\ index.tokens[a] \in Nat
              /\ index.tokens[n] \in Nat
          BY <1>2, <1>6
        <5>2. index.tokens[g.core] + index.tokens[a] + index.tokens[n] <= ContextBudget
          BY <1>3, <4>2
        <5>3. h.extensions = {a, n}
          BY <4>2
        <5>4. ASSUME NEW x \in {a, n}, NEW y \in {a, n}
              PROVE  index.tokens[g.core] + index.tokens[x]
                         + (IF x = y THEN 0 ELSE index.tokens[y]) <= ContextBudget
          <6>1. CASE x = y
            <7>1. index.tokens[g.core] + index.tokens[x] <= ContextBudget
              <8>1. index.tokens[g.core] + index.tokens[a] <= ContextBudget
                BY <1>6, <5>1, <5>2
              <8>2. index.tokens[g.core] + index.tokens[n] <= ContextBudget
                BY <1>6, <5>1, <5>2
              <8> QED
                BY <5>4, <8>1, <8>2
            <7>2. index.tokens[x] \in Nat
              BY <5>1, <5>4
            <7> QED
              BY <5>1, <6>1, <7>1, <7>2
          <6>2. CASE x # y
            <7>1. (x = a /\ y = n) \/ (x = n /\ y = a)
              BY <5>4, <6>2
            <7>2. index.tokens[g.core] + index.tokens[x] + index.tokens[y] <= ContextBudget
              BY <5>1, <5>2, <7>1
            <7> QED
              BY <6>2, <7>2
          <6> QED
            BY <6>1, <6>2
        <5> QED
          BY <5>3, <5>4
      <4> QED
        BY <1>7, <4>1, <4>2
    <3>4. ASSUME Expandable(g.core), NEW m \in Neighbours(g.core), Related(g.core, m)
          PROVE  Explained(i, m)' \/ (i = Len(groups') /\ m \in pending')
      <4>1. CASE m = n
        BY <3>1, <4>1 DEF Explained
      <4>2. CASE m # n
        <5>1. Explained(i, m) \/ m \in pending
          BY <2>1, <2>4, <3>4 DEF GroupSound
        <5> QED
          BY <1>1, <2>2, <2>4, <3>1, <4>2, <5>1
      <4> QED
        BY <4>1, <4>2
    <3> QED
      BY <1>1, <3>1, <3>2, <3>3, <3>4
      DEF GroupSound, Neighbours, Place, Expandable, Related
  <2> QED
    BY <2>3, <2>4
<1>13. PendingSound'
  <2> SUFFICES ASSUME pending' # {} PROVE PendingSound'
    BY DEF PendingSound
  <2>1. pending' \subseteq Neighbours(g.core) /\ pending' \cap h.extensions = {}
    BY <1>1 DEF IInv, PendingSound
  <2>2. PICK m \in pending' : TRUE
    OBVIOUS
  <2>3. g.extensions = {}
    <3>1. ASSUME NEW a \in g.extensions PROVE FALSE
      <4>1. a \in Neighbours(g.core)
        BY <3>1, <1>2 DEF IInv, GroupSound
      <4>2. m # a /\ m # n /\ a # n
        BY <1>2, <2>1, <2>2, <3>1
      <4> QED
        BY <1>2, <2>1, <2>2, <4>1, <4>2, NeighbourPlaces
    <3> QED
      BY <3>1
  <2>4. spent' = index.tokens[g.core] + index.tokens[n] /\ h.extensions = {n}
    BY <1>1, <1>7, <2>3
  <2>5. groups'[Len(groups')] = h /\ groups' # <<>>
    BY <1>2, <1>5
  <2> QED
    BY <1>1, <2>1, <2>4, <2>5 DEF PendingSound, Neighbours, Place
<1> QED
  BY <1>8, <1>9, <1>10, <1>11, <1>12, <1>13 DEF IInv

\* Consider, when the neighbour is left out: there is a reason.
LEMMA LeaveInv ==
    ASSUME IInv, NEW n \in pending, Consider(n), ~Wanted(n)
    PROVE  IInv'
<1> DEFINE L == Len(groups)
           g == groups[L]
<1>1. /\ pending' = pending \ {n} /\ phase = "expand"
      /\ UNCHANGED <<index, phase, topK, dense, lexical, candidates, sim, cores,
                     groups, used, spent, answer>>
  BY DEF Consider, ranking
<1>2. /\ L \in 1 .. L /\ g.core \in Chunk /\ g.extensions \subseteq Chunk
      /\ n \in Chunk /\ n \in Neighbours(g.core) /\ n \notin g.extensions
  BY OpenGroup
<1>3. Related(g.core, n) => Explained(L, n)
  <2> SUFFICES ASSUME Related(g.core, n) PROVE Explained(L, n)
    OBVIOUS
  <2>1. n \in Range(cores) \/ n \in used \/ ~Fits(n)
    BY DEF Wanted, Free
  <2>2. CASE n \in Range(cores)
    BY <2>2 DEF Explained
  <2>3. CASE n \in used
    <3>1. PICK j \in 1 .. L : n \in groups[j].extensions
      BY <2>3 DEF IInv, UsedSound
    <3>2. j \in 1 .. L - 1
      BY <1>2, <3>1
    <3> QED
      BY <3>1, <3>2 DEF Explained
  <2>4. CASE ~Fits(n)
    <3>1. spent + index.tokens[n] > ContextBudget
      <4>1. spent \in Nat /\ index.tokens[n] \in Nat /\ ContextBudget \in Nat
        BY <1>2, TokenType DEF IInv, TypeOK
      <4> QED
        BY <2>4, <4>1 DEF Fits
    <3>2. CASE spent = index.tokens[g.core]
      BY <3>1, <3>2 DEF Explained
    <3>3. CASE \E a \in g.extensions : spent = index.tokens[g.core] + index.tokens[a]
      BY <3>1, <3>3 DEF Explained
    <3> QED
      BY <3>2, <3>3 DEF IInv, PendingSound
  <2> QED
    BY <2>1, <2>2, <2>3, <2>4
<1>4. TypeOK' /\ PhaseSound' /\ CoresSound' /\ UsedSound'
  BY <1>1 DEF IInv, TypeOK, PhaseSound, CoresSound, UsedSound, Range
<1>5. ASSUME NEW i \in 1 .. Len(groups') PROVE GroupSound(i)'
  <2>1. GroupSound(i) /\ i \in 1 .. L
    BY <1>1 DEF IInv
  <2>2. \A m \in Neighbours(groups[i].core) :
           Expandable(groups[i].core) /\ Related(groups[i].core, m) =>
               Explained(i, m) \/ (i = L /\ m \in pending /\ m # n)
    BY <1>3, <2>1 DEF GroupSound
  <2>3. \A m : Explained(i, m) => Explained(i, m)'
    BY <1>1 DEF Explained, Range
  <2> QED
    BY <1>1, <2>1, <2>2, <2>3 DEF GroupSound, Neighbours, Place, Expandable, Related
<1>6. PendingSound'
  BY <1>1 DEF IInv, PendingSound, Neighbours, Place
<1> QED
  BY <1>4, <1>5, <1>6 DEF IInv

\* Every other step fills in the search or clears it.
LEMMA NextInv == IInv /\ [Next]_vars => IInv'
<1> SUFFICES ASSUME IInv, [Next]_vars PROVE IInv'
  OBVIOUS
<1>1. TypeOK /\ PhaseSound /\ Assembled
  BY DEF IInv, Assembled
<1>2. ASSUME TypeOK', PhaseSound', Assembled' PROVE IInv'
  BY <1>2 DEF IInv, Assembled
<1>3. ASSUME NEW k \in 0 .. TopKMax + 1, Request(k) PROVE IInv'
  <2>1. TypeOK'
    BY <1>1, <1>3, SettingsAssumption
    DEF Request, TypeOK, Phases, Answers, ranking, SettingsValid
  <2>2. PhaseSound' /\ pending' = {}
    BY <1>1, <1>3 DEF Request, PhaseSound
  <2>3. Assembled'
    BY <1>3, <2>2, Cleared DEF Request
  <2> QED
    BY <1>2, <2>1, <2>2, <2>3
<1>4. CASE QueryDense
  <2>1. Min({CandidateTopK, Cardinality(Chunk)}) \in Nat
    BY SettingsAssumption, ChunkCount, MinOfTwo DEF AlgorithmConfigValid
  <2>2. dense' \in Seq(Chunk)
    BY <1>4, <2>1, RankingType DEF QueryDense
  <2>3. TypeOK'
    BY <1>1, <1>4, <2>2 DEF QueryDense, TypeOK, Phases, assembly
  <2>4. PhaseSound'
    BY <1>1, <1>4 DEF QueryDense, PhaseSound, assembly
  <2>5. Assembled'
    BY <1>4, Kept DEF QueryDense, assembly
  <2> QED
    BY <1>2, <2>3, <2>4, <2>5
<1>5. CASE QueryBm25
  <2>1. 0 .. Min({CandidateTopK, Cardinality(Chunk)}) \subseteq Nat
    OBVIOUS
  <2>2. lexical' \in Seq(Chunk)
    BY <1>5, <2>1, RankingType DEF QueryBm25
  <2>3. TypeOK'
    BY <1>1, <1>5, <2>2 DEF QueryBm25, TypeOK, Phases, assembly
  <2>4. PhaseSound'
    BY <1>1, <1>5 DEF QueryBm25, PhaseSound, assembly
  <2>5. Assembled'
    BY <1>5, Kept DEF QueryBm25, assembly
  <2> QED
    BY <1>2, <2>3, <2>4, <2>5
<1>6. CASE FetchVectors
  <2>1. dense \in Seq(Chunk) /\ lexical \in Seq(Chunk)
    BY <1>1 DEF TypeOK
  <2>2. Range(dense) \cup Range(lexical) \subseteq Chunk
    BY <2>1 DEF Range
  <2>3. \A c \in Range(dense) \cup Range(lexical) : Fused(c) \in FusionCandidate
    BY <2>1, <2>2, FusedType
  <2>4. /\ DOMAIN candidates' \subseteq Chunk
        /\ candidates' \in [DOMAIN candidates' -> FusionCandidate]
    BY <1>6, <2>2, <2>3 DEF FetchVectors
  <2>5. TypeOK'
    BY <1>1, <1>6, <2>4 DEF FetchVectors, TypeOK, Phases, assembly
  <2>6. PhaseSound'
    BY <1>1, <1>6 DEF FetchVectors, PhaseSound, assembly
  <2>7. Assembled'
    BY <1>6, Kept DEF FetchVectors, assembly
  <2> QED
    BY <1>2, <2>5, <2>6, <2>7
<1>7. CASE SelectNext
  <2>1. PICK c \in Remaining : cores' = Append(cores, c)
    BY <1>7 DEF SelectNext
  <2>2. cores \in Seq(Chunk) /\ c \in Chunk /\ c \notin Range(cores)
    BY <1>1, <2>1 DEF TypeOK, Remaining
  <2>3. cores' \in Seq(Chunk)
    BY <2>1, <2>2
  <2>4. \A i, j \in 1 .. Len(cores') : cores'[i] = cores'[j] => i = j
    <3>1. \A i \in 1 .. Len(cores) : cores[i] # c
      BY <2>2 DEF Range
    <3> QED
      BY <1>1, <2>1, <2>2, <3>1 DEF Assembled, CoresSound
  <2>5. TypeOK'
    BY <1>1, <1>7, <2>3 DEF SelectNext, TypeOK, ranking, assembly
  <2>6. PhaseSound' /\ groups' = <<>> /\ used' = {} /\ pending' = {}
    BY <1>1, <1>7 DEF SelectNext, PhaseSound, assembly
  <2>7. Assembled'
    BY <2>3, <2>4, <2>6, Cleared
  <2> QED
    BY <1>2, <2>5, <2>6, <2>7
<1>8. CASE Selected
  <2>1. DOMAIN <<>> \subseteq Chunk /\ <<>> \in [DOMAIN <<>> -> FusionCandidate]
    OBVIOUS
  <2>2. TypeOK'
    BY <1>1, <1>8, <2>1 DEF Selected, TypeOK, Phases, assembly
  <2>3. PhaseSound'
    BY <1>1, <1>8 DEF Selected, PhaseSound, assembly
  <2>4. Assembled'
    BY <1>8, Kept DEF Selected, assembly
  <2> QED
    BY <1>2, <2>2, <2>3, <2>4
<1>9. CASE StartGroup
  BY <1>9, StartGroupInv
<1>10. ASSUME NEW n \in pending, Consider(n) PROVE IInv'
  BY <1>10, TakeInv, LeaveInv
<1>11. CASE Finish
  <2>1. TypeOK'
    BY <1>1, <1>11 DEF Finish, TypeOK, Phases, Answers, ranking, assembly
  <2>2. PhaseSound'
    BY <1>1, <1>11 DEF Finish, PhaseSound, assembly
  <2>3. Assembled'
    BY <1>11, Kept DEF Finish, assembly
  <2> QED
    BY <1>2, <2>1, <2>2, <2>3
<1>12. CASE Fail
  <2>1. TypeOK'
    BY <1>1, <1>12 DEF Fail, TypeOK, Phases, Answers
  <2>2. PhaseSound' /\ pending' = {}
    BY <1>1, <1>12 DEF Fail, CallsOut, PhaseSound
  <2>3. Assembled'
    BY <1>12, <2>2, Cleared DEF Fail
  <2> QED
    BY <1>2, <2>1, <2>2, <2>3
<1>13. CASE UNCHANGED vars
  <2>1. TypeOK' /\ PhaseSound'
    BY <1>1, <1>13 DEF TypeOK, PhaseSound, vars, ranking, assembly
  <2>2. Assembled'
    BY <1>13, Kept DEF vars, assembly
  <2> QED
    BY <1>2, <2>1, <2>2
<1> QED
  BY <1>3, <1>4, <1>5, <1>6, <1>7, <1>8, <1>9, <1>10, <1>11, <1>12, <1>13 DEF Next

-----------------------------------------------------------------------------
(* The results.                                                            *)

\* The invariant holds in every reachable state.
THEOREM Invariance == Spec => []IInv
<1> QED
  BY InitInv, NextInv, PTL DEF Spec

\* TypeOK: the shape of the state, for any index, configuration and ranking; a
\* search never has a top_k out of range.
THEOREM TypeCorrect == Spec => []TypeOK
<1>1. IInv => TypeOK
  BY DEF IInv
<1> QED
  BY <1>1, Invariance, PTL

\* What the invariant says of the groups.
LEMMA GroupsSound == IInv => NoChunkTwice /\ BudgetKept /\ NothingMissed
<1>1. ASSUME IInv PROVE NoChunkTwice
  <2> SUFFICES ASSUME NEW i \in 1 .. Len(groups)
               PROVE  /\ groups[i].core \notin groups[i].extensions
                      /\ \A j \in 1 .. Len(groups) : i # j =>
                            ({groups[i].core} \cup groups[i].extensions)
                              \cap ({groups[j].core} \cup groups[j].extensions) = {}
    BY DEF NoChunkTwice
  <2>1. Len(groups) \in Nat /\ Len(cores) \in Nat /\ DOMAIN cores = 1 .. Len(cores)
    BY <1>1 DEF IInv, TypeOK
  <2>2. \A k \in 1 .. Len(groups) : k \in 1 .. Len(cores) /\ groups[k].core \in Range(cores)
    BY <1>1, <2>1 DEF IInv, CoresSound, Range
  <2>3. \A k, m \in 1 .. Len(groups) : groups[k].core \notin groups[m].extensions
    BY <1>1, <2>2 DEF IInv, UsedSound
  <2>4. \A j \in 1 .. Len(groups) : i # j => groups[i].core # groups[j].core
    BY <1>1, <2>2 DEF IInv, CoresSound
  <2>5. \A j \in 1 .. Len(groups) :
           i # j => groups[i].extensions \cap groups[j].extensions = {}
    BY <1>1 DEF IInv, UsedSound
  <2> QED
    BY <2>3, <2>4, <2>5
<1>2. IInv => BudgetKept
  BY DEF IInv, GroupSound, BudgetKept
<1>3. ASSUME IInv PROVE NothingMissed
  <2> SUFFICES ASSUME NEW i \in 1 .. Len(groups), Done(i), Expandable(groups[i].core),
                      NEW n \in Neighbours(groups[i].core), Related(groups[i].core, n)
               PROVE  Explained(i, n)
    BY DEF NothingMissed
  <2>1. ~(i = Len(groups) /\ n \in pending)
    BY DEF Done
  <2> QED
    BY <1>3, <2>1 DEF IInv, GroupSound
<1> QED
  BY <1>1, <1>2, <1>3

\* NoChunkTwice: assemble hands no chunk to the prompt twice.
THEOREM GroupsDisjoint == Spec => []NoChunkTwice
<1> QED
  BY GroupsSound, Invariance, PTL

\* BudgetKept: no extended group is over the token budget.
THEOREM GroupsWithinBudget == Spec => []BudgetKept
<1> QED
  BY GroupsSound, Invariance, PTL

\* NothingMissed: _select_extensions leaves no neighbour out without a reason.
THEOREM NeighboursExplained == Spec => []NothingMissed
<1> QED
  BY GroupsSound, Invariance, PTL

-----------------------------------------------------------------------------
(* The number of cores.                                                    *)

\* As many as the number asked for and the number of chunks allow.
Enough == Min({topK, Cardinality(Chunk)})

\* What EnoughCores rests on: Dense alone provides candidates enough.
CountInv ==
    /\ phase # "idle" => topK \in 1 .. TopKMax /\ answer # "documents"
    /\ phase \in {"bm25", "vectors"} =>
          IsInjective(dense) /\ Len(dense) = Min({CandidateTopK, Cardinality(Chunk)})
    /\ phase = "mmr" =>
          /\ Cardinality(DOMAIN candidates) >= Min({CandidateTopK, Cardinality(Chunk)})
          /\ Range(cores) \subseteq DOMAIN candidates
          /\ Len(cores) <= topK
    /\ phase = "expand" => Len(cores) = Enough
    /\ EnoughCores

\* A sequence without repetition has as many elements as places.
LEMMA SequenceCount ==
    ASSUME NEW s \in Seq(Chunk), \A i, j \in 1 .. Len(s) : s[i] = s[j] => i = j
    PROVE  IsFiniteSet(Range(s)) /\ Cardinality(Range(s)) = Len(s) /\ Range(s) \subseteq Chunk
<1>1. Len(s) \in Nat /\ DOMAIN s = 1 .. Len(s)
  OBVIOUS
<1>2. s \in Bijection(1 .. Len(s), Range(s))
  BY <1>1 DEF Range, Bijection, Injection, Surjection, IsInjective
<1>3. IsFiniteSet(1 .. Len(s)) /\ Cardinality(1 .. Len(s)) = Len(s)
  BY <1>1, FS_Interval
<1>4. ExistsBijection(1 .. Len(s), Range(s))
  BY <1>2 DEF ExistsBijection
<1>5. Range(s) \subseteq Chunk
  BY <1>1 DEF Range
<1> QED
  BY <1>3, <1>4, <1>5, FS_Bijection

\* When the MMR loop ends it has selected enough.
LEMMA SelectedEnough ==
    ASSUME IInv, CountInv, Selected
    PROVE  Len(cores) = Enough
<1> DEFINE N == Cardinality(Chunk)
<1>1. phase = "mmr" /\ (Len(cores) = topK \/ Remaining = {})
  BY DEF Selected
<1>2. /\ CandidateTopK \in Nat /\ N \in Nat /\ topK \in Nat /\ topK <= CandidateTopK
      /\ Len(cores) \in Nat /\ Len(cores) <= topK
      /\ Cardinality(DOMAIN candidates) >= Min({CandidateTopK, N})
      /\ Range(cores) \subseteq DOMAIN candidates
  BY <1>1, ChunkCount, SettingsAssumption
  DEF CountInv, IInv, TypeOK, SettingsValid, AlgorithmConfigValid
<1>3. /\ Cardinality(Range(cores)) = Len(cores) /\ Range(cores) \subseteq Chunk
  BY SequenceCount DEF IInv, TypeOK, CoresSound
<1>4. Len(cores) <= N
  BY <1>3, IndexAssumption, FS_Subset
<1>5. Remaining = {} => Len(cores) = Cardinality(DOMAIN candidates)
  <2> SUFFICES ASSUME Remaining = {} PROVE Range(cores) = DOMAIN candidates
    BY <1>3
  <2> QED
    BY <1>2 DEF Remaining
<1>6. Min({CandidateTopK, N}) \in {CandidateTopK, N}
  BY <1>2, MinOfTwo
<1>7. Min({topK, N}) \in {topK, N} /\ Min({topK, N}) <= topK /\ Min({topK, N}) <= N
  BY <1>2, MinOfTwo
<1>8. Len(cores) = topK \/ Len(cores) >= N
  <2>1. CASE Remaining = {}
    BY <1>2, <1>5, <1>6, <2>1
  <2> QED
    BY <1>1, <2>1
<1> QED
  BY <1>2, <1>4, <1>7, <1>8 DEF Enough

\* The counts are kept by every step.
LEMMA NextCount == IInv /\ CountInv /\ [Next]_vars => CountInv'
<1> SUFFICES ASSUME IInv, CountInv, [Next]_vars PROVE CountInv'
  OBVIOUS
<1>1. TypeOK /\ PhaseSound /\ CoresSound
  BY DEF IInv
<1>2. ASSUME NEW k \in 0 .. TopKMax + 1, Request(k) PROVE CountInv'
  BY <1>1, <1>2 DEF Request, CountInv, EnoughCores
<1>3. CASE QueryDense
  <2>1. Min({CandidateTopK, Cardinality(Chunk)}) \in Nat
    BY SettingsAssumption, ChunkCount, MinOfTwo DEF AlgorithmConfigValid
  <2>2. IsInjective(dense') /\ Len(dense') = Min({CandidateTopK, Cardinality(Chunk)})
    <3> DEFINE size == Min({CandidateTopK, Cardinality(Chunk)})
    <3>1. {size} \in SUBSET Nat /\ dense' \in Rankings({size})
      BY <1>3, <2>1 DEF QueryDense
    <3> HIDE DEF size
    <3>2. IsInjective(dense') /\ Len(dense') \in {size}
      BY <3>1, RankingType
    <3> QED
      BY <3>2 DEF size
  <2> QED
    BY <1>1, <1>3, <2>2 DEF QueryDense, CountInv, EnoughCores, Enough, assembly
<1>4. CASE QueryBm25
  BY <1>1, <1>4 DEF QueryBm25, CountInv, EnoughCores, Enough, assembly
<1>5. CASE FetchVectors
  <2> DEFINE D == Range(dense) \cup Range(lexical)
  <2>1. dense \in Seq(Chunk) /\ lexical \in Seq(Chunk) /\ DOMAIN dense = 1 .. Len(dense)
    BY <1>1 DEF TypeOK
  <2>2. \A i, j \in 1 .. Len(dense) : dense[i] = dense[j] => i = j
    BY <1>5, <2>1 DEF FetchVectors, CountInv, IsInjective
  <2>3. Cardinality(Range(dense)) = Min({CandidateTopK, Cardinality(Chunk)})
    BY <1>5, <2>1, <2>2, SequenceCount DEF FetchVectors, CountInv
  <2>4. D \subseteq Chunk
    BY <2>1 DEF Range
  <2>5. IsFiniteSet(D)
    BY <2>4, IndexAssumption, FS_Subset
  <2>6. Cardinality(Range(dense)) <= Cardinality(D)
    BY <2>5, FS_Subset
  <2>7. /\ Cardinality(D) \in Nat
        /\ Min({CandidateTopK, Cardinality(Chunk)}) \in Nat
    BY <2>5, FS_CardinalityType, SettingsAssumption, ChunkCount, MinOfTwo
    DEF AlgorithmConfigValid
  <2>8. Cardinality(D) >= Min({CandidateTopK, Cardinality(Chunk)})
    BY <2>3, <2>6, <2>7
  <2>9. cores = <<>> /\ DOMAIN candidates' = D /\ cores' = cores
    BY <1>1, <1>5 DEF FetchVectors, PhaseSound
  <2>10. Range(cores') = {} /\ Len(cores') = 0
    BY <2>9 DEF Range
  <2>11. phase' = "mmr" /\ topK' = topK /\ answer' = answer /\ phase = "vectors"
    BY <1>5 DEF FetchVectors
  <2>12. topK \in 1 .. TopKMax /\ TopKMax \in Nat /\ answer # "documents"
    BY <2>11, SettingsAssumption DEF CountInv, SettingsValid
  <2> HIDE DEF D
  <2> QED
    BY <2>8, <2>9, <2>10, <2>11, <2>12 DEF CountInv, EnoughCores
<1>6. CASE SelectNext
  <2>1. PICK c \in Remaining : cores' = Append(cores, c)
    BY <1>6 DEF SelectNext
  <2>2. /\ cores \in Seq(Chunk) /\ c \in Chunk /\ c \in DOMAIN candidates
        /\ Len(cores) < topK /\ topK \in Nat
    BY <1>1, <1>6, <2>1, SettingsAssumption
    DEF TypeOK, SelectNext, Remaining, SettingsValid
  <2>3. Len(cores') <= topK
    BY <2>1, <2>2
  <2>4. Range(cores') \subseteq DOMAIN candidates
    BY <1>6, <2>1, <2>2 DEF SelectNext, CountInv, Range
  <2> QED
    BY <1>6, <2>3, <2>4 DEF SelectNext, CountInv, EnoughCores, ranking, assembly
<1>7. CASE Selected
  <2>1. Len(cores) = Enough
    BY <1>7, SelectedEnough
  <2> QED
    BY <1>7, <2>1 DEF Selected, CountInv, EnoughCores, Enough, assembly
<1>8. CASE StartGroup
  BY <1>8 DEF StartGroup, CountInv, EnoughCores, Enough, ranking
<1>9. ASSUME NEW n \in pending, Consider(n) PROVE CountInv'
  BY <1>9 DEF Consider, CountInv, EnoughCores, Enough, ranking
<1>10. CASE Finish
  BY <1>10 DEF Finish, CountInv, EnoughCores, Enough, ranking, assembly
<1>11. CASE Fail
  BY <1>11 DEF Fail, CountInv, EnoughCores
<1>12. CASE UNCHANGED vars
  BY <1>12 DEF CountInv, EnoughCores, Enough, vars, ranking, assembly
<1> QED
  BY <1>2, <1>3, <1>4, <1>5, <1>6, <1>7, <1>8, <1>9, <1>10, <1>11, <1>12 DEF Next

\* EnoughCores: a successful search has as many groups as were asked for, or
\* one for every chunk, because candidate_top_k >= dense_top_k_max.
THEOREM CoresFound == Spec => []EnoughCores
<1>1. Init => CountInv
  BY DEF Init, CountInv, EnoughCores
<1>2. CountInv => EnoughCores
  BY DEF CountInv
<1> QED
  BY <1>1, <1>2, Invariance, NextCount, PTL DEF Spec

-----------------------------------------------------------------------------
(* Fusion.                                                                 *)

\* Multiples of a number are that number apart.
LEMMA Products ==
    ASSUME NEW a \in Nat, NEW b \in Nat, NEW d \in Nat \ {0}, a < b
    PROVE  a * d + d <= b * d
<1>1. PICK e \in Nat : b = a + 1 + e
  <2>1. b - a - 1 \in Nat /\ b = a + 1 + (b - a - 1)
    OBVIOUS
  <2> QED
    BY <2>1
<1>2. (a + 1 + e) * d = a * d + d + e * d
  OBVIOUS
<1>3. e * d \in Nat /\ a * d \in Nat
  OBVIOUS
<1> QED
  BY <1>1, <1>2, <1>3

\* Division without a remainder.
LEMMA Divided ==
    ASSUME NEW m \in Nat, NEW d \in Nat \ {0}
    PROVE  (m * d) \div d = m
<1> DEFINE x == m * d
           q == x \div d
<1>1. x \in Nat
  OBVIOUS
<1> HIDE DEF x
<1>2. q \in Int /\ x = d * q + (x % d) /\ x % d \in 0 .. d - 1
  BY <1>1
<1>3. q \in Nat
  BY <1>1
<1> HIDE DEF q
<1>4. d * q = q * d
  BY <1>3
<1>5. CASE q < m
  <2>1. q * d + d <= m * d
    BY <1>3, <1>5, Products
  <2>2. q * d \in Nat
    BY <1>3
  <2> QED
    BY <1>1, <1>2, <1>4, <2>1, <2>2 DEF x
<1>6. CASE m < q
  <2>1. m * d + d <= q * d
    BY <1>3, <1>6, Products
  <2>2. q * d \in Nat
    BY <1>3
  <2> QED
    BY <1>1, <1>2, <1>4, <2>1, <2>2 DEF x
<1> QED
  BY <1>3, <1>5, <1>6 DEF q, x

\* A score of fusion is exact.
LEMMA Multiple ==
    ASSUME NEW w \in Nat \ {0}, NEW k \in Nat, NEW d \in Nat \ {0}
    PROVE  (w * (k * d)) \div d = w * k
<1>1. w * k \in Nat /\ w * (k * d) = (w * k) * d
  OBVIOUS
<1>2. ((w * k) * d) \div d = w * k
  BY <1>1, Divided
<1> QED
  BY <1>1, <1>2

\* What a rank adds to a score.
Part(w, r) == IF r <= CandidateTopK THEN (w * Scale) \div (RankConstant + r) ELSE 0

\* A better rank adds more.
LEMMA PartFalls ==
    ASSUME NEW w \in Nat \ {0}, NEW p \in 1 .. Unranked, NEW q \in 1 .. Unranked
    PROVE  /\ Part(w, p) \in Nat /\ Part(w, p) <= w * Scale
           /\ p < q => Part(w, p) > Part(w, q)
<1>1. /\ CandidateTopK \in Nat /\ RankConstant \in Nat \ {0} /\ Scale \in Nat \ {0}
      /\ \A r \in 1 .. CandidateTopK : Scale % (RankConstant + r) = 0
  BY SettingsAssumption, UnitAssumption DEF AlgorithmConfigValid
<1>2. ASSUME NEW r \in 1 .. CandidateTopK
      PROVE  \E m \in Nat \ {0} : Scale = m * (RankConstant + r) /\ Part(w, r) = w * m
  <2>1. RankConstant + r \in Nat \ {0} /\ Scale % (RankConstant + r) = 0
    BY <1>1
  <2>2. \E m \in Nat \ {0} : Scale = m * (RankConstant + r)
                             /\ (w * Scale) \div (RankConstant + r) = w * m
    <3>1. PICK d \in Nat \ {0} : d = RankConstant + r
      BY <2>1
    <3>2. PICK k \in Nat : Scale = k * d
      <4>1. Scale % d = 0
        BY <2>1, <3>1
      <4>2. \E k \in Nat, m \in Nat : m = Scale % d /\ Scale = d * k + m
        BY <1>1
      <4>3. PICK k \in Nat : Scale = d * k + 0
        BY <4>1, <4>2
      <4> QED
        BY <4>3
    <3>3. k # 0
      BY <1>1, <3>2
    <3>4. (w * (k * d)) \div d = w * k
      BY Multiple
    <3> QED
      BY <3>1, <3>2, <3>3, <3>4
  <2>3. r <= CandidateTopK
    BY <1>1
  <2> QED
    BY <2>2, <2>3 DEF Part
<1>3. \A r \in 1 .. Unranked : r \in 1 .. CandidateTopK \/ (r = Unranked /\ Part(w, r) = 0)
  BY <1>1 DEF Unranked, Part
<1>4. w * Scale \in Nat
  BY <1>1
<1>5. ASSUME NEW r \in 1 .. Unranked
      PROVE  /\ Part(w, r) \in Nat /\ Part(w, r) <= w * Scale
             /\ r # Unranked => Part(w, r) > 0
  <2>1. CASE r \in 1 .. CandidateTopK
    <3>1. PICK m \in Nat \ {0} : Scale = m * (RankConstant + r) /\ Part(w, r) = w * m
      BY <1>2, <2>1
    <3> DEFINE k == RankConstant + r - 1
    <3>2. k \in Nat /\ RankConstant + r = k + 1
      BY <1>1, <2>1
    <3> HIDE DEF k
    <3>3. m * (k + 1) = m * k + m /\ m * k \in Nat
      BY <3>2
    <3>4. m <= Scale
      BY <1>1, <3>1, <3>2, <3>3
    <3>5. PICK e \in Nat : Scale = m + e
      BY <1>1, <3>4
    <3>6. w * (m + e) = w * m + w * e /\ w * e \in Nat /\ w * m \in Nat /\ w * m > 0
      OBVIOUS
    <3> QED
      BY <3>1, <3>5, <3>6
  <2> QED
    BY <1>3, <1>4, <2>1
<1>6. ASSUME p < q PROVE Part(w, p) > Part(w, q)
  <2>1. p \in 1 .. CandidateTopK /\ p # Unranked
    BY <1>1, <1>6 DEF Unranked
  <2>2. CASE q = Unranked
    BY <1>3, <1>1, <1>5, <2>1, <2>2 DEF Part, Unranked
  <2>3. CASE q \in 1 .. CandidateTopK
    <3>1. PICK m \in Nat \ {0} : Scale = m * (RankConstant + p) /\ Part(w, p) = w * m
      BY <1>2, <2>1
    <3>2. PICK n \in Nat \ {0} : Scale = n * (RankConstant + q) /\ Part(w, q) = w * n
      BY <1>2, <2>3
    <3> DEFINE a == RankConstant + p
               b == RankConstant + q
    <3>3. a \in Nat \ {0} /\ b \in Nat \ {0} /\ a < b
      BY <1>1, <1>6
    <3>4. m * a = n * b
      BY <3>1, <3>2
    <3> HIDE DEF a, b
    <3>5. n < m
      <4> SUFFICES ASSUME m <= n PROVE FALSE
        OBVIOUS
      <4>1. PICK e \in Nat : n = m + e
        OBVIOUS
      <4>2. a * m + m <= b * m
        BY <3>3, Products
      <4>3. (m + e) * b = m * b + e * b /\ e * b \in Nat /\ a * m = m * a /\ b * m = m * b
        BY <3>3
      <4>4. m * a \in Nat /\ m * b \in Nat
        BY <3>3
      <4> QED
        BY <3>4, <4>1, <4>2, <4>3, <4>4
    <3>6. n * w + w <= m * w
      BY <3>5, Products
    <3>7. n * w = w * n /\ m * w = w * m /\ w * n \in Nat /\ w * m \in Nat
      OBVIOUS
    <3> QED
      BY <3>1, <3>2, <3>6, <3>7
  <2> QED
    BY <1>3, <2>2, <2>3
<1> QED
  BY <1>5, <1>6

\* The ranks of the candidates, and their scores as sums of what these add.
FusionSound ==
    /\ phase \in {"bm25", "vectors"} => Len(dense) <= CandidateTopK
    /\ phase = "vectors" => Len(lexical) <= CandidateTopK
    /\ \A c \in DOMAIN candidates :
          LET k == candidates[c]
          IN  /\ k.dense \in 1 .. Unranked /\ k.bm25 \in 1 .. Unranked
              /\ k.score = Part(DenseWeight, k.dense) + Part(Bm25Weight, k.bm25)

\* What a ranking adds depends on the rank alone.
LEMMA GainIsPart ==
    ASSUME NEW list \in Seq(Chunk), Len(list) <= CandidateTopK, NEW c, NEW w
    PROVE  Rank(list, c) \in 1 .. Unranked /\ Gain(w, list, c) = Part(w, Rank(list, c))
<1>1. CandidateTopK \in Nat /\ Len(list) \in Nat /\ DOMAIN list = 1 .. Len(list)
  BY SettingsAssumption DEF AlgorithmConfigValid
<1>2. CASE c \in Range(list)
  <2>1. \E i \in DOMAIN list : list[i] = c
    BY <1>2 DEF Range
  <2>2. Rank(list, c) \in 1 .. Len(list)
    BY <1>1, <1>2, <2>1 DEF Rank
  <2>3. Rank(list, c) \in 1 .. Unranked /\ Rank(list, c) <= CandidateTopK
    BY <1>1, <2>2 DEF Unranked
  <2> QED
    BY <1>2, <2>3 DEF Gain, Part
<1>3. CASE c \notin Range(list)
  BY <1>1, <1>3 DEF Rank, Gain, Part, Unranked
<1> QED
  BY <1>2, <1>3

\* The scores are fixed when the rankings are fused.
LEMMA NextFusion == IInv /\ FusionSound /\ [Next]_vars => FusionSound'
<1> SUFFICES ASSUME IInv, FusionSound, [Next]_vars PROVE FusionSound'
  OBVIOUS
<1>1. TypeOK /\ CandidateTopK \in Nat /\ Cardinality(Chunk) \in Nat
  BY ChunkCount, SettingsAssumption DEF IInv, AlgorithmConfigValid
<1>2. /\ Min({CandidateTopK, Cardinality(Chunk)}) \in Nat
      /\ Min({CandidateTopK, Cardinality(Chunk)}) <= CandidateTopK
  BY <1>1, MinOfTwo
<1>3. CASE QueryDense
  <2> DEFINE size == Min({CandidateTopK, Cardinality(Chunk)})
  <2>1. {size} \in SUBSET Nat /\ dense' \in Rankings({size}) /\ size <= CandidateTopK
    BY <1>2, <1>3 DEF QueryDense
  <2> HIDE DEF size
  <2>2. Len(dense') \in {size}
    BY <2>1, RankingType
  <2> QED
    BY <1>3, <2>1, <2>2 DEF QueryDense, FusionSound
<1>4. CASE QueryBm25
  <2> DEFINE size == Min({CandidateTopK, Cardinality(Chunk)})
  <2>1. 0 .. size \in SUBSET Nat /\ lexical' \in Rankings(0 .. size) /\ size <= CandidateTopK /\ size \in Nat
    BY <1>2, <1>4 DEF QueryBm25
  <2> HIDE DEF size
  <2>2. Len(lexical') \in 0 .. size
    BY <2>1, RankingType
  <2>3. Len(lexical') <= CandidateTopK
    BY <1>1, <2>1, <2>2
  <2> QED
    BY <1>4, <2>3 DEF QueryBm25, FusionSound
<1>5. CASE FetchVectors
  <2>1. /\ dense \in Seq(Chunk) /\ Len(dense) <= CandidateTopK
        /\ lexical \in Seq(Chunk) /\ Len(lexical) <= CandidateTopK
    BY <1>1, <1>5 DEF FetchVectors, FusionSound, TypeOK
  <2>2. ASSUME NEW c \in Range(dense) \cup Range(lexical)
        PROVE  LET k == candidates'[c]
               IN  /\ k.dense \in 1 .. Unranked /\ k.bm25 \in 1 .. Unranked
                   /\ k.score = Part(DenseWeight, k.dense) + Part(Bm25Weight, k.bm25)
    <3>1. candidates'[c] = Fused(c)
      BY <1>5 DEF FetchVectors
    <3>2. /\ Rank(dense, c) \in 1 .. Unranked /\ Rank(lexical, c) \in 1 .. Unranked
          /\ Gain(DenseWeight, dense, c) = Part(DenseWeight, Rank(dense, c))
          /\ Gain(Bm25Weight, lexical, c) = Part(Bm25Weight, Rank(lexical, c))
      BY <2>1, GainIsPart
    <3> QED
      BY <3>1, <3>2 DEF Fused
  <2>3. phase' = "mmr" /\ DOMAIN candidates' = Range(dense) \cup Range(lexical)
    BY <1>5 DEF FetchVectors
  <2> QED
    BY <2>2, <2>3 DEF FusionSound
<1>6. CASE Selected
  BY <1>6 DEF Selected, FusionSound
<1>7. ASSUME NEW k \in 0 .. TopKMax + 1, Request(k) PROVE FusionSound'
  BY <1>7 DEF Request, FusionSound, ranking
<1>8. CASE SelectNext \/ StartGroup \/ Finish \/ Fail \/ UNCHANGED vars
             \/ \E n \in pending : Consider(n)
  BY <1>8 DEF SelectNext, StartGroup, Finish, Fail, Consider, FusionSound, vars, ranking
<1> QED
  BY <1>3, <1>4, <1>5, <1>6, <1>7, <1>8 DEF Next

\* What the scores decide.
LEMMA FusionRanks == FusionSound => RankedByBoth
<1> SUFFICES ASSUME FusionSound, NEW a \in DOMAIN candidates, NEW b \in DOMAIN candidates,
                    candidates[a].dense <= candidates[b].dense,
                    candidates[a].bm25 <= candidates[b].bm25,
                    \/ candidates[a].dense < candidates[b].dense
                    \/ candidates[a].bm25 < candidates[b].bm25
             PROVE  Precedes(a, b)
  BY DEF RankedByBoth
<1>1. /\ candidates[a].dense \in 1 .. Unranked /\ candidates[b].dense \in 1 .. Unranked
      /\ candidates[a].bm25 \in 1 .. Unranked /\ candidates[b].bm25 \in 1 .. Unranked
      /\ candidates[a].score = Part(DenseWeight, candidates[a].dense)
                               + Part(Bm25Weight, candidates[a].bm25)
      /\ candidates[b].score = Part(DenseWeight, candidates[b].dense)
                               + Part(Bm25Weight, candidates[b].bm25)
  BY DEF FusionSound
<1>2. DenseWeight \in Nat \ {0} /\ Bm25Weight \in Nat \ {0}
  BY SettingsAssumption DEF AlgorithmConfigValid
<1>3. ASSUME NEW w \in Nat \ {0}, NEW p \in 1 .. Unranked, NEW q \in 1 .. Unranked, p <= q
      PROVE  /\ Part(w, p) \in Nat /\ Part(w, q) \in Nat /\ Part(w, p) >= Part(w, q)
             /\ p < q => Part(w, p) > Part(w, q)
  <2>1. /\ Part(w, p) \in Nat /\ Part(w, q) \in Nat
        /\ p < q => Part(w, p) > Part(w, q)
    BY <1>3, PartFalls
  <2>2. p < q \/ p = q
    BY <1>3, SettingsAssumption DEF AlgorithmConfigValid, Unranked
  <2> QED
    BY <2>1, <2>2
<1>4. candidates[a].score > candidates[b].score
  BY <1>1, <1>2, <1>3
<1>5. SortKey(a)[1] < SortKey(b)[1]
  BY <1>1, <1>2, <1>3, <1>4 DEF SortKey
<1>6. 1 \in 1 .. 5 /\ 1 .. 1 - 1 = {}
  OBVIOUS
<1> QED
  BY <1>5, <1>6 DEF Precedes

\* RankedByBoth: what _fuse_rrf adds for a rank falls strictly with it, so a candidate
\* that neither search ranks behind another has the higher score; the rest of
\* _fusion_sort_key never decides against it.
THEOREM AgreementCounts == Spec => []RankedByBoth
<1>1. Init => FusionSound
  BY DEF Init, FusionSound
<1> QED
  BY <1>1, FusionRanks, Invariance, NextFusion, PTL DEF Spec

-----------------------------------------------------------------------------
(* Diversity.                                                              *)

\* A set of numbers has a least one.
LEMMA LeastNumber == ASSUME NEW T \in SUBSET Nat, T # {}
                     PROVE  \E x \in T : \A y \in T : x <= y
<1> DEFINE R == OpToRel(<, Nat)
<1>1. PICK x \in T : \A y \in T : ~(<<y, x>> \in R)
  <2>1. IsWellFoundedOn(R, Nat)
    BY NatLessThanWellFounded
  <2> HIDE DEF R
  <2> QED
    BY <2>1, WFMin
<1>2. \A y \in T : ~(y < x)
  BY <1>1 DEF OpToRel
<1> QED
  BY <1>2

\* One of finitely many numbers is the largest.
LEMMA Largest ==
    ASSUME NEW n \in Nat \ {0}, NEW f \in [1 .. n -> Int]
    PROVE  \E i \in 1 .. n : \A j \in 1 .. n : f[j] <= f[i]
<1> DEFINE Tops(k) == \E i \in 1 .. k : \A j \in 1 .. k : f[j] <= f[i]
           T == {k \in 1 .. n : ~Tops(k)}
<1>1. T \in SUBSET Nat /\ \A k \in 1 .. n : k \in T <=> ~Tops(k)
  OBVIOUS
<1>2. n \in 1 .. n
  OBVIOUS
<1>3. Tops(1)
  <2>1. 1 .. 1 = {1} /\ f[1] <= f[1]
    OBVIOUS
  <2> QED
    BY <2>1
<1>4. ASSUME NEW k \in 2 .. n, Tops(k - 1) PROVE Tops(k)
  <2>1. PICK i \in 1 .. k - 1 : \A j \in 1 .. k - 1 : f[j] <= f[i]
    BY <1>4
  <2>2. /\ i \in 1 .. k /\ k \in 1 .. k
        /\ \A j \in 1 .. k : j \in 1 .. k - 1 \/ j = k
        /\ \A j \in 1 .. k : f[j] \in Int
    OBVIOUS
  <2>3. CASE f[k] <= f[i]
    BY <2>1, <2>2, <2>3
  <2>4. CASE f[i] < f[k]
    <3>1. \A j \in 1 .. k : f[j] <= f[k]
      BY <2>1, <2>2, <2>4
    <3> QED
      BY <2>2, <3>1
  <2> QED
    BY <2>2, <2>3, <2>4
<1> HIDE DEF T
<1>5. T = {}
  <2> SUFFICES ASSUME T # {} PROVE FALSE
    OBVIOUS
  <2>1. PICK k \in T : \A l \in T : k <= l
    BY <1>1, LeastNumber
  <2> HIDE DEF Tops
  <2>2. k \in 1 .. n /\ ~Tops(k)
    <3>1. k \in 1 .. n
      BY DEF T
    <3> QED
      BY <1>1, <3>1
  <2>3. k # 1
    BY <1>3, <2>2
  <2>4. k \in 2 .. n /\ k - 1 \in 1 .. n /\ k - 1 < k
    BY <2>2, <2>3
  <2>5. Tops(k - 1)
    BY <1>1, <2>1, <2>4
  <2> QED
    BY <1>4, <2>2, <2>4, <2>5
<1>6. Tops(n)
  <2> HIDE DEF Tops
  <2> QED
    BY <1>1, <1>2, <1>5
<1> QED
  BY <1>6

\* The same for the values of a function on a finite set.
LEMMA LargestOf ==
    ASSUME NEW S, IsFiniteSet(S), S # {}, NEW g \in [S -> Int]
    PROVE  \E x \in S : \A y \in S : g[y] <= g[x]
<1>1. PICK n \in Nat : ExistsBijection(1 .. n, S)
  BY FS_CardinalityType
<1>2. PICK h \in [1 .. n -> S] : \A y \in S : \E i \in 1 .. n : h[i] = y
  BY <1>1 DEF ExistsBijection, Bijection, Surjection
<1>3. n # 0
  BY <1>2
<1> DEFINE f == [i \in 1 .. n |-> g[h[i]]]
<1>4. f \in [1 .. n -> Int]
  BY <1>2
<1>5. PICK i \in 1 .. n : \A j \in 1 .. n : f[j] <= f[i]
  <2> HIDE DEF f
  <2> QED
    BY <1>1, <1>3, <1>4, Largest
<1>6. \A j \in 1 .. n : g[h[j]] <= g[h[i]]
  BY <1>5
<1> QED
  BY <1>2, <1>6

\* The largest and the smallest value of a function on a finite set.
LEMMA Extremes ==
    ASSUME NEW S, IsFiniteSet(S), S # {}, NEW g \in [S -> Int]
    PROVE  LET V == {g[x] : x \in S}
           IN  /\ Max(V) \in Int /\ \A x \in S : g[x] <= Max(V)
               /\ Min(V) \in Int /\ \A x \in S : Min(V) <= g[x]
               /\ Min(V) \in V /\ Max(V) \in V
<1> DEFINE V == {g[x] : x \in S}
           minus == [x \in S |-> -g[x]]
<1>1. V \subseteq Int
  OBVIOUS
<1>2. PICK x \in S : \A y \in S : g[y] <= g[x]
  BY LargestOf
<1>3. g[x] \in V /\ \A v \in V : g[x] >= v
  BY <1>2
<1>4. minus \in [S -> Int]
  OBVIOUS
<1>5. PICK z \in S : \A y \in S : minus[y] <= minus[z]
  <2> HIDE DEF minus
  <2> QED
    BY <1>4, LargestOf
<1>6. g[z] \in V /\ \A v \in V : g[z] =< v
  BY <1>5
<1>7. Max(V) \in V /\ \A v \in V : Max(V) >= v
  <2> HIDE DEF V
  <2> QED
    BY <1>3 DEF Max
<1>8. Min(V) \in V /\ \A v \in V : Min(V) =< v
  <2> HIDE DEF V
  <2> QED
    BY <1>6 DEF Min
<1> QED
  BY <1>1, <1>7, <1>8

\* Scores are numbers, and so is the width between them.
LEMMA SpreadType ==
    ASSUME TypeOK, DOMAIN candidates # {}
    PROVE  /\ \A c \in DOMAIN candidates : Score(c) \in Int
           /\ Spread \in Nat \ {0}
           /\ \A c \in DOMAIN candidates : Relevance(c) \in Int
           /\ \A c, d \in DOMAIN candidates :
                 /\ Score(c) = Score(d) => Relevance(c) = Relevance(d)
                 /\ Score(c) > Score(d) => Relevance(c) > Relevance(d)
<1> DEFINE D == DOMAIN candidates
           g == [c \in D |-> Score(c)]
           V == {Score(c) : c \in D}
<1>1. IsFiniteSet(D)
  BY IndexAssumption, FS_Subset DEF TypeOK
<1>2. \A c \in D : Score(c) \in Int
  BY DEF TypeOK, FusionCandidate, Score
<1>3. /\ Max(V) \in Int /\ \A c \in D : Score(c) <= Max(V)
      /\ Min(V) \in Int /\ \A c \in D : Min(V) <= Score(c)
      /\ Min(V) \in V /\ Max(V) \in V
  <2>1. g \in [D -> Int]
    BY <1>2
  <2>2. {g[c] : c \in D} = V /\ \A c \in D : g[c] = Score(c)
    OBVIOUS
  <2> HIDE DEF g, V, D
  <2>3. D # {}
    BY DEF D
  <2>4. LET W == {g[c] : c \in D}
        IN  /\ Max(W) \in Int /\ \A c \in D : g[c] <= Max(W)
            /\ Min(W) \in Int /\ \A c \in D : Min(W) <= g[c]
            /\ Min(W) \in W /\ Max(W) \in W
    BY <1>1, <2>1, <2>3, Extremes
  <2> QED
    BY <2>2, <2>4
<1>4. PICK low \in Int, high \in Int :
         /\ low = Min(V) /\ high = Max(V)
         /\ Spread = (IF low = high THEN 1 ELSE high - low)
         /\ \A c \in D : Relevance(c) = (IF \A d \in D : Score(d) = low THEN 1 ELSE Score(c) - low)
         /\ \A c \in D : low <= Score(c) /\ Score(c) <= high
  BY <1>3 DEF Spread, Relevance
<1>5. Spread \in Nat \ {0}
  <2>1. low <= high
    BY <1>2, <1>4
  <2> QED
    BY <1>4, <2>1
<1> QED
  BY <1>2, <1>4, <1>5

\* The penalty of a candidate is a number.
LEMMA PenaltyType ==
    ASSUME sim \in Similarities, NEW c \in Chunk, NEW chosen \in SUBSET Chunk
    PROVE  Penalty(c, chosen) \in Int
<1>1. sim[c] \in [Chunk -> Int]
  BY IndexAssumption
<1>2. CASE chosen = {}
  BY <1>2 DEF Penalty
<1>3. CASE chosen # {}
  <2> DEFINE g == [d \in chosen |-> sim[c][d]]
  <2>1. g \in [chosen -> Int] /\ {g[d] : d \in chosen} = {sim[c][d] : d \in chosen}
    BY <1>1
  <2>2. IsFiniteSet(chosen)
    BY IndexAssumption, FS_Subset
  <2> HIDE DEF g
  <2>3. Max({g[d] : d \in chosen}) \in Int
    BY <1>3, <2>1, <2>2, Extremes
  <2> QED
    BY <1>3, <2>1, <2>3 DEF Penalty
<1> QED
  BY <1>2, <1>3

\* Multiplying keeps the order.
LEMMA Scaled ==
    ASSUME NEW a \in Int, NEW b \in Int, NEW k \in Nat
    PROVE  /\ a <= b => a * k <= b * k /\ k * a <= k * b
           /\ a < b /\ k # 0 => a * k < b * k /\ k * a < k * b
<1>1. ASSUME a <= b PROVE a * k <= b * k /\ k * a <= k * b
  <2>1. PICK e \in Nat : b = a + e
    BY <1>1, b - a \in Nat /\ b = a + (b - a)
  <2>2. (a + e) * k = a * k + e * k /\ e * k \in Nat /\ a * k \in Int /\ k * a = a * k /\ k * b = b * k
    OBVIOUS
  <2> QED
    BY <2>1, <2>2
<1>2. ASSUME a < b, k # 0 PROVE a * k < b * k /\ k * a < k * b
  <2>1. PICK e \in Nat : b = a + e + 1
    BY <1>2, b - a - 1 \in Nat /\ b = a + (b - a - 1) + 1
  <2>2. (a + e + 1) * k = a * k + e * k + k /\ e * k \in Nat /\ a * k \in Int /\ k * a = a * k /\ k * b = b * k
    OBVIOUS
  <2> QED
    BY <1>2, <2>1, <2>2
<1> QED
  BY <1>1, <1>2

\* The two parts of an MMR score.
LEMMA Weighed ==
    ASSUME NEW w \in Nat \ {0}, NEW v \in Nat, NEW u \in Nat \ {0}, NEW s \in Nat \ {0},
           NEW r \in Int, NEW q \in Int, NEW p \in Int, NEW o \in Int,
           w * r * u - v * p * s >= w * q * u - v * o * s
    PROVE  /\ q > r => o > p
           /\ q = r /\ v > 0 => o >= p
<1>1. /\ w * r \in Int /\ w * q \in Int /\ v * p \in Int /\ v * o \in Int
      /\ w * r * u \in Int /\ w * q * u \in Int /\ v * p * s \in Int /\ v * o * s \in Int
  OBVIOUS
<1>2. ASSUME q > r, o <= p PROVE FALSE
  <2>1. w * r < w * q
    BY <1>2, Scaled
  <2>2. w * r * u < w * q * u
    BY <1>1, <2>1, Scaled
  <2>3. v * o <= v * p
    BY <1>2, Scaled
  <2>4. v * o * s <= v * p * s
    BY <1>1, <2>3, Scaled
  <2> QED
    BY <1>1, <2>2, <2>4
<1>3. ASSUME q = r, v > 0, o < p PROVE FALSE
  <2>1. v * o < v * p
    BY <1>3, Scaled
  <2>2. v * o * s < v * p * s
    BY <1>1, <2>1, Scaled
  <2> QED
    BY <1>1, <1>3, <2>2
<1> QED
  BY <1>2, <1>3

\* What one choice of the loop shows.
LEMMA ChoiceSound ==
    ASSUME TypeOK, sim \in Similarities, NEW x \in DOMAIN candidates, NEW c \in DOMAIN candidates,
           NEW chosen \in SUBSET Chunk, Beats(x, c, chosen)
    PROVE  /\ Score(c) > Score(x) => Penalty(c, chosen) > Penalty(x, chosen)
           /\ Score(c) = Score(x) /\ Lambda < Unit =>
                 Penalty(c, chosen) >= Penalty(x, chosen)
<1>1. x \in Chunk /\ c \in Chunk
  BY DEF TypeOK
<1>2. PICK p \in Int, o \in Int : p = Penalty(x, chosen) /\ o = Penalty(c, chosen)
  BY <1>1, PenaltyType
<1>3. /\ Score(x) \in Int /\ Score(c) \in Int
      /\ Spread \in Nat \ {0} /\ Relevance(x) \in Int /\ Relevance(c) \in Int
      /\ Score(c) = Score(x) => Relevance(c) = Relevance(x)
      /\ Score(c) > Score(x) => Relevance(c) > Relevance(x)
  BY SpreadType
<1>4. PICK s \in Nat \ {0}, r \in Int, q \in Int :
         s = Spread /\ r = Relevance(x) /\ q = Relevance(c)
  BY <1>3
<1>5. Unit \in Nat \ {0} /\ Lambda \in Nat \ {0} /\ Lambda <= Unit
  BY SettingsAssumption, UnitAssumption DEF AlgorithmConfigValid
<1>6. PICK v \in Nat : v = Unit - Lambda /\ (Lambda < Unit => v > 0)
  BY <1>5
<1>7. /\ Marginal(x, chosen) = Lambda * r * Unit - v * p * s
      /\ Marginal(c, chosen) = Lambda * q * Unit - v * o * s
  BY <1>2, <1>4, <1>6 DEF Marginal
<1>8. /\ Lambda * r * Unit - v * p * s \in Int
      /\ Lambda * q * Unit - v * o * s \in Int
  BY <1>5
<1>9. Lambda * r * Unit - v * p * s >= Lambda * q * Unit - v * o * s
  BY <1>7, <1>8 DEF Beats
<1>10. (q > r => o > p) /\ (q = r /\ v > 0 => o >= p)
  BY <1>5, <1>9, Weighed
<1> QED
  BY <1>2, <1>3, <1>4, <1>6, <1>10

\* While MMR runs, the similarities are those of an index.
DiverseInv == Diverse /\ (phase = "mmr" => sim \in Similarities)

\* Choosing a core is the only step that can disturb it.
LEMMA NextDiverse == IInv /\ DiverseInv /\ [Next]_vars => DiverseInv'
<1> SUFFICES ASSUME IInv, DiverseInv, [Next]_vars PROVE DiverseInv'
  OBVIOUS
<1>1. TypeOK /\ PhaseSound
  BY DEF IInv
<1>2. CASE FetchVectors
  <2>1. sim' \in Similarities /\ cores' = <<>> /\ Len(cores') = 0
    BY <1>1, <1>2 DEF FetchVectors, PhaseSound
  <2> QED
    BY <2>1 DEF DiverseInv, Diverse
<1>3. CASE SelectNext
  <2>1. PICK x \in Remaining : /\ \A d \in Remaining \ {x} : Beats(x, d, Range(cores))
                               /\ cores' = Append(cores, x)
    BY <1>3 DEF SelectNext
  <2>2. /\ phase = "mmr" /\ phase' = "mmr" /\ sim' = sim /\ candidates' = candidates
        /\ sim \in Similarities
    BY <1>3 DEF SelectNext, DiverseInv, ranking
  <2>3. PICK n \in Nat : /\ n = Len(cores) /\ Len(cores') = n + 1
                         /\ cores'[n + 1] = x
                         /\ \A i \in 1 .. n : cores'[i] = cores[i] /\ cores[i] \in Chunk
                         /\ Range(cores) = {cores[i] : i \in 1 .. n}
                         /\ Range(cores') = Range(cores) \cup {x}
    <3>1. cores \in Seq(Chunk) /\ x \in Chunk
      BY <1>1 DEF TypeOK, Remaining
    <3>2. /\ Len(cores) \in Nat /\ Len(cores') = Len(cores) + 1
          /\ cores'[Len(cores) + 1] = x
          /\ \A i \in 1 .. Len(cores) : cores'[i] = cores[i] /\ cores[i] \in Chunk
          /\ DOMAIN cores = 1 .. Len(cores) /\ DOMAIN cores' = 1 .. Len(cores) + 1
      BY <2>1, <3>1
    <3>3. Range(cores) = {cores[i] : i \in 1 .. Len(cores)}
      BY <3>2 DEF Range
    <3>4. Range(cores') = Range(cores) \cup {x}
      <4>1. Range(cores') = {cores'[i] : i \in 1 .. Len(cores) + 1}
        BY <3>2 DEF Range
      <4>2. \A i \in 1 .. Len(cores) + 1 : i \in 1 .. Len(cores) \/ i = Len(cores) + 1
        BY <3>2
      <4>3. 1 .. Len(cores) \subseteq 1 .. Len(cores) + 1 /\ Len(cores) + 1 \in 1 .. Len(cores) + 1
        BY <3>2
      <4> QED
        BY <3>2, <3>3, <4>1, <4>2, <4>3
    <3> QED
      BY <3>2, <3>3, <3>4
  <2>4. Remaining' = Remaining \ {x} /\ Remaining \subseteq DOMAIN candidates
    BY <2>2, <2>3 DEF Remaining
  <2>5. \A i \in 1 .. n + 1 : i \in 1 .. n \/ i = n + 1
    OBVIOUS
  <2>6. \A i \in 1 .. n + 1 : {cores'[j] : j \in 1 .. i - 1} = {cores[j] : j \in 1 .. i - 1}
    <3>1. \A i \in 1 .. n + 1 : \A j \in 1 .. i - 1 : j \in 1 .. n
      OBVIOUS
    <3> QED
      BY <2>3, <3>1
  <2> DEFINE Better(c, core, before) ==
               /\ Score(c) > Score(core) => Penalty(c, before) > Penalty(core, before)
               /\ Score(c) = Score(core) /\ Lambda < Unit =>
                     Penalty(c, before) >= Penalty(core, before)
  <2>7. \A i \in 1 .. n : \A c \in Remaining : Better(c, cores[i], {cores[j] : j \in 1 .. i - 1})
    BY <2>2, <2>3 DEF DiverseInv, Diverse
  <2>8. \A c \in Remaining \ {x} : Better(c, x, Range(cores))
    <3>1. Range(cores) \in SUBSET Chunk
      BY <2>3
    <3> QED
      BY <1>1, <2>1, <2>2, <2>4, <3>1, ChoiceSound
  <2>9. ASSUME NEW i \in 1 .. n + 1, NEW c \in Remaining \ {x}
         PROVE  Better(c, cores'[i], {cores'[j] : j \in 1 .. i - 1})
    <3>1. CASE i \in 1 .. n
      BY <2>3, <2>6, <2>7, <3>1
    <3>2. CASE i = n + 1
      <4>1. cores'[i] = x /\ {cores'[j] : j \in 1 .. i - 1} = Range(cores)
        <5>1. i - 1 = n
          BY <3>2
        <5> QED
          BY <2>3, <2>6, <3>2, <5>1
      <4>2. Better(c, x, Range(cores))
        BY <2>8
      <4> HIDE DEF Better
      <4> QED
        BY <4>1, <4>2
    <3> QED
      BY <2>5, <3>1, <3>2
  <2>10. Diverse'
    <3> SUFFICES ASSUME NEW i \in 1 .. n + 1, NEW c \in Remaining \ {x}
                 PROVE  /\ (Score(c) > Score(cores[i]) =>
                              Penalty(c, {cores[j] : j \in 1 .. i - 1})
                                > Penalty(cores[i], {cores[j] : j \in 1 .. i - 1}))'
                        /\ (Score(c) = Score(cores[i]) /\ Lambda < Unit =>
                              Penalty(c, {cores[j] : j \in 1 .. i - 1})
                                >= Penalty(cores[i], {cores[j] : j \in 1 .. i - 1}))'
      BY <2>3, <2>4 DEF Diverse
    <3>1. Better(c, cores'[i], {cores'[j] : j \in 1 .. i - 1})
      BY <2>9
    <3> QED
      BY <3>1, <2>2 DEF Score, Penalty
  <2> QED
    BY <2>2, <2>10 DEF DiverseInv
<1>4. CASE UNCHANGED vars
  <2>1. UNCHANGED <<phase, candidates, sim, cores>>
    BY <1>4 DEF vars, ranking
  <2>2. Remaining' = Remaining
    BY <2>1 DEF Remaining, Range
  <2>3. Diverse
    BY DEF DiverseInv
  <2>4. Diverse'
    <3> SUFFICES ASSUME phase = "mmr", NEW i \in 1 .. Len(cores), NEW c \in Remaining
                 PROVE  /\ (Score(c) > Score(cores[i]) =>
                              Penalty(c, {cores[j] : j \in 1 .. i - 1})
                                > Penalty(cores[i], {cores[j] : j \in 1 .. i - 1}))'
                        /\ (Score(c) = Score(cores[i]) /\ Lambda < Unit =>
                              Penalty(c, {cores[j] : j \in 1 .. i - 1})
                                >= Penalty(cores[i], {cores[j] : j \in 1 .. i - 1}))'
      BY <2>1, <2>2 DEF Diverse
    <3> DEFINE before == {cores[j] : j \in 1 .. i - 1}
    <3>1. /\ Score(c) > Score(cores[i]) => Penalty(c, before) > Penalty(cores[i], before)
          /\ Score(c) = Score(cores[i]) /\ Lambda < Unit =>
                Penalty(c, before) >= Penalty(cores[i], before)
      BY <2>3 DEF Diverse
    <3> QED
      BY <2>1, <3>1 DEF Score, Penalty
  <2> QED
    BY <2>1, <2>4 DEF DiverseInv
<1>5. ASSUME NEW k \in 0 .. TopKMax + 1, Request(k) PROVE phase' # "mmr"
  BY <1>5 DEF Request
<1>6. CASE QueryDense \/ QueryBm25 \/ Selected \/ StartGroup \/ Finish \/ Fail
             \/ \E n \in pending : Consider(n)
  BY <1>6 DEF QueryDense, QueryBm25, Selected, StartGroup, Finish, Fail, Consider,
              DiverseInv, Diverse
<1> QED
  BY <1>2, <1>3, <1>4, <1>5, <1>6 DEF Next, DiverseInv, Diverse

\* Diverse: the MMR score weighs relevance against similarity with weights that are
\* not negative, so whatever beats a candidate in it is better in one of them.
THEOREM ChosenForAReason == Spec => []Diverse
<1>1. Init => DiverseInv
  BY DEF Init, DiverseInv, Diverse
<1> QED
  BY <1>1, Invariance, NextDiverse, PTL DEF Spec, DiverseInv
=============================================================================
