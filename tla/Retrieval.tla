----------------------------- MODULE Retrieval -----------------------------
(***************************************************************************)
(* One search of an active retrieval service (DenseRetrievalService.search *)
(* and P1ContextAssembler): Dense and BM25 rankings are fused by RRF, MMR  *)
(* selects the core chunks one by one, and each core gets a group with the *)
(* neighbours that fit.  The endpoint never yields, so a process has one   *)
(* search at a time; the index does not change under it (see RagIndex).    *)
(* A chunk is a number, the order of its id, which breaks the last ties.   *)
(* Scores are integers: RRF scores in units of 1/Scale, similarities and   *)
(* the MMR weight in units of 1/Unit.                                      *)
(***************************************************************************)
EXTENDS Integers, Sequences, FiniteSets, FiniteSetsExt

CONSTANTS Chunk,          \* the chunks of the active version
          Indexes,        \* where they may come from, and their sizes
          Similarities,   \* cosine similarities of the chunks' vectors
          NoParent,       \* the parent of text before any heading (None)
          Scale, Unit,    \* see above
          CandidateTopK, RankConstant, DenseWeight, Bm25Weight, Lambda,
          TopKMax, NoExpandThreshold, ContextBudget,
          SearchFaults    \* TRUE if embedding and Qdrant may fail

-----------------------------------------------------------------------------
(* The configuration and the index of an active service.                   *)

\* load_retrieval_algorithm_config refuses everything else.
AlgorithmConfigValid ==
    /\ CandidateTopK \in Nat \ {0}
    /\ RankConstant \in Nat \ {0}
    /\ DenseWeight \in Nat \ {0} /\ Bm25Weight \in Nat \ {0}
    /\ Lambda \in 1 .. Unit

\* _load_settings, and the last check of _validate_active_index.
SettingsValid ==
    /\ TopKMax \in 1 .. CandidateTopK
    /\ NoExpandThreshold \in Nat \ {0}
    /\ ContextBudget \in Nat /\ ContextBudget >= NoExpandThreshold

\* The payload fields a search uses, as from_point accepts them.
Payload == [doc     : [Chunk -> STRING],
            order   : [Chunk -> Nat],
            section : [Chunk -> STRING],
            parent  : [Chunk -> STRING],
            tokens  : [Chunk -> Nat \ {0}]]

\* _build_document_chunk_orders found no place of a document taken twice.
OnePerPlace(ix) == \A c, d \in Chunk :
    ix.doc[c] = ix.doc[d] /\ ix.order[c] = ix.order[d] => c = d

ASSUME SettingsAssumption == /\ AlgorithmConfigValid
                             /\ SettingsValid
                             /\ SearchFaults \in BOOLEAN
ASSUME UnitAssumption ==
    /\ Unit \in Nat \ {0} /\ Scale \in Nat \ {0}
    /\ \A rank \in 1 .. CandidateTopK : Scale % (RankConstant + rank) = 0
ASSUME IndexAssumption ==
    /\ Chunk \subseteq Nat /\ IsFiniteSet(Chunk)
    /\ Indexes \subseteq Payload
    /\ \A ix \in Indexes : OnePerPlace(ix)
    /\ Similarities \subseteq [Chunk -> [Chunk -> Int]]

VARIABLES index,       \* the payloads of the version
          phase,       \* where the search is
          topK,        \* the number of cores the search is to return
          dense,       \* the Dense ranking, best first
          lexical,     \* the BM25 ranking
          candidates,  \* the fused candidates with score and ranks
          sim,         \* the similarities of their vectors, <<>> before
          cores,       \* the chunks MMR has selected so far
          groups,      \* the context groups so far
          pending,     \* neighbours of the last core still to consider
          used,        \* used_extensions of assemble
          spent,       \* used_tokens of _select_extensions
          answer       \* the outcome of the last search

ranking == <<dense, lexical, candidates, sim>>
assembly == <<groups, pending, used, spent>>
vars == <<index, phase, topK, ranking, cores, assembly, answer>>

Phases == {"idle", "dense", "bm25", "vectors", "mmr", "expand"}
Answers == {"none", "documents", "rejected", "error"}
Group == [core : Chunk, extensions : SUBSET Chunk]

Init ==
    /\ index \in Indexes
    /\ phase = "idle" /\ topK = 0 /\ answer = "none"
    /\ dense = <<>> /\ lexical = <<>> /\ candidates = <<>> /\ sim = <<>>
    /\ cores = <<>> /\ groups = <<>>
    /\ pending = {} /\ used = {} /\ spent = 0

-----------------------------------------------------------------------------
(* Fusion and diversity.                                                   *)

\* Behind every candidate of a ranking (math.inf).
Unranked == CandidateTopK + 1

\* The place of c in a ranking, from 1.
Rank(list, c) ==
    IF c \in Range(list) THEN CHOOSE i \in DOMAIN list : list[i] = c ELSE Unranked

\* What a ranking adds to the score of c.
Gain(weight, list, c) ==
    IF c \in Range(list) THEN (weight * Scale) \div (RankConstant + Rank(list, c)) ELSE 0

FusionCandidate == [score : Int, dense : Int, bm25 : Int]

\* Mutant of Fused: the BM25 loop replaces the score of a Dense candidate.
FusedLast(c) ==
    [score |-> IF c \in Range(lexical) THEN Gain(Bm25Weight, lexical, c)
                                       ELSE Gain(DenseWeight, dense, c),
     dense |-> Rank(dense, c), bm25 |-> Rank(lexical, c)]

\* _fuse_rrf: a chunk found by both searches gets both parts.
Fused(c) ==
    [score |-> Gain(DenseWeight, dense, c) + Gain(Bm25Weight, lexical, c),
     dense |-> Rank(dense, c), bm25 |-> Rank(lexical, c)]

Score(c) == candidates[c].score

\* _fusion_sort_key
SortKey(c) ==
    LET k == candidates[c] IN <<-k.score, Min({k.dense, k.bm25}), k.dense, k.bm25, c>>

\* The order of the fused candidates: keys compared place by place.
Precedes(a, b) == \E i \in 1 .. 5 :
    /\ SortKey(a)[i] < SortKey(b)[i]
    /\ \A j \in 1 .. i - 1 : SortKey(a)[j] = SortKey(b)[j]

\* The width of the candidates' scores, 1 if they are all equal.
Spread ==
    LET scores == {Score(c) : c \in DOMAIN candidates}
    IN  IF Min(scores) = Max(scores) THEN 1 ELSE Max(scores) - Min(scores)

\* _normalize_rrf_scores, in units of 1/Spread.
Relevance(c) ==
    LET low == Min({Score(d) : d \in DOMAIN candidates})
    IN  IF \A d \in DOMAIN candidates : Score(d) = low THEN 1 ELSE Score(c) - low

\* Mutant of Penalty: only the core selected last counts.
PenaltyOfLast(c, chosen) ==
    IF chosen = {} THEN 0 ELSE sim[c][cores[Len(cores)]]

\* The largest similarity of c to a chosen chunk, 0 before the first.
Penalty(c, chosen) == IF chosen = {} THEN 0 ELSE Max({sim[c][d] : d \in chosen})

\* The MMR score, in units of 1/(Unit * Unit * Spread).
Marginal(c, chosen) ==
    Lambda * Relevance(c) * Unit - (Unit - Lambda) * Penalty(c, chosen) * Spread

\* min over (-score, _fusion_sort_key): c is chosen rather than d.
Beats(c, d, chosen) ==
    \/ Marginal(c, chosen) > Marginal(d, chosen)
    \/ Marginal(c, chosen) = Marginal(d, chosen) /\ Precedes(c, d)

-----------------------------------------------------------------------------
(* The search up to the core chunks.                                       *)

Rankings(sizes) == {s \in UNION {[1 .. n -> Chunk] : n \in sizes} : IsInjective(s)}

\* Mutant of Request: the range of top_k is not checked.
RequestAny(k) ==
    /\ phase = "idle"
    /\ topK' = k
    /\ phase' = "dense" /\ answer' = "none"
    /\ cores' = <<>> /\ groups' = <<>> /\ used' = {}
    /\ UNCHANGED <<index, ranking, pending, spent>>

\* POST /search: a top_k out of range is HTTP 400; otherwise the query is
\* embedded (a failure is Fail below).
Request(k) ==
    /\ phase = "idle"
    /\ cores' = <<>> /\ groups' = <<>> /\ used' = {}
    /\ \/ k \in 1 .. TopKMax /\ topK' = k /\ phase' = "dense" /\ answer' = "none"
       \/ k \notin 1 .. TopKMax /\ topK' = 0 /\ phase' = "idle" /\ answer' = "rejected"
    /\ UNCHANGED <<index, ranking, pending, spent>>

\* _query_dense_chunks: Qdrant ranks as many points as it is asked for.
QueryDense ==
    /\ phase = "dense"
    /\ dense' \in Rankings({Min({CandidateTopK, Cardinality(Chunk)})})
    /\ phase' = "bm25"
    /\ UNCHANGED <<index, topK, lexical, candidates, sim, cores, assembly, answer>>

\* Bm25Index.search ranks the chunks that share a token with the query; their
\* points are fetched by chunk id.
QueryBm25 ==
    /\ phase = "bm25"
    /\ lexical' \in Rankings(0 .. Min({CandidateTopK, Cardinality(Chunk)}))
    /\ phase' = "vectors"
    /\ UNCHANGED <<index, topK, dense, candidates, sim, cores, assembly, answer>>

\* The candidates of both rankings are merged and their vectors retrieved.
FetchVectors ==
    /\ phase = "vectors"
    /\ candidates' = [c \in Range(dense) \cup Range(lexical) |-> Fused(c)]
    /\ sim' \in Similarities
    /\ dense' = <<>> /\ lexical' = <<>>
    /\ phase' = "mmr"
    /\ UNCHANGED <<index, topK, cores, assembly, answer>>

Remaining == DOMAIN candidates \ Range(cores)

\* One turn of the loop of _select_mmr.
SelectNext ==
    /\ phase = "mmr"
    /\ Len(cores) < topK
    /\ \E c \in Remaining :
          /\ \A d \in Remaining \ {c} : Beats(c, d, Range(cores))
          /\ cores' = Append(cores, c)
    /\ UNCHANGED <<index, phase, topK, ranking, assembly, answer>>

\* The loop ends; the candidates were local to _query_hybrid_core_chunks.
Selected ==
    /\ phase = "mmr"
    /\ Len(cores) = topK \/ Remaining = {}
    /\ phase' = "expand"
    /\ candidates' = <<>> /\ sim' = <<>>
    /\ UNCHANGED <<index, topK, dense, lexical, cores, assembly, answer>>

-----------------------------------------------------------------------------
(* P1 context assembly.                                                    *)

\* _is_p1_related: one section, or sections with the same parent.
Related(c, d) ==
    /\ index.doc[c] = index.doc[d]
    /\ \/ index.section[c] = index.section[d]
       \/ index.parent[c] # NoParent /\ index.parent[c] = index.parent[d]

Place(doc, n) == {c \in Chunk : index.doc[c] = doc /\ index.order[c] = n}

\* _adjacent_chunk_ids: the chunks before and after c in its document.
Neighbours(c) ==
    Place(index.doc[c], index.order[c] - 1) \cup Place(index.doc[c], index.order[c] + 1)

\* A core of the threshold's size or more is not expanded.
Expandable(c) == index.tokens[c] < NoExpandThreshold

\* The loop of assemble reaches the next core.
StartGroup ==
    /\ phase = "expand" /\ pending = {}
    /\ Len(groups) < Len(cores)
    /\ LET c == cores[Len(groups) + 1]
       IN  /\ groups' = Append(groups, [core |-> c, extensions |-> {}])
           /\ pending' = IF Expandable(c) THEN Neighbours(c) ELSE {}
           /\ spent' = index.tokens[c]
    /\ UNCHANGED <<index, phase, topK, ranking, cores, used, answer>>

\* _ordered_adjacent_candidates: the chunk before the core comes first.
IsNext(n) == n \in pending /\ \A m \in pending : index.order[n] <= index.order[m]

Free(n) == n \notin Range(cores) /\ n \notin used
Fits(n) == spent + index.tokens[n] <= ContextBudget
Wanted(n) == Free(n) /\ Related(groups[Len(groups)].core, n) /\ Fits(n)

Extend(n) == groups' = [groups EXCEPT ![Len(groups)].extensions = @ \cup {n}]

\* Mutant of Consider: used_extensions is not updated.
ConsiderUnused(n) ==
    /\ phase = "expand" /\ IsNext(n)
    /\ pending' = pending \ {n}
    /\ \/ Wanted(n) /\ Extend(n) /\ spent' = spent + index.tokens[n]
       \/ ~Wanted(n) /\ UNCHANGED <<groups, spent>>
    /\ UNCHANGED <<index, phase, topK, ranking, cores, used, answer>>

\* Mutant of Consider: used_tokens is not updated.
ConsiderUnspent(n) ==
    /\ phase = "expand" /\ IsNext(n)
    /\ pending' = pending \ {n}
    /\ \/ Wanted(n) /\ Extend(n) /\ used' = used \cup {n}
       \/ ~Wanted(n) /\ UNCHANGED <<groups, used>>
    /\ UNCHANGED <<index, phase, topK, ranking, cores, spent, answer>>

\* Mutant of Consider: a neighbour that is not taken ends the loop.
ConsiderBreak(n) ==
    /\ phase = "expand" /\ IsNext(n)
    /\ \/ /\ Wanted(n) /\ Extend(n)
          /\ pending' = pending \ {n}
          /\ used' = used \cup {n}
          /\ spent' = spent + index.tokens[n]
       \/ ~Wanted(n) /\ pending' = {} /\ UNCHANGED <<groups, used, spent>>
    /\ UNCHANGED <<index, phase, topK, ranking, cores, answer>>

\* One turn of the loop of _select_extensions.
Consider(n) ==
    /\ phase = "expand" /\ IsNext(n)
    /\ pending' = pending \ {n}
    /\ \/ /\ Wanted(n) /\ Extend(n)
          /\ used' = used \cup {n}
          /\ spent' = spent + index.tokens[n]
       \/ ~Wanted(n) /\ UNCHANGED <<groups, used, spent>>
    /\ UNCHANGED <<index, phase, topK, ranking, cores, answer>>

\* search returns one document per group.
Finish ==
    /\ phase = "expand" /\ pending = {}
    /\ Len(groups) = Len(cores)
    /\ phase' = "idle" /\ answer' = "documents"
    /\ UNCHANGED <<index, topK, ranking, cores, assembly>>

\* The embedding service or Qdrant is asked for something now.
CallsOut ==
    \/ phase \in {"dense", "bm25", "vectors"}
    \/ /\ phase = "expand" /\ pending = {} /\ Len(groups) < Len(cores)
       /\ LET c == cores[Len(groups) + 1] IN Expandable(c) /\ Neighbours(c) # {}

\* The call fails: HTTP 503, and what was selected is lost.
Fail ==
    /\ SearchFaults /\ CallsOut
    /\ phase' = "idle" /\ answer' = "error"
    /\ dense' = <<>> /\ lexical' = <<>>
    /\ cores' = <<>> /\ groups' = <<>> /\ used' = {}
    /\ UNCHANGED <<index, topK, candidates, sim, pending, spent>>

Next ==
    \/ \E k \in 0 .. TopKMax + 1 : Request(k)
    \/ QueryDense \/ QueryBm25 \/ FetchVectors \/ SelectNext \/ Selected
    \/ StartGroup \/ (\E n \in pending : Consider(n)) \/ Finish
    \/ Fail

Spec == Init /\ [][Next]_vars

-----------------------------------------------------------------------------

\* The shape of the state.
TypeOK ==
    /\ index \in Indexes
    /\ phase \in Phases
    /\ topK \in 0 .. TopKMax
    /\ dense \in Seq(Chunk) /\ lexical \in Seq(Chunk)
    /\ DOMAIN candidates \subseteq Chunk
    /\ candidates \in [DOMAIN candidates -> FusionCandidate]
    /\ sim \in Similarities \cup {<<>>}
    /\ cores \in Seq(Chunk)
    /\ groups \in Seq(Group)
    /\ pending \subseteq Chunk /\ used \subseteq Chunk
    /\ spent \in Nat
    /\ answer \in Answers

\* Fusion respects agreement (_fuse_rrf, _fusion_sort_key): a candidate that
\* neither search ranks behind another, and one ranks before it, comes first.
RankedByBoth ==
    \A a, b \in DOMAIN candidates :
        LET p == candidates[a]
            q == candidates[b]
        IN  p.dense <= q.dense /\ p.bm25 <= q.bm25
            /\ (p.dense < q.dense \/ p.bm25 < q.bm25) => Precedes(a, b)

\* MMR (_select_mmr) never selects a core when a candidate that is left would
\* have been better in both respects: more relevant and no more similar to the
\* cores before it, or as relevant and, if similarity counts, less similar.
Diverse ==
    phase = "mmr" => \A i \in 1 .. Len(cores) :
        LET before == {cores[j] : j \in 1 .. i - 1}
        IN  \A c \in Remaining :
               /\ Score(c) > Score(cores[i]) =>
                     Penalty(c, before) > Penalty(cores[i], before)
               /\ Score(c) = Score(cores[i]) /\ Lambda < Unit =>
                     Penalty(c, before) >= Penalty(cores[i], before)

\* A search that succeeds returns as many groups as were asked for, or one for
\* every chunk there is: the reason for candidate_top_k >= dense_top_k_max.
EnoughCores ==
    answer = "documents" => Len(groups) = Min({topK, Cardinality(Chunk)})

\* No chunk reaches the prompt twice: the groups of a search are disjoint,
\* though cores may be neighbours, or have a neighbour in common.
NoChunkTwice ==
    \A i \in 1 .. Len(groups) :
        /\ groups[i].core \notin groups[i].extensions
        /\ \A j \in 1 .. Len(groups) : i # j =>
              ({groups[i].core} \cup groups[i].extensions)
                  \cap ({groups[j].core} \cup groups[j].extensions) = {}

\* A group that was extended is within the token budget.  Extensions are
\* neighbours of the core, so there are two at most.
BudgetKept ==
    \A i \in 1 .. Len(groups) :
        LET g == groups[i]
        IN  /\ g.extensions \subseteq Neighbours(g.core)
            /\ \A a, b \in g.extensions :
                  index.tokens[g.core] + index.tokens[a]
                      + (IF a = b THEN 0 ELSE index.tokens[b]) <= ContextBudget

\* The group at i is as it will be returned.
Done(i) == i < Len(groups) \/ pending = {}

\* Why n is not left out of the group at i by mistake: it is there, it is a
\* core, an earlier group has it, or it does not fit.
Explained(i, n) ==
    LET g == groups[i]
    IN  \/ n \in g.extensions
        \/ n \in Range(cores)
        \/ \E j \in 1 .. i - 1 : n \in groups[j].extensions
        \/ index.tokens[g.core] + index.tokens[n] > ContextBudget
        \/ \E e \in g.extensions :
              index.tokens[g.core] + index.tokens[e] + index.tokens[n] > ContextBudget

\* The greedy choice of _select_extensions misses nothing: for every related
\* neighbour that a finished group of a small core lacks there is a reason.
NothingMissed ==
    \A i \in 1 .. Len(groups) :
        Done(i) /\ Expandable(groups[i].core) =>
            \A n \in Neighbours(groups[i].core) :
                Related(groups[i].core, n) => Explained(i, n)
=============================================================================
