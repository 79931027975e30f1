----------------------------- MODULE Evaluation -----------------------------
(***************************************************************************)
(* The offline evaluation (rag_index.evaluation): a process of its own     *)
(* that drives the retrieval service of Retrieval over the cases of a file *)
(* and compares the Dense baseline with the hybrid search, up to MMR.  A   *)
(* process is either the web service ("serving") or one such job.          *)
(***************************************************************************)
EXTENDS Retrieval

CONSTANTS CaseFiles,      \* the contents of valid evaluation sets
          NoResult        \* there is no result file

\* _relevant_chunk_ids; of a case's chunks the active version may have none.
Case == [relevant : SUBSET Chunk, stress : STRING]

ASSUME CaseAssumption == CaseFiles \subseteq Seq(Case) \ {<<>>}
ASSUME ReciprocalAssumption == \A rank \in 1 .. TopKMax : Scale % rank = 0

VARIABLES job,         \* what the process does
          cases,       \* the loaded evaluation set
          turn,        \* the case under way, or done last
          limit,       \* --top-k-max
          denseRank,   \* the baseline's first hit for the case under way
          ranks,       \* mode_ranks: the first hit of each case done so far
          result       \* the result file

jobVars == <<job, cases, turn, limit, denseRank, ranks, result>>
allVars == <<vars, jobVars>>

Modes == {"dense", "hybrid"}

\* DEFAULT_CUTOFFS
Cutoffs == {1, 3, 5, 10}

\* No relevant chunk was returned (None).
NoRank == 0

JobInit ==
    /\ Init
    /\ job \in {"serving", "load"}
    /\ cases = <<>> /\ turn = 0
    /\ limit \in IF job = "serving" THEN {0} ELSE 0 .. TopKMax + 1
    /\ denseRank = NoRank
    /\ ranks = [mode \in Modes |-> <<>>]
    /\ result = NoResult

-----------------------------------------------------------------------------
(* Metrics.  Sums are exact; the file has them divided by the count.       *)

\* The place of the first relevant chunk in a ranking.
FirstRank(list, relevant) ==
    LET hits == {i \in DOMAIN list : list[i] \in relevant}
    IN  IF hits = {} THEN NoRank ELSE Min(hits)

\* Mutant of Hits: a hit at the cutoff itself does not count.
HitsBelow(of, S, cutoff) == Cardinality({i \in S : of[i] # NoRank /\ of[i] < cutoff})

\* The numerator of HitRate@cutoff over the cases S.
Hits(of, S, cutoff) == Cardinality({i \in S : of[i] # NoRank /\ of[i] <= cutoff})

\* The numerator of MRR@top_k_max, in units of 1/Scale.
Reciprocals(of, S) ==
    SumFunction([i \in S |-> IF of[i] \in 1 .. limit THEN Scale \div of[i] ELSE 0])

\* _rank_metrics
RankMetrics(of, S) ==
    [count |-> Cardinality(S),
     hits  |-> [c \in {c \in Cutoffs : c <= limit} |-> Hits(of, S, c)],
     mrr   |-> Reciprocals(of, S)]

\* _summarize_mode: all cases, and those of each stress_type.
Summary(of) ==
    [whole    |-> RankMetrics(of, DOMAIN of),
     byStress |-> [t \in {cases[i].stress : i \in DOMAIN of} |->
                      RankMetrics(of, {i \in DOMAIN of : cases[i].stress = t})],
     cases    |-> of]

-----------------------------------------------------------------------------
(* The job.                                                                *)

\* main: --top-k-max and the evaluation set are checked, the service created.
LoadCases ==
    /\ job = "load"
    /\ \/ /\ limit > 0
          /\ cases' \in CaseFiles
          /\ job' = "next"
       \/ job' = "failed" /\ UNCHANGED cases
    /\ UNCHANGED <<vars, turn, limit, denseRank, ranks, result>>

\* evaluate_cases takes the next case; its first search refuses a top_k that
\* the service does not admit.
StartCase ==
    /\ job = "next" /\ turn < Len(cases)
    /\ Request(limit)
    /\ turn' = turn + 1
    /\ job' = IF answer' = "rejected" THEN "failed" ELSE "baseline"
    /\ UNCHANGED <<cases, limit, denseRank, ranks, result>>

\* The Dense query with the job's own limit.
QueryBaseline ==
    /\ job = "baseline"
    /\ \E list \in Rankings({Min({topK, Cardinality(Chunk)})}) :
          denseRank' = FirstRank(list, cases[turn].relevant)
    /\ job' = "hybrid"
    /\ UNCHANGED <<vars, cases, turn, limit, ranks, result>>

\* _query_hybrid_core_chunks with the same vector.
HybridStep ==
    /\ job = "hybrid"
    /\ QueryDense \/ QueryBm25 \/ FetchVectors \/ SelectNext \/ Selected
    /\ UNCHANGED jobVars

Recorded(of, rank) == [i \in DOMAIN of \cup {turn} |-> IF i = turn THEN rank ELSE of[i]]

\* Both rankings of the case are there; nothing is expanded.
RecordCase ==
    /\ job = "hybrid" /\ phase = "expand"
    /\ ranks' = [dense  |-> Recorded(ranks.dense, denseRank),
                 hybrid |-> Recorded(ranks.hybrid, FirstRank(cores, cases[turn].relevant))]
    /\ denseRank' = NoRank
    /\ job' = "next" /\ phase' = "idle" /\ cores' = <<>>
    /\ UNCHANGED <<index, topK, ranking, assembly, answer, cases, turn, limit, result>>

\* Mutant of CaseFails: the case is left out and the next one begins.
CaseSkipped ==
    /\ job \in {"baseline", "hybrid"}
    /\ Fail
    /\ job' = "next" /\ denseRank' = NoRank
    /\ UNCHANGED <<cases, turn, limit, ranks, result>>

\* A dependency fails: the exception ends the job, whatever was measured.
CaseFails ==
    /\ job \in {"baseline", "hybrid"}
    /\ Fail
    /\ job' = "failed"
    /\ UNCHANGED <<cases, turn, limit, denseRank, ranks, result>>

\* write_evaluation_result: a temporary file replaces the result, or it fails.
WriteResult ==
    /\ job = "next" /\ turn = Len(cases)
    /\ \/ /\ result' = [case_count |-> Len(cases),
                        modes |-> [mode \in Modes |-> Summary(ranks[mode])]]
          /\ job' = "done"
       \/ job' = "failed" /\ UNCHANGED result
    /\ UNCHANGED <<vars, cases, turn, limit, denseRank, ranks>>

\* The process has exited.
Exited == job \in {"done", "failed"} /\ UNCHANGED allVars

JobNext ==
    \/ job = "serving" /\ Next /\ UNCHANGED jobVars
    \/ LoadCases \/ StartCase \/ QueryBaseline \/ HybridStep
    \/ RecordCase \/ CaseFails \/ WriteResult \/ Exited

JobSpec == JobInit /\ [][JobNext]_allVars

-----------------------------------------------------------------------------

\* A result is never made of the cases that happened to work: it has every case
\* of its file in both modes, and a job that fails leaves none (evaluate_cases).
ResultWhole ==
    /\ result # NoResult => \A mode \in Modes :
          /\ DOMAIN result.modes[mode].cases = 1 .. result.case_count
          /\ result.modes[mode].whole.count = result.case_count
    /\ job = "failed" => result = NoResult

\* Bounds between the metrics of one set of cases: the hit rate grows with the
\* cutoff, a hit at 1 adds 1 to the MRR and any other at most a half, and a hit
\* within a cutoff at least its reciprocal.
Coherent(m) ==
    /\ \A c, d \in DOMAIN m.hits : c <= d => m.hits[c] <= m.hits[d]
    /\ 2 * m.mrr <= (m.count + m.hits[1]) * Scale
    /\ \A c \in DOMAIN m.hits :
          (c * m.hits[1] + m.hits[c] - m.hits[1]) * Scale <= c * m.mrr

\* The metrics of a result agree with each other, and those of the stress types
\* add up to those of all cases (_rank_metrics, _summarize_mode).
MetricsConsistent ==
    result # NoResult => \A mode \in Modes :
        LET whole == result.modes[mode].whole
            parts == result.modes[mode].byStress
        IN  /\ Coherent(whole) /\ \A t \in DOMAIN parts : Coherent(parts[t])
            /\ whole.count = SumFunction([t \in DOMAIN parts |-> parts[t].count])
            /\ whole.mrr = SumFunction([t \in DOMAIN parts |-> parts[t].mrr])
            /\ \A c \in DOMAIN whole.hits :
                  whole.hits[c] = SumFunction([t \in DOMAIN parts |-> parts[t].hits[c]])
=============================================================================
