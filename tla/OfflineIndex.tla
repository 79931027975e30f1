--------------------------- MODULE OfflineIndex ---------------------------
(***************************************************************************)
(* offline_runner.main: each run plans one version, writes its points to   *)
(* Qdrant batch by batch, checks their number, and publishes the manifest  *)
(* and then the BM25 artifact.  Runs may overlap, fail or be killed at any *)
(* step, and be repeated; a dry run publishes without Qdrant.              *)
(***************************************************************************)
EXTENDS IndexStore

CONSTANTS Runs,           \* the executions of the program
          BatchSize,      \* embedding_batch_size
          RunnerFaults    \* TRUE if Qdrant, the embedding API or the disk may fail

ASSUME RunnerAssumption == BatchSize \in Nat \ {0} /\ RunnerFaults \in BOOLEAN

VARIABLES step,     \* where each run is
          version,  \* the version it builds
          dry,      \* --dry-run
          done,     \* how many of its chunks have been upserted
          wrote     \* the runs that have written their manifest

runner == <<step, version, dry, done, wrote>>

\* "ok" and "failed" are the exit codes 0 and 1; a killed run has none.
Steps == {"start", "collection", "create", "payload", "embed", "verify",
          "manifest", "bm25", "ok", "failed", "killed"}
Stopped == {"ok", "failed", "killed"}

RunnerInit ==
    /\ step = [p \in Runs |-> "start"]
    /\ version \in [Runs -> Versions]
    /\ dry \in [Runs -> BOOLEAN]
    /\ done = [p \in Runs |-> 0]
    /\ wrote = {}

Continue(p, next) == step' = [step EXCEPT ![p] = next]

\* An exception: main logs it and returns 1.
Raise(p) == Continue(p, "failed")

\* Mutant of BuildPlan: the artifacts are written before Qdrant is.
PublishFirst(p) ==
    /\ step[p] = "start"
    /\ Continue(p, "manifest")
    /\ UNCHANGED <<version, dry, done, wrote, store>>

\* build_index_plan, and for a real run the check of the API key.
BuildPlan(p) ==
    /\ step[p] = "start"
    /\ \/ Continue(p, IF dry[p] THEN "manifest" ELSE "collection")
       \/ RunnerFaults /\ Raise(p)
    /\ UNCHANGED <<version, dry, done, wrote, store>>

\* ensure_collection asks whether the collection exists.  (The dimension of an
\* existing one fits: the version hash covers it.)
FindCollection(p) ==
    /\ step[p] = "collection"
    /\ \/ Continue(p, IF version[p] \in collections THEN "payload" ELSE "create")
       \/ RunnerFaults /\ Raise(p)
    /\ UNCHANGED <<version, dry, done, wrote, store>>

\* create_collection is refused if another run has created it meanwhile; its
\* answer may be lost.
CreateCollection(p) ==
    /\ step[p] = "create"
    /\ \/ /\ version[p] \notin collections
          /\ collections' = collections \cup {version[p]}
          /\ Continue(p, "payload") \/ (RunnerFaults /\ Raise(p))
       \/ /\ version[p] \in collections \/ RunnerFaults
          /\ Raise(p)
          /\ UNCHANGED collections
    /\ UNCHANGED <<version, dry, done, wrote, points, manifests, artifacts>>

\* ensure_payload_indexes is idempotent.
CreatePayloadIndexes(p) ==
    /\ step[p] = "payload"
    /\ Continue(p, "embed") \/ (RunnerFaults /\ Raise(p))
    /\ UNCHANGED <<version, dry, done, wrote, store>>

\* Mutant of Batch: the last record of each batch is left out.
ShortBatch(p) == {Plan[version[p]][i] : i \in {j \in 1 .. Len(Plan[version[p]]) :
                                                  done[p] < j /\ j < done[p] + BatchSize}}

Batch(p) == {Plan[version[p]][i] : i \in {j \in 1 .. Len(Plan[version[p]]) :
                                             done[p] < j /\ j <= done[p] + BatchSize}}

\* embed_and_upsert, one batch: a failed embedding call upserts nothing, a
\* failed upsert may have stored a part of the batch.
UpsertBatch(p) ==
    /\ step[p] = "embed"
    /\ done[p] < Len(Plan[version[p]])
    /\ \/ /\ points' = [points EXCEPT ![version[p]] = @ \cup Batch(p)]
          /\ done' = [done EXCEPT ![p] = @ + BatchSize]
          /\ Continue(p, "embed")
       \/ /\ RunnerFaults
          /\ \E part \in SUBSET Batch(p) :
                points' = [points EXCEPT ![version[p]] = @ \cup part]
          /\ Raise(p)
          /\ UNCHANGED done
    /\ UNCHANGED <<version, dry, wrote, collections, manifests, artifacts>>

AllUpserted(p) ==
    /\ step[p] = "embed"
    /\ done[p] >= Len(Plan[version[p]])
    /\ Continue(p, "verify")
    /\ UNCHANGED <<version, dry, done, wrote, store>>

\* verify_index_count compares the number of points with the plan.
VerifyCount(p) ==
    /\ step[p] = "verify"
    /\ \/ /\ Cardinality(points[version[p]]) = Len(Plan[version[p]])
          /\ Continue(p, "manifest")
       \/ /\ Cardinality(points[version[p]]) # Len(Plan[version[p]])
          /\ Raise(p)
       \/ RunnerFaults /\ Raise(p)
    /\ UNCHANGED <<version, dry, done, wrote, store>>

\* write_local_artifacts, first half: the manifest appears whole (os.replace).
WriteManifest(p) ==
    /\ step[p] = "manifest"
    /\ \/ /\ manifests' = manifests \cup {version[p]}
          /\ wrote' = wrote \cup {p}
          /\ Continue(p, "bm25")
       \/ RunnerFaults /\ Raise(p) /\ UNCHANGED <<manifests, wrote>>
    /\ UNCHANGED <<version, dry, done, collections, points, artifacts>>

\* Second half: the BM25 artifact; a plan without chunks has none.
WriteBm25(p) ==
    /\ step[p] = "bm25"
    /\ \/ /\ ChunkSet(version[p]) # {}
          /\ artifacts' = [artifacts EXCEPT ![version[p]] = ChunkSet(version[p])]
          /\ Continue(p, "ok")
       \/ /\ ChunkSet(version[p]) = {} \/ RunnerFaults
          /\ Raise(p)
          /\ UNCHANGED artifacts
    /\ UNCHANGED <<version, dry, done, wrote, collections, points, manifests>>

\* The process is killed between two steps.
Kill(p) ==
    /\ RunnerFaults
    /\ step[p] \notin Stopped
    /\ Continue(p, "killed")
    /\ UNCHANGED <<version, dry, done, wrote, store>>

RunStep(p) ==
    \/ BuildPlan(p) \/ FindCollection(p) \/ CreateCollection(p)
    \/ CreatePayloadIndexes(p) \/ UpsertBatch(p) \/ AllUpserted(p)
    \/ VerifyCount(p) \/ WriteManifest(p) \/ WriteBm25(p)

RunnerTypeOK ==
    /\ step \in [Runs -> Steps]
    /\ version \in [Runs -> Versions]
    /\ dry \in [Runs -> BOOLEAN]
    /\ done \in [Runs -> Nat]
    /\ wrote \subseteq Runs
=============================================================================
