---------------------------- MODULE IndexStore ----------------------------
(***************************************************************************)
(* What the offline runner and the online retrieval service share: for     *)
(* each index version one Qdrant collection with its points, and a         *)
(* directory with the manifest and the BM25 artifact.  A version is a hash *)
(* of the contract and of all chunks, so it determines its chunks: Plan.   *)
(***************************************************************************)
EXTENDS Integers, Sequences, FiniteSets

CONSTANTS Versions,  \* index versions that runs may build
          Docs,      \* the Markdown documents
          Plan       \* the chunks of each version, in the order of build_index_plan

\* A chunk is named by its document and its place in it (chunk_order).
Chunk == [doc : Docs, order : Nat]

\* The chunker counts chunk_order through the document, so no plan names a
\* chunk twice (_validate_unique_ids refuses two chunks with one id).
ASSUME PlanAssumption ==
    /\ Plan \in [Versions -> Seq(Chunk)]
    /\ \A v \in Versions : \A i, j \in 1 .. Len(Plan[v]) :
          Plan[v][i] = Plan[v][j] => i = j

ChunkSet(v) == {Plan[v][i] : i \in 1 .. Len(Plan[v])}

VARIABLES collections,  \* the versions whose Qdrant collection exists
          points,       \* the points in each collection (point id = chunk id)
          manifests,    \* the versions with a manifest.jsonl
          artifacts     \* the chunk ids in each bm25_index.json, {} without file

store == <<collections, points, manifests, artifacts>>

StoreInit ==
    /\ collections = {}
    /\ points = [v \in Versions |-> {}]
    /\ manifests = {}
    /\ artifacts = [v \in Versions |-> {}]

StoreTypeOK ==
    /\ collections \subseteq Versions
    /\ points \in [Versions -> SUBSET Chunk]
    /\ manifests \subseteq Versions
    /\ artifacts \in [Versions -> SUBSET Chunk]

\* Everything a service needs to answer from version v.
Complete(v) == v \in collections /\ ChunkSet(v) \subseteq points[v]
=============================================================================
