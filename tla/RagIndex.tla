------------------------------ MODULE RagIndex ------------------------------
(***************************************************************************)
(* The index runs and the retrieval services over the shared store.        *)
(***************************************************************************)
EXTENDS OfflineIndex, OnlineIndex

vars == <<store, runner, service>>

Init == StoreInit /\ RunnerInit /\ ServerInit

Next ==
    \/ UNCHANGED service /\ \E p \in Runs : RunStep(p) \/ Kill(p)
    \/ UNCHANGED runner /\ \E s \in Servers : ServerStep(s) \/ Restart(s)

Spec == Init /\ [][Next]_vars

\* Users go on searching, so a process whose check failed repeats it.
FairSpec == Spec /\ \A s \in Servers : WF_vars(ServerStep(s) /\ UNCHANGED runner)

-----------------------------------------------------------------------------

\* The shape of the state.
TypeOK == StoreTypeOK /\ RunnerTypeOK /\ ServerTypeOK

\* A service becomes active only on a version whose chunks are all in Qdrant
\* and in its BM25 index, though it reads the collection page by page while
\* runs write it, and though a dry run or a failed run published the artifact
\* of a version that is not there; no later step takes that away.
ActiveComplete ==
    \A s \in Servers : phase[s] = "active" =>
        Complete(configured[s]) /\ loaded[s] = ChunkSet(configured[s])

\* So no search of an active service finds a BM25 candidate missing in Qdrant.
SearchConsistent == \A s \in Servers : answer[s] # "mismatch"

\* A run without --dry-run publishes a manifest only for a version that is
\* complete in Qdrant, and its exit code 0 means that both of its indexes are whole.
RealRunComplete ==
    \A p \in Runs : (~dry[p] /\ (p \in wrote \/ step[p] = "ok")) =>
        /\ Complete(version[p])
        /\ version[p] \in manifests
        /\ step[p] = "ok" => artifacts[version[p]] = ChunkSet(version[p])

\* What earlier, overlapping, failed or killed runs of the version left in
\* Qdrant never makes the count of a run come out wrong (verify_index_count):
\* a run can always be repeated.
CountMatches ==
    \A p \in Runs : step[p] = "verify" =>
        Cardinality(points[version[p]]) = Len(Plan[version[p]])

\* main: "任一步骤失败时返回 1 且不写成功 manifest" (offline_runner.py:259).
FailedRunWritesNoManifest == \A p \in Runs : step[p] = "failed" => p \notin wrote

\* Once a real run of a version has ended with 0, every process configured
\* with that version becomes active, though its earlier checks of the version
\* may have failed while runs were still writing it.
EventuallyServed ==
    \A s \in Servers :
        (\E p \in Runs : ~dry[p] /\ step[p] = "ok" /\ version[p] = configured[s])
            ~> phase[s] = "active"

-----------------------------------------------------------------------------
(* Runs and services implement what IndexService promises.                 *)

\* What the caller of a run sees of it.
Exit(p) == IF step[p] \in Stopped THEN step[p] ELSE "running"

\* The version a process answers from.
Serving(s) == IF phase[s] = "active" THEN configured[s] ELSE NoVersion

Service == INSTANCE IndexService WITH
    whole <- {v \in Versions : Complete(v)},
    published <- {v \in Versions : artifacts[v] # {}},
    real <- {p \in Runs : ~dry[p]},
    exit <- [p \in Runs |-> Exit(p)],
    serving <- [s \in Servers |-> Serving(s)]

\* Batches, pages and files written one after the other, by runs that overlap,
\* fail or are killed, look like versions that appear whole or not at all.
ImplementsIndexService == Service!Spec
=============================================================================
