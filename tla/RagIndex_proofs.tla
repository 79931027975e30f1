-------------------------- MODULE RagIndex_proofs --------------------------
(***************************************************************************)
(* Proofs about RagIndex, for every set of versions, plans, runs and       *)
(* services, every batch and page size, with and without faults.           *)
(***************************************************************************)
EXTENDS RagIndex, TLAPS, FiniteSetTheorems

-----------------------------------------------------------------------------
(* The inductive invariant.                                                *)

\* Whatever runs did, a collection holds chunks of its version only, and an
\* artifact is absent or whole.
StoreSound ==
    \A v \in Versions :
        /\ points[v] \subseteq ChunkSet(v)
        /\ artifacts[v] \in {{}, ChunkSet(v)}

\* The chunks a run has passed are in Qdrant; past the verification, or after
\* its manifest, a real run's version is complete.
RunSound(p) ==
    /\ \A j \in 1 .. Len(Plan[version[p]]) :
          j <= done[p] => Plan[version[p]][j] \in points[version[p]]
    /\ step[p] \in {"payload", "embed", "verify"} => version[p] \in collections
    /\ step[p] = "verify" => done[p] >= Len(Plan[version[p]])
    /\ step[p] \in {"manifest", "bm25", "ok"} => dry[p] \/ Complete(version[p])
    /\ step[p] \in {"bm25", "ok"} => p \in wrote
    /\ p \in wrote => /\ version[p] \in manifests
                      /\ dry[p] \/ Complete(version[p])
    /\ step[p] = "ok" => artifacts[version[p]] = ChunkSet(version[p])

\* A service has loaded a whole artifact, has scrolled only what is stored,
\* and is active only on a complete version.
ServerSound(s) ==
    /\ phase[s] # "idle" =>
          configured[s] \in Versions /\ loaded[s] = ChunkSet(configured[s])
    /\ phase[s] \in {"scroll", "compare"} =>
          configured[s] \in collections /\ scrolled[s] \subseteq Index(s)
    /\ phase[s] = "active" => Complete(configured[s])
    /\ answer[s] # "mismatch"

IInv == /\ TypeOK
        /\ StoreSound
        /\ \A p \in Runs : RunSound(p)
        /\ \A s \in Servers : ServerSound(s)

-----------------------------------------------------------------------------
(* Lemmas about plans and batches.                                         *)

\* Chunks are what plans name.
LEMMA PlanType ==
    ASSUME NEW v \in Versions
    PROVE  /\ Plan[v] \in Seq(Chunk)
           /\ Len(Plan[v]) \in Nat
           /\ \A j \in 1 .. Len(Plan[v]) : Plan[v][j] \in ChunkSet(v)
           /\ ChunkSet(v) \subseteq Chunk
  BY PlanAssumption DEF ChunkSet

\* A plan names no chunk twice, so it has as many chunks as places: the number
\* verify_index_count expects is the size of the complete collection.
LEMMA PlanSize ==
    ASSUME NEW v \in Versions
    PROVE  IsFiniteSet(ChunkSet(v)) /\ Cardinality(ChunkSet(v)) = Len(Plan[v])
<1> DEFINE f == [i \in 1 .. Len(Plan[v]) |-> Plan[v][i]]
<1>1. Len(Plan[v]) \in Nat
  BY PlanType
<1>2. f \in Bijection(1 .. Len(Plan[v]), ChunkSet(v))
  BY PlanAssumption DEF ChunkSet, Bijection, Injection, Surjection, IsInjective
<1>3. IsFiniteSet(1 .. Len(Plan[v])) /\ Cardinality(1 .. Len(Plan[v])) = Len(Plan[v])
  BY <1>1, FS_Interval
<1>4. ExistsBijection(1 .. Len(Plan[v]), ChunkSet(v))
  BY <1>2 DEF ExistsBijection
<1> QED
  BY <1>3, <1>4, FS_Bijection

\* A batch is a part of the plan, and the next one in it.
LEMMA BatchNext ==
    ASSUME TypeOK, NEW p \in Runs
    PROVE  /\ Batch(p) \subseteq ChunkSet(version[p])
           /\ \A j \in 1 .. Len(Plan[version[p]]) :
                 j <= done[p] + BatchSize => j <= done[p] \/ Plan[version[p]][j] \in Batch(p)
<1>1. version[p] \in Versions /\ done[p] \in Nat
  BY DEF TypeOK, RunnerTypeOK
<1> QED
  BY <1>1, PlanType, RunnerAssumption DEF Batch, ChunkSet

-----------------------------------------------------------------------------
(* The invariant is inductive.                                             *)

\* At the start there is no index, and nobody has done anything.
LEMMA InitInv == Init => IInv
<1> SUFFICES ASSUME Init PROVE IInv
  OBVIOUS
<1> USE DEF Init, StoreInit, RunnerInit, ServerInit
<1>1. TypeOK
  BY DEF TypeOK, StoreTypeOK, RunnerTypeOK, ServerTypeOK, Steps, Phases, Answers
<1>2. StoreSound
  BY DEF StoreSound
<1>3. ASSUME NEW p \in Runs PROVE RunSound(p)
  <2>1. done[p] = 0 /\ step[p] = "start" /\ wrote = {} /\ version[p] \in Versions
    OBVIOUS
  <2> QED
    BY <2>1, PlanType DEF RunSound
<1>4. ASSUME NEW s \in Servers PROVE ServerSound(s)
  BY DEF ServerSound
<1> QED
  BY <1>1, <1>2, <1>3, <1>4 DEF IInv

\* The store only grows: collections and points are never removed.
Grows == /\ collections \subseteq collections'
         /\ \A v \in Versions : points[v] \subseteq points'[v]

\* A complete version stays complete.
LEMMA CompleteStable ==
    ASSUME Grows, NEW v \in Versions, Complete(v)
    PROVE  v \in collections' /\ ChunkSet(v) \subseteq points'[v]
  BY DEF Grows, Complete

\* Services are not harmed by what runs do to the store while they read it.
LEMMA ServersUnharmed ==
    ASSUME IInv, Grows, UNCHANGED service
    PROVE  ServerTypeOK' /\ \A s \in Servers : ServerSound(s)'
<1>1. ServerTypeOK'
  BY DEF IInv, TypeOK, ServerTypeOK, service
<1>2. ASSUME NEW s \in Servers PROVE ServerSound(s)'
  <2>1. ServerSound(s)
    BY DEF IInv
  <2>2. phase[s] = "active" => /\ configured[s] \in collections'
                               /\ ChunkSet(configured[s]) \subseteq points'[configured[s]]
    BY <2>1, CompleteStable DEF ServerSound
  <2> QED
    BY <2>1, <2>2 DEF ServerSound, service, Grows, Index, Complete
<1> QED
  BY <1>1, <1>2

\* Nor are the other runs by a step of run p.
LEMMA OthersUnharmed ==
    ASSUME IInv, Grows, NEW p \in Runs, NEW q \in Runs, q # p,
           step'[q] = step[q], done'[q] = done[q],
           UNCHANGED <<version, dry>>,
           manifests \subseteq manifests', wrote' \in {wrote, wrote \cup {p}},
           \A v \in Versions : artifacts[v] # {} => artifacts'[v] = artifacts[v],
           \A v \in Versions : ChunkSet(v) = {} => artifacts'[v] = artifacts[v]
    PROVE  RunSound(q)'
<1>1. RunSound(q) /\ version[q] \in Versions
  BY DEF IInv, TypeOK, RunnerTypeOK
<1>2. points[version[q]] \subseteq points'[version[q]] /\ collections \subseteq collections'
  BY <1>1 DEF Grows
<1>3. Complete(version[q]) => /\ version[q] \in collections'
                              /\ ChunkSet(version[q]) \subseteq points'[version[q]]
  BY <1>1, CompleteStable
<1>4. artifacts[version[q]] = ChunkSet(version[q]) => artifacts'[version[q]] = ChunkSet(version[q])
  BY <1>1
<1> QED
  BY <1>1, <1>2, <1>3, <1>4 DEF RunSound, Complete

\* What is left to show of a step of run p: the store stays sound and grows,
\* nothing else moves, and p itself keeps its part of the invariant.
LEMMA RunnerFrame ==
    ASSUME IInv, NEW p \in Runs, Grows, UNCHANGED <<version, dry, service>>,
           \A q \in Runs \ {p} : step'[q] = step[q] /\ done'[q] = done[q],
           manifests \subseteq manifests', wrote' \in {wrote, wrote \cup {p}},
           \A v \in Versions : artifacts[v] # {} => artifacts'[v] = artifacts[v],
           \A v \in Versions : ChunkSet(v) = {} => artifacts'[v] = artifacts[v],
           StoreTypeOK', RunnerTypeOK', StoreSound', RunSound(p)'
    PROVE  IInv'
<1>1. ServerTypeOK' /\ \A s \in Servers : ServerSound(s)'
  BY ServersUnharmed
<1>2. ASSUME NEW q \in Runs PROVE RunSound(q)'
  <2>1. CASE q = p
    BY <2>1
  <2>2. CASE q # p
    BY <2>2, OthersUnharmed
  <2> QED
    BY <2>1, <2>2
<1> QED
  BY <1>1, <1>2 DEF IInv, TypeOK

\* A step that only moves run p.
LEMMA QuietRun ==
    ASSUME IInv, NEW p \in Runs, NEW n \in Steps, Continue(p, n),
           UNCHANGED <<version, dry, done, wrote, store, service>>,
           n \in {"payload", "embed", "verify"} => version[p] \in collections,
           n = "verify" => done[p] >= Len(Plan[version[p]]),
           n = "manifest" => dry[p] \/ Complete(version[p]),
           n \notin {"bm25", "ok"}
    PROVE  IInv'
<1>1. step' = [step EXCEPT ![p] = n] /\ step \in [Runs -> Steps] /\ version[p] \in Versions
  BY DEF Continue, IInv, TypeOK, RunnerTypeOK
<1>2. Grows /\ StoreTypeOK' /\ StoreSound' /\ RunnerTypeOK'
  BY <1>1 DEF Grows, store, IInv, TypeOK, StoreTypeOK, StoreSound, RunnerTypeOK
<1>3. RunSound(p)'
  BY <1>1 DEF RunSound, Complete, store, IInv
<1>4. UNCHANGED <<version, dry, service, done, manifests, wrote, artifacts>>
  BY DEF store
<1>5. \A q \in Runs \ {p} : step'[q] = step[q] /\ done'[q] = done[q]
  BY <1>1, <1>4
<1> QED
  BY <1>2, <1>3, <1>4, <1>5, RunnerFrame

\* A failing, or killed, run that changed nothing else.
LEMMA EndedRun ==
    ASSUME IInv, NEW p \in Runs, Raise(p) \/ Continue(p, "killed"),
           UNCHANGED <<version, dry, done, wrote, store, service>>
    PROVE  IInv'
  BY QuietRun, "failed" \in Steps, "killed" \in Steps DEF Raise, Steps

\* ensure_collection creates the collection of the version.
LEMMA CreateInv ==
    ASSUME IInv, NEW p \in Runs, CreateCollection(p), UNCHANGED service
    PROVE  IInv'
<1>1. CASE /\ collections' = collections \cup {version[p]}
           /\ Continue(p, "payload") \/ Raise(p)
  <2>1. PICK n \in {"payload", "failed"} :
              /\ step' = [step EXCEPT ![p] = n]
              /\ UNCHANGED <<version, dry, done, wrote, points, manifests, artifacts>>
              /\ step \in [Runs -> Steps] /\ version[p] \in Versions
    BY <1>1 DEF CreateCollection, Continue, Raise, IInv, TypeOK, RunnerTypeOK
  <2>2. Grows /\ StoreTypeOK' /\ StoreSound' /\ RunnerTypeOK'
    BY <1>1, <2>1 DEF Grows, IInv, TypeOK, StoreTypeOK, StoreSound, RunnerTypeOK, Steps
  <2>3. RunSound(p)'
    BY <1>1, <2>1 DEF RunSound, Complete, IInv
  <2>4. \A q \in Runs \ {p} : step'[q] = step[q] /\ done'[q] = done[q]
    BY <2>1
  <2> QED
    BY <2>1, <2>2, <2>3, <2>4, RunnerFrame
<1>2. CASE Raise(p) /\ UNCHANGED collections
  BY <1>2, EndedRun DEF CreateCollection, store
<1> QED
  BY <1>1, <1>2 DEF CreateCollection

\* embed_and_upsert adds a batch, or a part of it.
LEMMA UpsertInv ==
    ASSUME IInv, NEW p \in Runs, UpsertBatch(p), UNCHANGED service
    PROVE  IInv'
<1>1. PICK part \in SUBSET Batch(p) :
         /\ points' = [points EXCEPT ![version[p]] = @ \cup part]
         /\ \/ part = Batch(p) /\ done' = [done EXCEPT ![p] = @ + BatchSize] /\ Continue(p, "embed")
            \/ Raise(p) /\ UNCHANGED done
  BY DEF UpsertBatch
<1>2. /\ step[p] = "embed" /\ step \in [Runs -> Steps] /\ done \in [Runs -> Nat]
      /\ UNCHANGED <<version, dry, wrote, collections, manifests, artifacts>>
      /\ version[p] \in Versions /\ points \in [Versions -> SUBSET Chunk]
      /\ RunSound(p)
  BY DEF UpsertBatch, IInv, TypeOK, RunnerTypeOK, StoreTypeOK
<1>3. part \subseteq ChunkSet(version[p]) /\ part \subseteq Chunk
  BY <1>1, <1>2, BatchNext, PlanType DEF IInv
<1>4. \E n \in {"embed", "failed"} : step' = [step EXCEPT ![p] = n]
  BY <1>1 DEF Continue, Raise
<1>5. RunnerTypeOK'
  BY <1>1, <1>2, <1>4, RunnerAssumption DEF RunnerTypeOK, Steps, IInv, TypeOK
<1>6. StoreTypeOK' /\ Grows
  BY <1>1, <1>2, <1>3 DEF StoreTypeOK, Grows, IInv, TypeOK
<1>7. StoreSound'
  BY <1>1, <1>2, <1>3 DEF StoreSound, IInv
<1>8. ASSUME NEW j \in 1 .. Len(Plan[version[p]]), j <= done'[p]
      PROVE  Plan[version[p]][j] \in points'[version[p]]
  <2>1. j <= done[p] => Plan[version[p]][j] \in points[version[p]]
    BY <1>2 DEF RunSound
  <2>2. j \in Nat /\ Len(Plan[version[p]]) \in Nat
    BY <1>2, PlanType
  <2>3. CASE part = Batch(p) /\ done' = [done EXCEPT ![p] = @ + BatchSize]
    <3>1. j <= done[p] \/ Plan[version[p]][j] \in part
      BY <1>2, <1>8, <2>2, <2>3, BatchNext, RunnerAssumption DEF IInv
    <3> QED
      BY <1>1, <1>2, <2>1, <3>1
  <2>4. CASE UNCHANGED done
    BY <1>1, <1>2, <1>8, <2>1, <2>4
  <2> QED
    BY <1>1, <2>3, <2>4
<1>9. Complete(version[p]) => ChunkSet(version[p]) \subseteq points'[version[p]]
  BY <1>2, <1>6, CompleteStable
<1>10. RunSound(p)'
  BY <1>2, <1>4, <1>8, <1>9 DEF RunSound, Complete
<1>11. \A q \in Runs \ {p} : step'[q] = step[q] /\ done'[q] = done[q]
  BY <1>1, <1>2, <1>4
<1> QED
  BY <1>2, <1>5, <1>6, <1>7, <1>10, <1>11, RunnerFrame

\* write_manifest publishes what is complete, or what a dry run planned.
LEMMA ManifestInv ==
    ASSUME IInv, NEW p \in Runs, WriteManifest(p), UNCHANGED service
    PROVE  IInv'
<1>1. CASE /\ manifests' = manifests \cup {version[p]}
           /\ wrote' = wrote \cup {p}
           /\ Continue(p, "bm25")
  <2>1. /\ step' = [step EXCEPT ![p] = "bm25"]
        /\ UNCHANGED <<version, dry, done, collections, points, artifacts>>
        /\ step \in [Runs -> Steps] /\ version[p] \in Versions /\ step[p] = "manifest"
    BY <1>1 DEF WriteManifest, Continue, IInv, TypeOK, RunnerTypeOK
  <2>2. Grows /\ StoreTypeOK' /\ StoreSound' /\ RunnerTypeOK'
    BY <1>1, <2>1 DEF Grows, IInv, TypeOK, StoreTypeOK, StoreSound, RunnerTypeOK, Steps
  <2>3. RunSound(p)'
    BY <1>1, <2>1 DEF RunSound, Complete, IInv
  <2>4. \A q \in Runs \ {p} : step'[q] = step[q] /\ done'[q] = done[q]
    BY <2>1
  <2> QED
    BY <1>1, <2>1, <2>2, <2>3, <2>4, RunnerFrame
<1>2. CASE Raise(p) /\ UNCHANGED <<manifests, wrote>>
  BY <1>2, EndedRun DEF WriteManifest, store
<1> QED
  BY <1>1, <1>2 DEF WriteManifest

\* write_bm25_index replaces the artifact by the same one.
LEMMA Bm25Inv ==
    ASSUME IInv, NEW p \in Runs, WriteBm25(p), UNCHANGED service
    PROVE  IInv'
<1>1. CASE /\ ChunkSet(version[p]) # {}
           /\ artifacts' = [artifacts EXCEPT ![version[p]] = ChunkSet(version[p])]
           /\ Continue(p, "ok")
  <2>1. /\ step' = [step EXCEPT ![p] = "ok"]
        /\ UNCHANGED <<version, dry, done, wrote, collections, points, manifests>>
        /\ step \in [Runs -> Steps] /\ version[p] \in Versions /\ step[p] = "bm25"
        /\ artifacts \in [Versions -> SUBSET Chunk]
    BY <1>1 DEF WriteBm25, Continue, IInv, TypeOK, RunnerTypeOK, StoreTypeOK
  <2>2. ChunkSet(version[p]) \subseteq Chunk
    BY <2>1, PlanType
  <2>3. Grows /\ StoreTypeOK' /\ RunnerTypeOK'
    BY <1>1, <2>1, <2>2 DEF Grows, IInv, TypeOK, StoreTypeOK, RunnerTypeOK, Steps
  <2>4. StoreSound'
    BY <1>1, <2>1 DEF StoreSound, IInv
  <2>5. RunSound(p)'
    BY <1>1, <2>1 DEF RunSound, Complete, IInv
  <2>6. \A v \in Versions : /\ artifacts[v] # {} => artifacts'[v] = artifacts[v]
                            /\ ChunkSet(v) = {} => artifacts'[v] = artifacts[v]
    BY <1>1, <2>1 DEF StoreSound, IInv
  <2>7. \A q \in Runs \ {p} : step'[q] = step[q] /\ done'[q] = done[q]
    BY <2>1
  <2> QED
    BY <2>1, <2>3, <2>4, <2>5, <2>6, <2>7, RunnerFrame
<1>2. CASE Raise(p) /\ UNCHANGED artifacts
  BY <1>2, EndedRun DEF WriteBm25, store
<1> QED
  BY <1>1, <1>2 DEF WriteBm25

\* A step of a run: one case per action.
LEMMA RunInv ==
    ASSUME IInv, NEW p \in Runs, RunStep(p) \/ Kill(p), UNCHANGED service
    PROVE  IInv'
<1> USE DEF Continue
<1>0. {"collection", "create", "payload", "embed", "verify", "manifest"} \subseteq Steps
  BY DEF Steps
<1>1. CASE BuildPlan(p)
  <2>1. CASE Raise(p)
    BY <1>1, <2>1, EndedRun DEF BuildPlan
  <2>2. CASE dry[p] /\ Continue(p, "manifest")
    BY <1>0, <1>1, <2>2, QuietRun DEF BuildPlan
  <2>3. CASE Continue(p, "collection")
    BY <1>0, <1>1, <2>3, QuietRun DEF BuildPlan
  <2> QED
    BY <1>1, <2>1, <2>2, <2>3 DEF BuildPlan
<1>2. CASE FindCollection(p)
  <2>1. CASE Raise(p)
    BY <1>2, <2>1, EndedRun DEF FindCollection
  <2>2. CASE version[p] \in collections /\ Continue(p, "payload")
    BY <1>0, <1>2, <2>2, QuietRun DEF FindCollection
  <2>3. CASE Continue(p, "create")
    BY <1>0, <1>2, <2>3, QuietRun DEF FindCollection
  <2> QED
    BY <1>2, <2>1, <2>2, <2>3 DEF FindCollection
<1>3. CASE CreateCollection(p)
  BY <1>3, CreateInv
<1>4. CASE CreatePayloadIndexes(p)
  <2>1. CASE Raise(p)
    BY <1>4, <2>1, EndedRun DEF CreatePayloadIndexes
  <2>2. version[p] \in collections
    BY <1>4 DEF CreatePayloadIndexes, IInv, RunSound
  <2>3. CASE Continue(p, "embed")
    BY <1>0, <1>4, <2>2, <2>3, QuietRun DEF CreatePayloadIndexes
  <2> QED
    BY <1>4, <2>1, <2>3 DEF CreatePayloadIndexes
<1>5. CASE UpsertBatch(p)
  BY <1>5, UpsertInv
<1>6. CASE AllUpserted(p)
  <2>1. version[p] \in collections
    BY <1>6 DEF AllUpserted, IInv, RunSound
  <2> QED
    BY <1>0, <1>6, <2>1, QuietRun DEF AllUpserted
<1>7. CASE VerifyCount(p)
  <2>1. CASE Raise(p)
    BY <1>7, <2>1, EndedRun DEF VerifyCount
  <2>2. version[p] \in Versions /\ done[p] \in Nat
    BY DEF IInv, TypeOK, RunnerTypeOK
  <2>3. Complete(version[p])
    <3>1. /\ \A j \in 1 .. Len(Plan[version[p]]) :
                j <= done[p] => Plan[version[p]][j] \in points[version[p]]
          /\ done[p] >= Len(Plan[version[p]]) /\ version[p] \in collections
      BY <1>7 DEF VerifyCount, IInv, RunSound
    <3>2. \A j \in 1 .. Len(Plan[version[p]]) : j <= done[p]
      BY <2>2, <3>1, PlanType
    <3> QED
      BY <3>1, <3>2 DEF Complete, ChunkSet
  <2>4. CASE Continue(p, "manifest")
    BY <1>0, <1>7, <2>3, <2>4, QuietRun DEF VerifyCount
  <2> QED
    BY <1>7, <2>1, <2>4 DEF VerifyCount
<1>8. CASE WriteManifest(p)
  BY <1>8, ManifestInv
<1>9. CASE WriteBm25(p)
  BY <1>9, Bm25Inv
<1>10. CASE Kill(p)
  BY <1>10, EndedRun DEF Kill
<1> QED
  BY <1>1, <1>2, <1>3, <1>4, <1>5, <1>6, <1>7, <1>8, <1>9, <1>10 DEF RunStep

\* What is left to show of a step of service s: it writes nothing to the store
\* and keeps its own part of the invariant.
LEMMA ServerFrame ==
    ASSUME IInv, NEW s \in Servers, UNCHANGED <<store, runner>>, ServerTypeOK',
           \A t \in Servers \ {s} :
              /\ phase'[t] = phase[t] /\ configured'[t] = configured[t]
              /\ loaded'[t] = loaded[t] /\ scrolled'[t] = scrolled[t]
              /\ answer'[t] = answer[t],
           ServerSound(s)'
    PROVE  IInv'
<1>1. StoreTypeOK' /\ RunnerTypeOK' /\ StoreSound'
  BY DEF IInv, TypeOK, StoreTypeOK, RunnerTypeOK, StoreSound, store, runner
<1>2. ASSUME NEW p \in Runs PROVE RunSound(p)'
  BY DEF IInv, RunSound, Complete, store, runner
<1>3. ASSUME NEW t \in Servers PROVE ServerSound(t)'
  <2>1. CASE t = s
    BY <2>1
  <2>2. CASE t # s
    <3>1. ServerSound(t)
      BY DEF IInv
    <3> QED
      BY <2>2, <3>1 DEF ServerSound, Complete, Index, store
  <2> QED
    BY <2>1, <2>2
<1> QED
  BY <1>1, <1>2, <1>3 DEF IInv, TypeOK

\* A failed check leaves an idle process.
LEMMA GiveUpInv ==
    ASSUME IInv, NEW s \in Servers, GiveUp(s), UNCHANGED <<store, runner>>
    PROVE  IInv'
<1>1. /\ phase' = [phase EXCEPT ![s] = "idle"]
      /\ answer' = [answer EXCEPT ![s] = "unavailable"]
      /\ UNCHANGED <<configured, loaded, offset, scrolled>>
      /\ phase \in [Servers -> Phases] /\ answer \in [Servers -> Answers]
  BY DEF GiveUp, IInv, TypeOK, ServerTypeOK
<1>2. ServerTypeOK'
  BY <1>1 DEF ServerTypeOK, Phases, Answers, IInv, TypeOK
<1>3. ServerSound(s)'
  BY <1>1 DEF ServerSound
<1>4. \A t \in Servers \ {s} :
         /\ phase'[t] = phase[t] /\ configured'[t] = configured[t]
         /\ loaded'[t] = loaded[t] /\ scrolled'[t] = scrolled[t]
         /\ answer'[t] = answer[t]
  BY <1>1
<1> QED
  BY <1>2, <1>3, <1>4, ServerFrame

\* A step of a service: one case per action.
LEMMA ServerInv ==
    ASSUME IInv, NEW s \in Servers, ServerStep(s) \/ Restart(s), UNCHANGED runner
    PROVE  IInv'
<1> DEFINE Others ==
        \A t \in Servers \ {s} :
           /\ phase'[t] = phase[t] /\ configured'[t] = configured[t]
           /\ loaded'[t] = loaded[t] /\ scrolled'[t] = scrolled[t]
           /\ answer'[t] = answer[t]
<1>1. /\ ServerTypeOK /\ ServerSound(s)
      /\ phase[s] \in Phases /\ scrolled[s] \in SUBSET Chunk
      /\ configured[s] \in Versions \cup {NoVersion}
      /\ StoreTypeOK /\ StoreSound
  BY DEF IInv, TypeOK, ServerTypeOK
<1>0. phase[s] # "idle" => configured[s] \in Versions
  BY <1>1 DEF ServerSound
<1>2. UNCHANGED store
  BY DEF ServerStep, LoadBm25, CheckCollection, ScrollPage, Compare, Search, Restart
<1>3. CASE LoadBm25(s)
  <2>1. CASE GiveUp(s)
    BY <1>2, <2>1, GiveUpInv
  <2>2. CASE ~GiveUp(s)
    <3>1. /\ artifacts[configured[s]] # {} /\ configured[s] \in Versions
          /\ loaded' = [loaded EXCEPT ![s] = artifacts[configured[s]]]
          /\ phase' = [phase EXCEPT ![s] = "connect"]
          /\ UNCHANGED <<configured, offset, scrolled, answer>>
      BY <1>1, <1>3, <2>2 DEF LoadBm25, Loadable
    <3>2. artifacts[configured[s]] = ChunkSet(configured[s])
      BY <1>1, <3>1 DEF StoreSound
    <3>3. ServerTypeOK'
      BY <1>1, <3>1 DEF ServerTypeOK, StoreTypeOK, Phases
    <3>4. ServerSound(s)'
      BY <1>1, <3>1, <3>2 DEF ServerSound, ServerTypeOK
    <3>5. Others
      BY <1>1, <3>1 DEF ServerTypeOK
    <3> QED
      BY <1>2, <3>3, <3>4, <3>5, ServerFrame
  <2> QED
    BY <2>1, <2>2
<1>4. CASE CheckCollection(s)
  <2>1. CASE GiveUp(s)
    BY <1>2, <2>1, GiveUpInv
  <2>2. CASE ~GiveUp(s)
    <3>1. /\ phase[s] = "connect" /\ configured[s] \in collections
          /\ phase' = [phase EXCEPT ![s] = "scroll"]
          /\ offset' = [offset EXCEPT ![s] = 0]
          /\ scrolled' = [scrolled EXCEPT ![s] = {}]
          /\ UNCHANGED <<configured, loaded, answer>>
      BY <1>4, <2>2 DEF CheckCollection
    <3>2. ServerTypeOK'
      BY <1>1, <3>1 DEF ServerTypeOK, Phases
    <3>3. ServerSound(s)'
      BY <1>1, <1>2, <3>1 DEF ServerSound, ServerTypeOK, store
    <3>4. Others
      BY <1>1, <3>1 DEF ServerTypeOK
    <3> QED
      BY <1>2, <3>2, <3>3, <3>4, ServerFrame
  <2> QED
    BY <2>1, <2>2
<1>5. CASE ScrollPage(s)
  <2>1. CASE GiveUp(s)
    BY <1>2, <2>1, GiveUpInv
  <2>2. CASE ~GiveUp(s)
    <3>1. /\ phase[s] = "scroll"
          /\ scrolled' = [scrolled EXCEPT ![s] = @ \cup Page(s)]
          /\ \/ phase' = [phase EXCEPT ![s] = "compare"] /\ UNCHANGED offset
             \/ /\ \E c \in Ahead(s) : offset' = [offset EXCEPT ![s] = ScrollRank[c]]
                /\ UNCHANGED phase
          /\ UNCHANGED <<configured, loaded, answer>>
      BY <1>5, <2>2 DEF ScrollPage
    <3>0. configured[s] \in Versions
      BY <1>0, <3>1
    <3>2. Page(s) \subseteq Index(s) /\ Ahead(s) \subseteq ChunkSet(configured[s])
      BY <1>1, <3>0 DEF Page, Ahead, Index, StoreSound
    <3>3. Page(s) \subseteq Chunk
      BY <1>1, <3>0, <3>2 DEF Index, StoreTypeOK
    <3>4. \A c \in Ahead(s) : ScrollRank[c] \in Nat
      BY <3>0, <3>2, ServerAssumption
    <3>5. ServerTypeOK'
      BY <1>1, <3>1, <3>3, <3>4 DEF ServerTypeOK, Phases
    <3>6. ServerSound(s)'
      BY <1>1, <1>2, <3>1, <3>2 DEF ServerSound, ServerTypeOK, store, Index
    <3>7. Others
      BY <1>1, <3>1 DEF ServerTypeOK
    <3> QED
      BY <1>2, <3>5, <3>6, <3>7, ServerFrame
  <2> QED
    BY <2>1, <2>2
<1>6. CASE Compare(s)
  <2>1. CASE GiveUp(s)
    BY <1>2, <2>1, GiveUpInv
  <2>2. CASE ~GiveUp(s)
    <3>1. /\ phase[s] = "compare" /\ scrolled[s] = loaded[s]
          /\ phase' = [phase EXCEPT ![s] = "active"]
          /\ UNCHANGED <<configured, loaded, offset, scrolled, answer>>
      BY <1>6, <2>2 DEF Compare, Matches
    <3>2. Complete(configured[s])
      BY <1>0, <1>1, <3>1 DEF ServerSound, Complete, Index
    <3>3. ServerTypeOK'
      BY <1>1, <3>1 DEF ServerTypeOK, Phases
    <3>4. ServerSound(s)'
      BY <1>1, <1>2, <3>1, <3>2 DEF ServerSound, ServerTypeOK, Complete, store
    <3>5. Others
      BY <1>1, <3>1 DEF ServerTypeOK
    <3> QED
      BY <1>2, <3>3, <3>4, <3>5, ServerFrame
  <2> QED
    BY <2>1, <2>2
<1>7. CASE Search(s)
  <2>1. /\ phase[s] = "active"
        /\ \E a \in Answers \ {"mismatch"} : answer' = [answer EXCEPT ![s] = a]
        /\ UNCHANGED <<phase, configured, loaded, offset, scrolled>>
    BY <1>0, <1>1, <1>7 DEF Search, ServerSound, Complete, Index, Answers
  <2>2. ServerTypeOK'
    BY <1>1, <2>1 DEF ServerTypeOK
  <2>3. ServerSound(s)'
    BY <1>1, <1>2, <2>1 DEF ServerSound, ServerTypeOK, Complete, store
  <2>4. Others
    BY <1>1, <2>1 DEF ServerTypeOK
  <2> QED
    BY <1>2, <2>2, <2>3, <2>4, ServerFrame
<1>8. CASE Restart(s)
  <2>1. /\ \E v \in Versions \cup {NoVersion} : configured' = [configured EXCEPT ![s] = v]
        /\ phase' = [phase EXCEPT ![s] = "idle"]
        /\ loaded' = [loaded EXCEPT ![s] = {}]
        /\ answer' = [answer EXCEPT ![s] = "none"]
        /\ UNCHANGED <<offset, scrolled>>
    BY <1>8 DEF Restart
  <2>2. ServerTypeOK'
    BY <1>1, <2>1 DEF ServerTypeOK, Phases, Answers
  <2>3. ServerSound(s)'
    BY <1>1, <2>1 DEF ServerSound, ServerTypeOK
  <2>4. Others
    BY <1>1, <2>1 DEF ServerTypeOK
  <2> QED
    BY <1>2, <2>2, <2>3, <2>4, ServerFrame
<1> QED
  BY <1>3, <1>4, <1>5, <1>6, <1>7, <1>8 DEF ServerStep

\* Every step keeps the invariant.
LEMMA NextInv == IInv /\ [Next]_vars => IInv'
<1>1. ASSUME IInv, UNCHANGED vars PROVE IInv'
  BY <1>1 DEF vars, store, runner, service, IInv, TypeOK, StoreTypeOK, RunnerTypeOK,
     ServerTypeOK, StoreSound, RunSound, ServerSound, Complete, Index
<1> QED
  BY <1>1, RunInv, ServerInv DEF Next

\* Every reachable state satisfies the inductive invariant.
THEOREM Invariance == Spec => []IInv
  BY InitInv, NextInv, PTL DEF Spec

-----------------------------------------------------------------------------
(* What follows from it.                                                   *)

\* The state keeps its shape.
THEOREM TypeCorrect == Spec => []TypeOK
<1>1. IInv => TypeOK
  BY DEF IInv
<1> QED
  BY <1>1, Invariance, PTL

\* A service is active only on a version that is complete in Qdrant and whole
\* in its BM25 index, whatever runs write while it checks and afterwards.
THEOREM ActiveOnComplete == Spec => []ActiveComplete
<1>1. IInv => ActiveComplete
  BY DEF IInv, ActiveComplete, ServerSound
<1> QED
  BY <1>1, Invariance, PTL

\* No search of an active service finds its two indexes apart.
THEOREM SearchesAgree == Spec => []SearchConsistent
<1>1. IInv => SearchConsistent
  BY DEF IInv, SearchConsistent, ServerSound
<1> QED
  BY <1>1, Invariance, PTL

\* A real run publishes complete versions only.
THEOREM PublishedComplete == Spec => []RealRunComplete
<1>1. IInv => RealRunComplete
  BY DEF IInv, RealRunComplete, RunSound
<1> QED
  BY <1>1, Invariance, PTL

\* The count check of a run comes out right whatever other runs left behind.
THEOREM CountsMatch == Spec => []CountMatches
<1>1. ASSUME IInv, NEW p \in Runs, step[p] = "verify"
      PROVE  Cardinality(points[version[p]]) = Len(Plan[version[p]])
  <2>1. /\ version[p] \in Versions /\ done[p] \in Nat
        /\ \A j \in 1 .. Len(Plan[version[p]]) :
              j <= done[p] => Plan[version[p]][j] \in points[version[p]]
        /\ done[p] >= Len(Plan[version[p]])
        /\ points[version[p]] \subseteq ChunkSet(version[p])
    BY <1>1 DEF IInv, TypeOK, RunnerTypeOK, RunSound, StoreSound
  <2>2. \A j \in 1 .. Len(Plan[version[p]]) : j <= done[p]
    BY <2>1, PlanType
  <2>3. points[version[p]] = ChunkSet(version[p])
    BY <2>1, <2>2 DEF ChunkSet
  <2> QED
    BY <2>1, <2>3, PlanSize
<1>2. IInv => CountMatches
  BY <1>1 DEF CountMatches
<1> QED
  BY <1>2, Invariance, PTL

-----------------------------------------------------------------------------
(* Refinement: every step of the runs and of the services is a step of     *)
(* IndexService or a stutter.                                              *)

\* The abstract state, by name.
Whole == {v \in Versions : Complete(v)}
Published == {v \in Versions : artifacts[v] # {}}
Real == {p \in Runs : ~dry[p]}
Exits == [p \in Runs |-> Exit(p)]
Servings == [s \in Servers |-> Serving(s)]

-----------------------------------------------------------------------------
(* Two more invariants.                                                    *)

QdrantSteps == {"collection", "create", "payload", "embed", "verify"}

\* Dry runs keep away from Qdrant.
RealSteps == \A p \in Runs : step[p] \in QdrantSteps => ~dry[p]

\* A process past load_bm25_index has found the artifact of its version.
LoadedPublished == \A s \in Servers : phase[s] # "idle" => artifacts[configured[s]] # {}

RInv == IInv /\ RealSteps /\ LoadedPublished

\* What a step of run p does to the labels: Qdrant is reached by real runs only.
LEMMA RunLabels ==
    ASSUME TypeOK, NEW p \in Runs, RunStep(p) \/ Kill(p)
    PROVE  /\ \E n \in Steps : /\ step' = [step EXCEPT ![p] = n]
                               /\ n \in QdrantSteps =>
                                     step[p] \in QdrantSteps \/ ~dry[p]
           /\ UNCHANGED <<version, dry>>
           /\ step[p] \in Steps \ Stopped
<1> USE DEF Continue, Raise, Steps, Stopped, QdrantSteps
<1>1. CASE BuildPlan(p)
  BY <1>1 DEF BuildPlan
<1>2. CASE FindCollection(p)
  BY <1>2 DEF FindCollection
<1>3. CASE CreateCollection(p)
  BY <1>3 DEF CreateCollection
<1>4. CASE CreatePayloadIndexes(p)
  BY <1>4 DEF CreatePayloadIndexes
<1>5. CASE UpsertBatch(p)
  BY <1>5 DEF UpsertBatch
<1>6. CASE AllUpserted(p)
  BY <1>6 DEF AllUpserted
<1>7. CASE VerifyCount(p)
  BY <1>7 DEF VerifyCount
<1>8. CASE WriteManifest(p)
  BY <1>8 DEF WriteManifest
<1>9. CASE WriteBm25(p)
  BY <1>9 DEF WriteBm25
<1>10. CASE Kill(p)
  BY <1>10 DEF Kill, TypeOK, RunnerTypeOK
<1> QED
  BY <1>1, <1>2, <1>3, <1>4, <1>5, <1>6, <1>7, <1>8, <1>9, <1>10 DEF RunStep

\* Runs never take an artifact away.
LEMMA ArtifactsStay ==
    ASSUME TypeOK, NEW p \in Runs, RunStep(p) \/ Kill(p)
    PROVE  \A v \in Versions : artifacts[v] # {} => artifacts'[v] # {}
<1>1. CASE WriteBm25(p)
  <2>1. CASE UNCHANGED artifacts
    BY <2>1
  <2>2. CASE /\ ChunkSet(version[p]) # {}
             /\ artifacts' = [artifacts EXCEPT ![version[p]] = ChunkSet(version[p])]
    BY <2>2 DEF TypeOK, StoreTypeOK
  <2> QED
    BY <1>1, <2>1, <2>2 DEF WriteBm25
<1>2. CASE ~WriteBm25(p)
  BY <1>2 DEF RunStep, Kill, BuildPlan, FindCollection, CreateCollection,
     CreatePayloadIndexes, UpsertBatch, AllUpserted, VerifyCount, WriteManifest, store
<1> QED
  BY <1>1, <1>2

\* The three invariants are inductive together.
LEMMA RInvInductive ==
    /\ Init => RInv
    /\ RInv /\ [Next]_vars => RInv'
<1>1. ASSUME Init PROVE RInv
  BY <1>1, InitInv DEF Init, RunnerInit, ServerInit, RInv, RealSteps, LoadedPublished,
     QdrantSteps
<1>2. ASSUME RInv, [Next]_vars PROVE RInv'
  <2>1. IInv' /\ TypeOK
    BY <1>2, NextInv DEF RInv, IInv
  <2>2. ASSUME NEW p \in Runs, RunStep(p) \/ Kill(p), UNCHANGED service
        PROVE  RealSteps' /\ LoadedPublished'
    <3>1. RealSteps'
      BY <1>2, <2>1, <2>2, RunLabels DEF RInv, RealSteps, TypeOK, RunnerTypeOK
    <3>2. \A s \in Servers : phase[s] # "idle" => configured[s] \in Versions
      BY <1>2 DEF RInv, IInv, ServerSound
    <3>3. LoadedPublished'
      BY <1>2, <2>1, <2>2, <3>2, ArtifactsStay DEF RInv, LoadedPublished, service
    <3> QED
      BY <3>1, <3>3
  <2>3. ASSUME NEW s \in Servers, ServerStep(s) \/ Restart(s), UNCHANGED runner
        PROVE  RealSteps' /\ LoadedPublished'
    <3>1. RealSteps'
      BY <1>2, <2>3 DEF RInv, RealSteps, runner
    <3>2. /\ phase \in [Servers -> Phases]
          /\ configured \in [Servers -> Versions \cup {NoVersion}]
      BY <2>1 DEF TypeOK, ServerTypeOK
    <3>3. UNCHANGED artifacts
      BY <2>3 DEF ServerStep, LoadBm25, CheckCollection, ScrollPage, Compare, Search,
         Restart, store
    <3>4. /\ phase'[s] # "idle" => phase[s] # "idle" \/ artifacts[configured[s]] # {}
          /\ phase'[s] # "idle" => configured'[s] = configured[s]
          /\ \A t \in Servers \ {s} : phase'[t] = phase[t] /\ configured'[t] = configured[t]
      BY <2>3, <3>2 DEF ServerStep, LoadBm25, Loadable, CheckCollection, ScrollPage, Compare,
         Search, Restart, GiveUp
    <3>5. LoadedPublished'
      BY <1>2, <3>3, <3>4 DEF RInv, LoadedPublished
    <3> QED
      BY <3>1, <3>5
  <2>4. CASE UNCHANGED vars
    BY <1>2, <2>1, <2>4 DEF RInv, RealSteps, LoadedPublished, vars, store, runner, service
  <2> QED
    BY <1>2, <2>1, <2>2, <2>3, <2>4 DEF Next, RInv
<1> QED
  BY <1>1, <1>2

-----------------------------------------------------------------------------
(* Steps of a run.                                                         *)

\* At the start there is no version, and nobody serves.
LEMMA InitRefines == Init => Service!Init
<1> SUFFICES ASSUME Init PROVE Service!Init
  OBVIOUS
<1>1. Whole = {} /\ Published = {}
  BY DEF Init, StoreInit, Whole, Complete, Published
<1>2. \A p \in Runs : Exit(p) = "running"
  BY DEF Init, RunnerInit, Exit, Stopped
<1>3. \A s \in Servers : Serving(s) = NoVersion
  BY DEF Init, ServerInit, Serving
<1> QED
  BY <1>1, <1>2, <1>3 DEF Init, RunnerInit, ServerInit, Service!Init, Whole, Published

\* What the rest of the abstract state does in a step of run p.
LEMMA RunFrame ==
    ASSUME TypeOK, NEW p \in Runs, NEW n \in Steps, step' = [step EXCEPT ![p] = n],
           step[p] \notin Stopped, UNCHANGED <<version, dry, service>>
    PROVE  /\ Exits' = IF n \in Stopped THEN [Exits EXCEPT ![p] = n] ELSE Exits
           /\ Exits[p] = "running"
           /\ UNCHANGED <<version, Real, Servings, answer>>
<1>1. \A q \in Runs : Exit(q)' = IF q = p /\ n \in Stopped THEN n ELSE Exit(q)
  BY DEF Exit, TypeOK, RunnerTypeOK
<1>2. Exits' = IF n \in Stopped THEN [Exits EXCEPT ![p] = n] ELSE Exits
  BY <1>1 DEF Exits
<1>3. \A s \in Servers : Serving(s)' = Serving(s)
  BY DEF Serving, service
<1> QED
  BY <1>2, <1>3 DEF Exits, Exit, Real, Servings, service

\* A step that leaves Qdrant and the artifacts alone is invisible, or it is the
\* end of the run.
LEMMA QuietRefines ==
    ASSUME TypeOK, NEW p \in Runs, NEW n \in Steps \ {"ok"},
           step' = [step EXCEPT ![p] = n], step[p] \notin Stopped,
           UNCHANGED <<version, dry, service, collections, points, artifacts>>
    PROVE  [Service!Next]_(Service!vars)
<1>1. UNCHANGED <<Whole, Published>>
  BY DEF Whole, Published, Complete
<1>2. CASE n \in Stopped
  <2>1. Exits' = [Exits EXCEPT ![p] = n] /\ n \in {"failed", "killed"}
    BY <1>2, RunFrame DEF Stopped
  <2>2. Service!Stop(p)
    BY <1>1, <2>1, RunFrame
    DEF Service!Stop, Service!runs, Exits, Real, Servings, Whole, Published
  <2> QED
    BY <2>2 DEF Service!Next
<1>3. CASE n \notin Stopped
  BY <1>1, <1>3, RunFrame
  DEF Service!vars, Service!runs, Exits, Real, Servings, Whole, Published
<1> QED
  BY <1>2, <1>3

\* A step of a real run that adds to the collection of its version completes
\* the version or is invisible; it may be the run's last.
LEMMA StoreRefines ==
    ASSUME TypeOK, NEW p \in Runs, NEW n \in Steps \ {"ok", "killed"},
           step' = [step EXCEPT ![p] = n], step[p] \notin Stopped, ~dry[p], Grows,
           UNCHANGED <<version, dry, service, artifacts>>,
           \A v \in Versions \ {version[p]} :
              points'[v] = points[v] /\ (v \in collections' => v \in collections)
    PROVE  [Service!Next]_(Service!vars)
<1>1. version[p] \in Versions
  BY DEF TypeOK, RunnerTypeOK
<1>2. Published' = Published
  BY DEF Published
<1>3. \A v \in Versions : Complete(v) => Complete(v)'
  BY CompleteStable DEF Complete
<1>4. \A v \in Versions \ {version[p]} : Complete(v)' => Complete(v)
  BY DEF Complete
<1>5. Whole' = Whole \/ Whole' = Whole \cup {version[p]}
  BY <1>1, <1>3, <1>4 DEF Whole
<1>6. Exits' = Exits \/ Exits' = [Exits EXCEPT ![p] = "failed"]
  BY RunFrame DEF Stopped
<1>7. CASE Whole' = Whole \cup {version[p]}
  <2>1. Service!Store(p)
    BY <1>2, <1>6, <1>7, RunFrame
    DEF Service!Store, Service!runs, Exits, Real, Servings, Whole, Published
  <2> QED
    BY <2>1 DEF Service!Next
<1>8. CASE Whole' = Whole /\ Exits' = Exits
  BY <1>2, <1>8, RunFrame
  DEF Service!vars, Service!runs, Exits, Real, Servings, Whole, Published
<1>9. CASE Whole' = Whole /\ Exits' = [Exits EXCEPT ![p] = "failed"]
  <2>1. Service!Stop(p)
    BY <1>2, <1>9, RunFrame
    DEF Service!Stop, Service!runs, Exits, Real, Servings, Whole, Published
  <2> QED
    BY <2>1 DEF Service!Next
<1> QED
  BY <1>5, <1>6, <1>7, <1>8, <1>9

\* The artifact is the last thing a run publishes.
LEMMA SucceedRefines ==
    ASSUME IInv, NEW p \in Runs, WriteBm25(p), UNCHANGED service
    PROVE  [Service!Next]_(Service!vars)
<1>0. TypeOK /\ step[p] = "bm25" /\ version[p] \in Versions
  BY DEF IInv, WriteBm25, TypeOK, RunnerTypeOK
<1>1. CASE Raise(p) /\ UNCHANGED artifacts
  BY <1>0, <1>1, QuietRefines DEF WriteBm25, Raise, Continue, Steps, Stopped
<1>2. CASE /\ ChunkSet(version[p]) # {}
           /\ artifacts' = [artifacts EXCEPT ![version[p]] = ChunkSet(version[p])]
           /\ Continue(p, "ok")
  <2>1. step' = [step EXCEPT ![p] = "ok"] /\ "ok" \in Steps
    BY <1>2 DEF Continue, Steps
  <2>2. UNCHANGED <<version, dry, collections, points>>
    BY DEF WriteBm25
  <2>3. /\ Exits' = [Exits EXCEPT ![p] = "ok"] /\ Exits[p] = "running"
        /\ UNCHANGED <<version, Real, Servings, answer>>
    BY <1>0, <2>1, <2>2, RunFrame DEF Stopped
  <2>4. Whole' = Whole
    BY <2>2 DEF Whole, Complete
  <2>5. Published' = Published \cup {version[p]}
    BY <1>0, <1>2 DEF Published, TypeOK, StoreTypeOK
  <2>6. p \in Real => version[p] \in Whole
    BY <1>0 DEF IInv, RunSound, Real, Whole
  <2>7. Service!Succeed(p)
    BY <2>3, <2>4, <2>5, <2>6
    DEF Service!Succeed, Service!runs, Exits, Real, Servings, Whole, Published
  <2> QED
    BY <2>7 DEF Service!Next
<1> QED
  BY <1>1, <1>2 DEF WriteBm25

\* Every step of a run.
LEMMA RunRefines ==
    ASSUME RInv, NEW p \in Runs, RunStep(p) \/ Kill(p), UNCHANGED service
    PROVE  [Service!Next]_(Service!vars)
<1>1. TypeOK /\ IInv /\ (step[p] \in QdrantSteps => ~dry[p])
  BY DEF RInv, IInv, RealSteps
<1>2. PICK n \in Steps : step' = [step EXCEPT ![p] = n]
  BY <1>1, RunLabels
<1>3. UNCHANGED <<version, dry>> /\ step[p] \notin Stopped
  BY <1>1, RunLabels
<1>4. step'[p] = n /\ step \in [Runs -> Steps]
  BY <1>1, <1>2 DEF TypeOK, RunnerTypeOK
<1>5. CASE CreateCollection(p)
  <2>1. n \in Steps \ {"ok", "killed"} /\ ~dry[p] /\ UNCHANGED <<points, artifacts>>
    BY <1>1, <1>4, <1>5 DEF CreateCollection, Raise, Continue, QdrantSteps
  <2>2. collections' \in {collections, collections \cup {version[p]}}
    BY <1>5 DEF CreateCollection
  <2> QED
    BY <1>1, <1>2, <1>3, <2>1, <2>2, StoreRefines DEF Grows
<1>6. CASE UpsertBatch(p)
  <2>1. n \in Steps \ {"ok", "killed"} /\ ~dry[p] /\ UNCHANGED <<collections, artifacts>>
    BY <1>1, <1>4, <1>6 DEF UpsertBatch, Raise, Continue, QdrantSteps
  <2>2. \E part \in SUBSET Batch(p) : points' = [points EXCEPT ![version[p]] = @ \cup part]
    BY <1>6 DEF UpsertBatch
  <2>3. Grows /\ \A v \in Versions \ {version[p]} : points'[v] = points[v]
    BY <1>1, <2>1, <2>2 DEF Grows, TypeOK, StoreTypeOK
  <2> QED
    BY <1>1, <1>2, <1>3, <2>1, <2>3, StoreRefines
<1>7. CASE WriteBm25(p)
  BY <1>1, <1>7, SucceedRefines
<1>8. CASE \/ BuildPlan(p) \/ FindCollection(p) \/ CreatePayloadIndexes(p)
           \/ AllUpserted(p) \/ VerifyCount(p) \/ WriteManifest(p) \/ Kill(p)
  <2>1. n # "ok" /\ UNCHANGED <<collections, points, artifacts>>
    BY <1>4, <1>8 DEF BuildPlan, FindCollection, CreatePayloadIndexes, AllUpserted,
       VerifyCount, WriteManifest, Kill, Raise, Continue, store
  <2> QED
    BY <1>1, <1>2, <1>3, <2>1, QuietRefines
<1> QED
  BY <1>5, <1>6, <1>7, <1>8 DEF RunStep

-----------------------------------------------------------------------------
(* Steps of a service.                                                     *)

\* No step of a service changes what there is to serve.
LEMMA ServerFrameR ==
    ASSUME UNCHANGED <<store, runner>>
    PROVE  UNCHANGED <<Whole, Published, version, Real, Exits>>
  BY DEF store, runner, Whole, Published, Complete, Real, Exits, Exit

\* A failed check is an answer without documents.
LEMMA GiveUpRefines ==
    ASSUME TypeOK, NEW s \in Servers, GiveUp(s), phase[s] # "active",
           UNCHANGED <<store, runner>>
    PROVE  Service!Next
<1>1. /\ answer' = [answer EXCEPT ![s] = "unavailable"]
      /\ phase' = [phase EXCEPT ![s] = "idle"] /\ UNCHANGED configured
      /\ phase \in [Servers -> Phases]
  BY DEF GiveUp, TypeOK, ServerTypeOK
<1>2. Servings[s] = NoVersion /\ \A t \in Servers : Serving(t)' = Serving(t)
  BY <1>1 DEF Servings, Serving
<1>3. Servings' = Servings
  BY <1>2 DEF Servings
<1>4. Service!Answer(s)
  BY <1>1, <1>2, <1>3, ServerFrameR
  DEF Service!Answer, Service!runs, Exits, Real, Servings, Whole, Published
<1> QED
  BY <1>4 DEF Service!Next

\* Every step of a service.
LEMMA ServerRefines ==
    ASSUME RInv, NEW s \in Servers, ServerStep(s) \/ Restart(s), UNCHANGED runner
    PROVE  [Service!Next]_(Service!vars)
<1>1. /\ TypeOK /\ ServerSound(s)
      /\ phase[s] # "idle" => configured[s] \in Versions
      /\ phase \in [Servers -> Phases] /\ answer \in [Servers -> Answers]
  BY DEF RInv, IInv, TypeOK, ServerTypeOK, ServerSound
<1>2. UNCHANGED store
  BY DEF ServerStep, LoadBm25, CheckCollection, ScrollPage, Compare, Search, Restart
<1>3. UNCHANGED <<Whole, Published, version, Real, Exits>>
  BY <1>2, ServerFrameR
<1>4. CASE LoadBm25(s) \/ CheckCollection(s) \/ ScrollPage(s)
  <2>1. phase[s] # "active"
    BY <1>4 DEF LoadBm25, CheckCollection, ScrollPage
  <2>2. CASE GiveUp(s)
    BY <1>1, <1>2, <2>1, <2>2, GiveUpRefines
  <2>3. CASE ~GiveUp(s)
    <3>1. /\ \/ \E f \in {"connect", "scroll", "compare"} : phase' = [phase EXCEPT ![s] = f]
             \/ UNCHANGED phase
          /\ UNCHANGED <<configured, answer>>
      BY <1>4, <2>3 DEF LoadBm25, CheckCollection, ScrollPage
    <3>2. \A t \in Servers : Serving(t)' = Serving(t)
      BY <1>1, <2>1, <3>1 DEF Serving
    <3>3. Servings' = Servings
      BY <3>2 DEF Servings
    <3> QED
      BY <1>3, <3>1, <3>3
      DEF Service!vars, Service!runs, Exits, Real, Servings, Whole, Published
  <2> QED
    BY <2>2, <2>3
<1>5. CASE Compare(s)
  <2>1. phase[s] = "compare"
    BY <1>5 DEF Compare
  <2>2. CASE GiveUp(s)
    BY <1>1, <1>2, <2>1, <2>2, GiveUpRefines
  <2>3. CASE ~GiveUp(s)
    <3>1. /\ phase' = [phase EXCEPT ![s] = "active"] /\ UNCHANGED <<configured, answer>>
          /\ scrolled[s] = loaded[s]
      BY <1>5, <2>3 DEF Compare, Matches
    <3>2. Complete(configured[s])
      BY <1>1, <2>1, <3>1 DEF ServerSound, Complete, Index
    <3>3. artifacts[configured[s]] # {}
      BY <2>1 DEF RInv, LoadedPublished
    <3>4. configured[s] \in Whole \cap Published
      BY <1>1, <2>1, <3>2, <3>3 DEF Whole, Published
    <3>5. \A t \in Servers : Serving(t)' = IF t = s THEN configured[s] ELSE Serving(t)
      BY <1>1, <3>1 DEF Serving
    <3>6. Servings[s] = NoVersion /\ Servings' = [Servings EXCEPT ![s] = configured[s]]
      BY <2>1, <3>5 DEF Servings, Serving
    <3>7. Service!Activate(s)
      BY <1>3, <3>1, <3>4, <3>6
      DEF Service!Activate, Service!runs, Exits, Real, Servings, Whole, Published
    <3> QED
      BY <3>7 DEF Service!Next
  <2> QED
    BY <2>2, <2>3
<1>6. CASE Search(s)
  <2>1. /\ phase[s] = "active" /\ UNCHANGED <<phase, configured>>
        /\ \E a \in {"documents", "unavailable"} : answer' = [answer EXCEPT ![s] = a]
    BY <1>1, <1>6 DEF Search, ServerSound, Complete, Index
  <2>2. Servings' = Servings /\ Servings[s] # NoVersion
    BY <1>1, <2>1, ServerAssumption DEF Servings, Serving
  <2>3. Service!Answer(s)
    BY <1>3, <2>1, <2>2
    DEF Service!Answer, Service!runs, Exits, Real, Servings, Whole, Published
  <2> QED
    BY <2>3 DEF Service!Next
<1>7. CASE Restart(s)
  <2>1. /\ phase' = [phase EXCEPT ![s] = "idle"]
        /\ answer' = [answer EXCEPT ![s] = "none"]
        /\ \A t \in Servers \ {s} : configured'[t] = configured[t]
    BY <1>1, <1>7 DEF Restart, TypeOK, ServerTypeOK
  <2>2. \A t \in Servers : Serving(t)' = IF t = s THEN NoVersion ELSE Serving(t)
    BY <1>1, <2>1 DEF Serving
  <2>3. Servings' = [Servings EXCEPT ![s] = NoVersion]
    BY <2>2 DEF Servings
  <2>4. Service!Restart(s)
    BY <1>3, <2>1, <2>3
    DEF Service!Restart, Service!runs, Exits, Real, Servings, Whole, Published
  <2> QED
    BY <2>4 DEF Service!Next
<1> QED
  BY <1>4, <1>5, <1>6, <1>7 DEF ServerStep

\* Runs that write batches and files, fail and overlap, and services that read
\* pages meanwhile, implement versions that appear whole or not at all.
THEOREM Refinement == Spec => ImplementsIndexService
<1>1. ASSUME RInv, [Next]_vars PROVE [Service!Next]_(Service!vars)
  <2>1. CASE UNCHANGED vars
    <3>1. UNCHANGED <<store, runner, service>>
      BY <2>1 DEF vars
    <3>2. UNCHANGED Servings
      BY <3>1 DEF service, Servings, Serving
    <3> QED
      BY <3>1, <3>2, ServerFrameR
      DEF service, Service!vars, Service!runs, Exits, Real, Servings, Whole, Published
  <2> QED
    BY <1>1, <2>1, RunRefines, ServerRefines DEF Next
<1>2. Spec => []RInv
  BY RInvInductive, PTL DEF Spec
<1>3. Spec => Service!Init
  BY InitRefines, PTL DEF Spec
<1>4. Spec => [][Service!Next]_(Service!vars)
  BY <1>1, <1>2, PTL DEF Spec
<1> QED
  BY <1>3, <1>4, PTL DEF ImplementsIndexService, Service!Spec
=============================================================================
