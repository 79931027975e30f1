---------------------------- MODULE OnlineIndex ----------------------------
(***************************************************************************)
(* The retrieval service (main.py, DenseRetrievalService): a process       *)
(* creates its service on the first search, after checking the version it  *)
(* is configured with against Qdrant and the BM25 artifact; a failed check *)
(* is repeated by the next search.  A process handles one search at a time *)
(* (the endpoint never yields), but runs and other processes go on while   *)
(* it reads.  Left out: the checks of numbers of the configuration (the    *)
(* dimension of the collection, candidate_top_k), which can only make a    *)
(* process give up, whatever the store holds.                              *)
(***************************************************************************)
EXTENDS IndexStore

CONSTANTS Servers,        \* the service processes
          PageSize,       \* points per scroll page (256)
          NoVersion,      \* no RAG_INDEX_VERSION; a process that is not serving
          ScrollRank,     \* the order of point ids (UUIDs), which scroll follows
          ServerFaults    \* TRUE if Qdrant may be unreachable and processes restart

\* Point ids order the chunks of a version strictly.
ASSUME ServerAssumption ==
    /\ PageSize \in Nat \ {0}
    /\ ServerFaults \in BOOLEAN
    /\ NoVersion \notin Versions
    /\ \A v \in Versions : \A c, d \in ChunkSet(v) :
          ScrollRank[c] \in Nat /\ (ScrollRank[c] = ScrollRank[d] => c = d)

VARIABLES phase,      \* where each process is
          configured, \* its RAG_INDEX_VERSION
          loaded,     \* the chunk ids of the BM25 index in memory
          offset,     \* the rank the next scroll page starts at
          scrolled,   \* the chunks the scroll has returned so far
          answer      \* the outcome of its last search

service == <<phase, configured, loaded, offset, scrolled, answer>>

Phases == {"idle", "connect", "scroll", "compare", "active"}
Answers == {"none", "documents", "unavailable", "mismatch"}

ServerInit ==
    /\ phase = [s \in Servers |-> "idle"]
    /\ configured \in [Servers -> Versions \cup {NoVersion}]
    /\ loaded = [s \in Servers |-> {}]
    /\ offset = [s \in Servers |-> 0]
    /\ scrolled = [s \in Servers |-> {}]
    /\ answer = [s \in Servers |-> "none"]

Index(s) == points[configured[s]]

\* Mutant of GiveUp: the half-made service is kept, nothing is read again.
KeepHalfMade(s) ==
    /\ answer' = [answer EXCEPT ![s] = "unavailable"]
    /\ UNCHANGED <<phase, configured, loaded, offset, scrolled>>

\* An exception in _create_service: an HTTP error, and _service stays None.
GiveUp(s) ==
    /\ phase' = [phase EXCEPT ![s] = "idle"]
    /\ answer' = [answer EXCEPT ![s] = "unavailable"]
    /\ UNCHANGED <<configured, loaded, offset, scrolled>>

\* _load_settings needs a version, load_bm25_index its artifact, which is
\* written whole and never empty.
Loadable(v) == v # NoVersion /\ artifacts[v] # {}

\* The first half of _create_service.
LoadBm25(s) ==
    /\ phase[s] = "idle"
    /\ \/ /\ Loadable(configured[s])
          /\ loaded' = [loaded EXCEPT ![s] = artifacts[configured[s]]]
          /\ phase' = [phase EXCEPT ![s] = "connect"]
          /\ UNCHANGED <<configured, offset, scrolled, answer>>
       \/ ~Loadable(configured[s]) /\ GiveUp(s)
    /\ UNCHANGED store

\* Mutant of CheckCollection: a collection that is not empty is good enough.
CountOnly(s) ==
    /\ phase[s] = "connect"
    /\ \/ /\ configured[s] \in collections
          /\ Index(s) # {}
          /\ phase' = [phase EXCEPT ![s] = "active"]
          /\ UNCHANGED <<configured, loaded, offset, scrolled, answer>>
       \/ GiveUp(s)
    /\ UNCHANGED store

\* _validate_active_index: the collection exists and is not empty.
CheckCollection(s) ==
    /\ phase[s] = "connect"
    /\ \/ /\ configured[s] \in collections
          /\ Index(s) # {}
          /\ phase' = [phase EXCEPT ![s] = "scroll"]
          /\ offset' = [offset EXCEPT ![s] = 0]
          /\ scrolled' = [scrolled EXCEPT ![s] = {}]
          /\ UNCHANGED <<configured, loaded, answer>>
       \/ /\ configured[s] \notin collections \/ Index(s) = {} \/ ServerFaults
          /\ GiveUp(s)
    /\ UNCHANGED store

\* The points a scroll that starts at the process's offset still has to return.
Ahead(s) == {c \in Index(s) : ScrollRank[c] >= offset[s]}

Page(s) == {c \in Ahead(s) :
              Cardinality({d \in Ahead(s) : ScrollRank[d] < ScrollRank[c]}) < PageSize}

\* _build_document_chunk_orders reads page after page; the collection may grow
\* between two pages, and a point behind the offset is not returned.
ScrollPage(s) ==
    /\ phase[s] = "scroll"
    /\ \/ /\ scrolled' = [scrolled EXCEPT ![s] = @ \cup Page(s)]
          /\ LET rest == Ahead(s) \ Page(s)
             IN  \/ /\ rest = {}
                    /\ phase' = [phase EXCEPT ![s] = "compare"]
                    /\ UNCHANGED offset
                 \/ /\ \E c \in rest :
                          /\ \A d \in rest : ScrollRank[c] <= ScrollRank[d]
                          /\ offset' = [offset EXCEPT ![s] = ScrollRank[c]]
                    /\ UNCHANGED phase
          /\ UNCHANGED <<configured, loaded, answer>>
       \/ ServerFaults /\ GiveUp(s)
    /\ UNCHANGED store

\* chunk_order runs from 0 without a gap in every document.
Continuous(S) == \A c \in S : \A n \in 0 .. c.order :
                    \E d \in S : d.doc = c.doc /\ d.order = n

\* Mutant of Matches: chunks that Qdrant lacks are not noticed.
NothingExtra(s) == Continuous(scrolled[s]) /\ scrolled[s] \subseteq loaded[s]

Matches(s) == Continuous(scrolled[s]) /\ scrolled[s] = loaded[s]

\* The end of _validate_active_index: the two indexes hold the same chunks.
Compare(s) ==
    /\ phase[s] = "compare"
    /\ \/ /\ Matches(s)
          /\ phase' = [phase EXCEPT ![s] = "active"]
          /\ UNCHANGED <<configured, loaded, offset, scrolled, answer>>
       \/ ~Matches(s) /\ GiveUp(s)
    /\ UNCHANGED store

\* A search of an active service: BM25 candidates are fetched from Qdrant by
\* chunk id, and a candidate that is not there ends the search with an error.
Search(s) ==
    /\ phase[s] = "active"
    /\ \/ \E candidates \in SUBSET loaded[s] :
             answer' = [answer EXCEPT ![s] =
                           IF candidates \subseteq Index(s) THEN "documents" ELSE "mismatch"]
       \/ ServerFaults /\ answer' = [answer EXCEPT ![s] = "unavailable"]
    /\ UNCHANGED <<phase, configured, loaded, offset, scrolled, store>>

\* Mutant of Restart: a blank RAG_INDEX_VERSION is taken for a version.
RestartBlank(s) ==
    /\ ServerFaults
    /\ configured' = [configured EXCEPT ![s] = "blank"]
    /\ phase' = [phase EXCEPT ![s] = "idle"]
    /\ loaded' = [loaded EXCEPT ![s] = {}]
    /\ answer' = [answer EXCEPT ![s] = "none"]
    /\ UNCHANGED <<offset, scrolled, store>>

\* Mutant of Restart: the new version is taken up by the service in memory.
RestartInPlace(s) ==
    /\ ServerFaults
    /\ \E v \in Versions : configured' = [configured EXCEPT ![s] = v]
    /\ UNCHANGED <<phase, loaded, offset, scrolled, answer, store>>

\* The process restarts, perhaps with another RAG_INDEX_VERSION, or none.
Restart(s) ==
    /\ ServerFaults
    /\ \E v \in Versions \cup {NoVersion} : configured' = [configured EXCEPT ![s] = v]
    /\ phase' = [phase EXCEPT ![s] = "idle"]
    /\ loaded' = [loaded EXCEPT ![s] = {}]
    /\ answer' = [answer EXCEPT ![s] = "none"]
    /\ UNCHANGED <<offset, scrolled, store>>

ServerStep(s) == LoadBm25(s) \/ CheckCollection(s) \/ ScrollPage(s) \/ Compare(s)
                 \/ Search(s)

ServerTypeOK ==
    /\ phase \in [Servers -> Phases]
    /\ configured \in [Servers -> Versions \cup {NoVersion}]
    /\ loaded \in [Servers -> SUBSET Chunk]
    /\ offset \in [Servers -> Nat]
    /\ scrolled \in [Servers -> SUBSET Chunk]
    /\ answer \in [Servers -> Answers]
=============================================================================
