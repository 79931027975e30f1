---------------------------- MODULE IndexService ----------------------------
(***************************************************************************)
(* What the RAG index promises, with nothing said of batches, pages and    *)
(* files: a version comes into being whole, in one step; an index run that *)
(* was not dry ends with 0 only for a version that is there; and a service *)
(* answers from one version, which was whole when it took it up.           *)
(***************************************************************************)
CONSTANTS Runs, Servers, Versions,
          NoVersion     \* a process that is not serving

VARIABLES whole,      \* the versions that are there, for good
          published,  \* the versions whose artifact has been published
          version,    \* the version each run builds
          real,       \* the runs that are not dry
          exit,       \* "running", or how the run ended
          serving,    \* the version each process answers from
          answer      \* the outcome of its last search

runs == <<version, real>>
vars == <<whole, published, runs, exit, serving, answer>>

Outcomes == {"none", "documents", "unavailable"}

Init ==
    /\ whole = {} /\ published = {}
    /\ version \in [Runs -> Versions] /\ real \in SUBSET Runs
    /\ exit = [p \in Runs |-> "running"]
    /\ serving = [s \in Servers |-> NoVersion]
    /\ answer = [s \in Servers |-> "none"]

\* A real run completes its version; it may fail in the same moment.
Store(p) ==
    /\ p \in real /\ exit[p] = "running"
    /\ whole' = whole \cup {version[p]}
    /\ exit' \in {exit, [exit EXCEPT ![p] = "failed"]}
    /\ UNCHANGED <<published, runs, serving, answer>>

\* A run ends with 0.
Succeed(p) ==
    /\ exit[p] = "running"
    /\ p \in real => version[p] \in whole
    /\ published' = published \cup {version[p]}
    /\ exit' = [exit EXCEPT ![p] = "ok"]
    /\ UNCHANGED <<whole, runs, serving, answer>>

\* A run fails or is killed: no version is lost, none is published.
Stop(p) ==
    /\ exit[p] = "running"
    /\ exit' \in {[exit EXCEPT ![p] = end] : end \in {"failed", "killed"}}
    /\ UNCHANGED <<whole, published, runs, serving, answer>>

\* A process takes up a version.
Activate(s) ==
    /\ serving[s] = NoVersion
    /\ serving' \in {[serving EXCEPT ![s] = v] : v \in whole \cap published}
    /\ UNCHANGED <<whole, published, runs, exit, answer>>

\* A search: without a version there are no documents.
Answer(s) ==
    /\ answer' \in {[answer EXCEPT ![s] = a] :
                       a \in IF serving[s] = NoVersion THEN {"unavailable"}
                             ELSE {"documents", "unavailable"}}
    /\ UNCHANGED <<whole, published, runs, exit, serving>>

\* A process starts again, without a version.
Restart(s) ==
    /\ serving' = [serving EXCEPT ![s] = NoVersion]
    /\ answer' = [answer EXCEPT ![s] = "none"]
    /\ UNCHANGED <<whole, published, runs, exit>>

Next == \/ \E p \in Runs : Store(p) \/ Succeed(p) \/ Stop(p)
        \/ \E s \in Servers : Activate(s) \/ Answer(s) \/ Restart(s)

Spec == Init /\ [][Next]_vars
=============================================================================
