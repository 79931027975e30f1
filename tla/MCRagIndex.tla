----------------------------- MODULE MCRagIndex -----------------------------
(* Instances of RagIndex for TLC: two documents, version "full" with three  *)
(* chunks and version "empty" without any.                                  *)
EXTENDS RagIndex, TLC

MCPlans == "full" :> <<[doc |-> "a", order |-> 0], [doc |-> "a", order |-> 1],
                       [doc |-> "b", order |-> 0]>>
           @@ "empty" :> <<>>
MCPlan == [v \in Versions |-> MCPlans[v]]

\* Point ids are hashes: the last chunk upserted comes first in a scroll.
MCScrollRank == [doc |-> "b", order |-> 0] :> 0
                @@ [doc |-> "a", order |-> 1] :> 1
                @@ [doc |-> "a", order |-> 0] :> 2

Symmetry == Permutations(Runs)
=============================================================================
